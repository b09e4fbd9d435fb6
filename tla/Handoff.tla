------------------------------- MODULE Handoff -------------------------------
(***************************************************************************)
(* The handoff file (src/crates/core/sidecar-runtime/src/handoff.rs): each *)
(* run of a sidecar publishes a token of its own beside its port, and a    *)
(* local process that has found it calls the sidecar with it.  The crate   *)
(* leaves the order of bind, publish and withdraw to the sidecar: here a   *)
(* run binds, publishes, serves, and on a signal stops listening and       *)
(* withdraws, so that its successor may start in the meantime.             *)
(***************************************************************************)
EXTENDS Naturals

CONSTANTS
    MaxRuns,    \* bound on the runs of the sidecar
    Clients,    \* local processes that hold no key
    Other,      \* a program that is no run of the sidecar
    None

RunIds == 1..MaxRuns

ASSUME HandoffAssumption ==
    MaxRuns \in Nat \ {0} /\ Other \notin RunIds /\ None \notin RunIds /\ Other # None

VARIABLES
    run,        \* where each run is
    listener,   \* who listens on the port
    handoff,    \* the run whose token is in the file
    temps,      \* runs whose temporary file is there
    client,     \* where each client is, the token it has read, who served it
    raced       \* runs that published while an older one was removing

handoffVars == <<run, listener, handoff, temps, client, raced>>

RunStates == {"off", "bound", "written", "serving", "unpublished", "stopping", "removing", "gone"}
ClientStates == {"idle", "loaded", "connected", "served"}

HandoffInit ==
    /\ run = [g \in RunIds |-> "off"]
    /\ listener = None /\ handoff = None
    /\ temps = {} /\ raced = {}
    /\ client = [k \in Clients |-> [at |-> "idle", token |-> None, by |-> None]]

Becomes(g, state) == run' = [run EXCEPT ![g] = state]

Starts(g) ==
    /\ run[g] = "off" /\ \A p \in 1..(g - 1) : run[p] # "off"
    /\ listener = None
    /\ listener' = g
    /\ Becomes(g, "bound")
    /\ UNCHANGED <<handoff, temps, client, raced>>

(* write_private_file: a file of its own, synced, then renamed.  An error  *)
(* of either leaves the run without a handoff, and its temporary file goes *)
(* unless that removal fails too, which nobody looks at.                   *)
WritesTemp(g) ==
    /\ run[g] = "bound"
    /\ \/ Becomes(g, "written") /\ temps' = temps \cup {g}
       \/ Becomes(g, "unpublished") /\ temps' \in {temps, temps \cup {g}}
    /\ UNCHANGED <<listener, handoff, client, raced>>

\* A copy in place of the rename, after which the temporary file is there still.
RenamesByCopy(g) ==
    /\ run[g] = "written"
    /\ Becomes(g, "serving") /\ handoff' = g
    /\ UNCHANGED <<listener, temps, client, raced>>

Renames(g) ==
    /\ run[g] = "written"
    /\ \/ /\ Becomes(g, "serving")
          /\ handoff' = g
          /\ temps' = temps \ {g}
          /\ raced' = IF \E p \in RunIds : run[p] = "removing" THEN raced \cup {g} ELSE raced
       \/ /\ Becomes(g, "unpublished")
          /\ temps' \in {temps, temps \ {g}}
          /\ UNCHANGED <<handoff, raced>>
    /\ UNCHANGED <<listener, client>>

(* shutdown_signal.                                                        *)
Stops(g) ==
    /\ run[g] \in {"serving", "unpublished"}
    /\ listener' = None
    /\ Becomes(g, "stopping")
    /\ UNCHANGED <<handoff, temps, client, raced>>

\* Whatever is published goes.
WithdrawsAny(g) ==
    /\ run[g] = "stopping"
    /\ Becomes(g, IF handoff # None THEN "removing" ELSE "gone")
    /\ UNCHANGED <<listener, handoff, temps, client, raced>>

(* withdraw looks whose token is in the file ...                           *)
Withdraws(g) ==
    /\ run[g] = "stopping"
    /\ Becomes(g, IF handoff = g THEN "removing" ELSE "gone")
    /\ UNCHANGED <<listener, handoff, temps, client, raced>>

(* ... and removes the file that is there by then, or fails to.            *)
Removes(g) ==
    /\ run[g] = "removing"
    /\ Becomes(g, "gone")
    /\ handoff' \in {None, handoff}
    /\ UNCHANGED <<listener, temps, client, raced>>

Dies(g) ==
    /\ run[g] \notin {"off", "gone"}
    /\ Becomes(g, "gone")
    /\ listener' = IF listener = g THEN None ELSE listener
    /\ UNCHANGED <<handoff, temps, client, raced>>

(* The port is anybody's while no run is bound to it.                      *)
PortTaken == listener = None /\ listener' = Other /\ UNCHANGED <<run, handoff, temps, client, raced>>
PortFreed == listener = Other /\ listener' = None /\ UNCHANGED <<run, handoff, temps, client, raced>>

Turns(k, at, token, by) ==
    /\ client' = [client EXCEPT ![k] = [at |-> at, token |-> token, by |-> by]]
    /\ UNCHANGED <<run, listener, handoff, temps, raced>>

(* No handoff, no listener, a refusal or an error: the client does without *)
(* the sidecar, and may look for it again.                                 *)
FallsBack(k) == Turns(k, "idle", None, None)

(* connect: the token is read, then the port probed without it.            *)
Loads(k) ==
    /\ client[k].at = "idle"
    /\ handoff # None
    /\ Turns(k, "loaded", handoff, None)

Probes(k) ==
    /\ client[k].at = "loaded"
    /\ \/ listener # None /\ Turns(k, "connected", client[k].token, None)
       \/ listener \in {None, Other} /\ FallsBack(k)

ProbeGivesUp(k) == client[k].at = "loaded" /\ FallsBack(k)

(* authorize: a run takes its own token alone.                             *)
Authorizes(g, token) == token = g

Requests(k) ==
    /\ client[k].at = "connected"
    /\ \/ /\ listener \in RunIds /\ Authorizes(listener, client[k].token)
          /\ Turns(k, "served", client[k].token, listener)
       \/ /\ listener \notin RunIds \/ ~Authorizes(listener, client[k].token)
          /\ FallsBack(k)

RequestGivesUp(k) == client[k].at = "connected" /\ FallsBack(k)

ClientAgain(k) == client[k].at = "served" /\ FallsBack(k)

RunStep(g) == Starts(g) \/ WritesTemp(g) \/ Renames(g) \/ Stops(g) \/ Withdraws(g) \/ Removes(g) \/ Dies(g)
ClientStep(k) == Loads(k) \/ Probes(k) \/ ProbeGivesUp(k) \/ Requests(k) \/ RequestGivesUp(k)
HandoffNext ==
    \/ \E g \in RunIds : RunStep(g)
    \/ PortTaken \/ PortFreed
    \/ \E k \in Clients : ClientStep(k) \/ ClientAgain(k)
-----------------------------------------------------------------------------
(***************************************************************************)
(* The withdrawal of an older run never costs a younger one its handoff,   *)
(* however the two overlap (handoff.rs 130-135 compare the tokens for it), *)
(* but for the race the comparison leaves: a file that was renamed between *)
(* the comparison and the removal of another run.  And no client is served *)
(* by a run other than the one whose handoff it found.                     *)
(***************************************************************************)
LiveStaysPublished ==
    /\ \A g \in RunIds : run[g] = "serving" => handoff = g \/ g \in raced
    /\ \A k \in Clients : client[k].at = "served" => client[k].by = client[k].token
=============================================================================
