------------------------------ MODULE PeerProof ------------------------------
(***************************************************************************)
(* Proof of a loopback peer before a bearer is sent to it                  *)
(* (src/crates/core/sidecar-runtime/src/peer_proof.rs): a challenge on the *)
(* health route, and a cache of the last proof.                            *)
(*                                                                         *)
(* A key is an origin together with a token; holders are the keys whose    *)
(* token the listener at their origin holds.  A challenge is fresh, so an  *)
(* answer proves what its listener held while the probe was under way.     *)
(***************************************************************************)
EXTENDS Integers

CONSTANTS
    Callers,    \* requests under way, all on one cache
    Keys,
    TTL,        \* how long a proof is good
    ProbeTime,  \* the timeout of the probe client
    MaxTime,    \* bound on the clock
    NoKey

ASSUME PeerAssumption ==
    /\ TTL \in Nat /\ ProbeTime \in Nat /\ MaxTime \in Nat
    /\ NoKey \notin Keys

VARIABLES
    holders,    \* who holds what, set by the world
    now,
    cache,      \* ProofCache: one entry or none
    caller,     \* where each request is
    proved      \* when each key was proved last; -1 for never

peerVars == <<cache, caller, proved>>

(* NoProof, WrongProof and Unreachable are one to every caller.            *)
Verdicts == {"Proven", "Unproven"}
Places == {"idle", "probing", "answered", "sending"}
Empty == [key |-> NoKey, at |-> 0]
Idle == [at |-> "idle", key |-> NoKey, since |-> 0, verdict |-> "Unproven"]

PeerInit ==
    /\ holders \in SUBSET Keys
    /\ now = 0
    /\ cache = Empty
    /\ caller = [a \in Callers |-> Idle]
    /\ proved = [k \in Keys |-> -1]

\* The token is left out of the comparison.
IsFreshForAny(key) == cache.key # NoKey /\ now - cache.at < TTL

IsFresh(key) == cache.key = key /\ now - cache.at < TTL

Goes(a, at, key, verdict) ==
    caller' = [caller EXCEPT ![a] = [at |-> at, key |-> key, since |-> now, verdict |-> verdict]]

(* peer_holds_token: a fresh proof will do, else the peer is challenged.   *)
Asks(a, key) ==
    /\ caller[a].at = "idle"
    /\ Goes(a, IF IsFresh(key) THEN "sending" ELSE "probing", key, "Unproven")
    /\ UNCHANGED <<holders, now, cache, proved>>

(* The listener answers a challenge or nobody does: only a holder proves   *)
(* its token, and its answer may be one that cannot be read.               *)
PeerAnswers(a, verdict) ==
    /\ caller[a].at = "probing"
    /\ verdict = "Proven" => caller[a].key \in holders
    /\ caller' = [caller EXCEPT ![a].at = "answered", ![a].verdict = verdict]
    /\ proved' = IF verdict = "Proven" THEN [proved EXCEPT ![caller[a].key] = now] ELSE proved
    /\ UNCHANGED <<holders, now, cache>>

ProbeTimesOut(a) ==
    /\ caller[a].at \in {"probing", "answered"}
    /\ now - caller[a].since >= ProbeTime
    /\ cache' = Empty
    /\ caller' = [caller EXCEPT ![a] = Idle]
    /\ UNCHANGED <<holders, now, proved>>

(* The answer is read: a proof is remembered as of now and the request     *)
(* sent; any other verdict drops whatever is cached, and nothing is sent.  *)
Concludes(a) ==
    /\ caller[a].at = "answered"
    /\ IF caller[a].verdict = "Proven"
       THEN /\ cache' = [key |-> caller[a].key, at |-> now]
            /\ Goes(a, "sending", caller[a].key, "Proven")
       ELSE /\ cache' = Empty
            /\ caller' = [caller EXCEPT ![a] = Idle]
    /\ UNCHANGED <<holders, now, proved>>

Sends(a) ==
    /\ caller[a].at = "sending"
    /\ caller' = [caller EXCEPT ![a] = Idle]
    /\ UNCHANGED <<holders, now, cache, proved>>

(* Time passes, but not past the timeout of a probe.                       *)
Ticks ==
    /\ now < MaxTime
    /\ \A a \in Callers : caller[a].at \in {"probing", "answered"} => now - caller[a].since < ProbeTime
    /\ now' = now + 1
    /\ UNCHANGED <<holders, cache, caller, proved>>

WorldChanges == holders' \in SUBSET Keys /\ UNCHANGED <<now, cache, caller, proved>>

CallerStep(a) ==
    \/ \E key \in Keys : Asks(a, key)
    \/ \E verdict \in Verdicts : PeerAnswers(a, verdict)
    \/ ProbeTimesOut(a) \/ Concludes(a) \/ Sends(a)

PeerNext == (\E a \in Callers : CallerStep(a)) \/ Ticks \/ WorldChanges
pvars == <<holders, now, peerVars>>
PeerSpec == PeerInit /\ [][PeerNext]_pvars
-----------------------------------------------------------------------------
PeerTypeOK ==
    /\ holders \subseteq Keys /\ now \in Nat
    /\ cache \in [key : Keys \cup {NoKey}, at : Nat]
    /\ caller \in [Callers -> [at : Places, key : Keys \cup {NoKey}, since : Nat, verdict : Verdicts]]
    /\ proved \in [Keys -> Int]

(***************************************************************************)
(* Whatever overlaps, rotates or restarts, a request goes out only under a *)
(* token that was proved at its origin, by the listener of that moment, at *)
(* most the TTL and one probe before it was decided to send it: the cache  *)
(* neither mixes up keys nor keeps a proof past its time                   *)
(* (peer_holds_token, 345-361).  The proof is stamped when its probe has   *)
(* come back, hence the one probe on top of the TTL.                       *)
(***************************************************************************)
SentWasProved ==
    \A a \in Callers : caller[a].at = "sending" =>
        /\ proved[caller[a].key] >= 0
        /\ caller[a].since - proved[caller[a].key] <= TTL + ProbeTime
=============================================================================
