------------------------------- MODULE Service -------------------------------
(***************************************************************************)
(* What the two surfaces of the sidecar share (src/backend/src/main.rs,    *)
(* api.rs Ctx): one store of contexts and runs, one set of readable roots, *)
(* one model callback.  A process serves HTTP or MCP, never both, and the  *)
(* handlers of api.rs and mcp.rs are written against the same parts.       *)
(*                                                                         *)
(* Calls are numbered as they arrive; a context or a run has the number of *)
(* the call that made it for its id.  The operations of the store are      *)
(* single steps here: Store models what they are made of.                  *)
(***************************************************************************)
EXTENDS Roots

CONSTANTS
    MaxCalls,   \* bound on the calls of a behaviour
    Slots,      \* bound on the calls served at a time
    None

ASSUME ServiceAssumption == MaxCalls \in Nat /\ Slots \in Nat \ {0} /\ None \notin Nat

VARIABLES
    mode,       \* "http" or "mcp": the command line of the process
    host,       \* Core's model callback is in the environment
    calls,      \* every call in the order of arrival
    contexts,   \* the contexts held
    runs        \* the runs held, each with the context it was asked of

storeVars == <<contexts, runs>>
serviceVars == <<mode, host, calls, contexts, runs, rootsVars>>

Ids == 1..MaxCalls
Run == [by : Ids, of : Ids]

(* at: where the call is; context: what it works on; status: its answer;   *)
(* seen: the calls that had been answered when this one arrived.           *)
Received(req) ==
    [req |-> req, at |-> "received", context |-> None, status |-> None,
     stamped |-> FALSE, seen |-> {k \in DOMAIN calls : calls[k].at = "answered"}]

Calls == DOMAIN calls
At(c, place) == c \in Calls /\ calls[c].at = place
Open == {c \in Calls : calls[c].at \in {"received", "loading", "running"}}

ServiceInit ==
    /\ mode \in {"http", "mcp"}
    /\ host \in BOOLEAN
    /\ calls = <<>>
    /\ contexts = {} /\ runs = {}
    /\ RootsInit

Arrives(req) ==
    /\ Len(calls) < MaxCalls
    /\ calls' = Append(calls, Received(req))
    /\ UNCHANGED <<mode, host, storeVars, rootsVars>>

Moves(c, place, context) ==
    calls' = [calls EXCEPT ![c].at = place, ![c].context = context]

Answers(c, status) ==
    calls' = [calls EXCEPT ![c].at = "answered", ![c].status = status]

(* store.create: refused without documents, for too many characters, for   *)
(* documents without text, and by a disk that fails.                       *)
Creates(c) == contexts' = contexts \cup {c} /\ UNCHANGED runs
Deletes(id) == contexts' = contexts \ {id} /\ UNCHANGED runs
Purges == contexts' = {} /\ runs' = {}
Saves(c) == runs' = runs \cup {[by |-> c, of |-> calls[c].context]} /\ UNCHANGED contexts

(* Roots::load runs from start to end in the thread of its handler.        *)
StartsLoad(c, paths) ==
    /\ LoadBegin(paths)
    /\ Moves(c, "loading", None)
    /\ UNCHANGED <<mode, host, storeVars>>

Walks == WalkStep /\ UNCHANGED <<mode, host, calls, storeVars>>

(* The engine has come back: the run is stored, then the call answered.    *)
QueryReturns(c, status) ==
    /\ At(c, "running")
    /\ Saves(c)
    /\ Answers(c, status)
    /\ UNCHANGED <<mode, host, rootsVars>>
=============================================================================
