------------------------------ MODULE Loopback ------------------------------
(***************************************************************************)
(* The loopback port of a sidecar as its callers see it: runs come and go  *)
(* and publish their handoffs (Handoff), while Core-side callers prove the *)
(* listener before they send it a bearer (PeerProof).  What the listener   *)
(* holds is the secret its run was started with, which Core may rotate     *)
(* from one run to the next.                                               *)
(***************************************************************************)
EXTENDS Handoff, PeerProof

CONSTANT SecretOf \* the secret each run is started with

ASSUME LoopbackAssumption == SecretOf \in [RunIds -> Keys]

vars == <<handoffVars, pvars>>

Held(who) == IF who \in RunIds THEN {SecretOf[who]} ELSE {}

Init == HandoffInit /\ PeerInit /\ holders = {}

Next ==
    \/ HandoffNext /\ holders' = Held(listener') /\ UNCHANGED <<now, peerVars>>
    \/ (\E a \in Callers : CallerStep(a)) /\ UNCHANGED handoffVars
    \/ Ticks /\ UNCHANGED handoffVars

Spec == Init /\ [][Next]_vars
-----------------------------------------------------------------------------
(* A run that serves has left no temporary file of its handoff behind.     *)
TypeOK ==
    /\ run \in [RunIds -> RunStates]
    /\ listener \in RunIds \cup {None, Other} /\ handoff \in RunIds \cup {None}
    /\ temps \subseteq {g \in RunIds : run[g] \notin {"off", "bound", "serving"}} /\ raced \subseteq RunIds
    /\ client \in [Clients -> [at : ClientStates, token : RunIds \cup {None}, by : RunIds \cup {None}]]
    /\ PeerTypeOK
    /\ holders = Held(listener)
=============================================================================
