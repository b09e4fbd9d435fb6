------------------------------ MODULE CallLedger ------------------------------
(***************************************************************************)
(* What the call quota of ryu-rlm promises of a root query, without any    *)
(* task, gate, clock or counter to race for: a call is bought while the    *)
(* budget lasts and before it is sent, no call is sent on another's        *)
(* purchase, and the record of a finished query is its final bill.  Host   *)
(* implements it.                                                          *)
(***************************************************************************)
EXTENDS Naturals

CONSTANTS
    Queries,
    Budget      \* Budget::max_model_calls of each query

VARIABLES
    state,      \* running, done with a bill, or dropped without one
    bought,     \* calls charged to the query
    sent,       \* requests sent to Core for it
    bill        \* model_calls of its record

ledger == <<state, bought, sent, bill>>

Init ==
    /\ state = [q \in Queries |-> "running"]
    /\ bought = [q \in Queries |-> 0]
    /\ sent = [q \in Queries |-> 0]
    /\ bill = [q \in Queries |-> 0]

Buy(q) ==
    /\ state[q] # "done"
    /\ bought[q] < Budget[q]
    /\ bought' = [bought EXCEPT ![q] = @ + 1]
    /\ UNCHANGED <<state, sent, bill>>

Send(q) ==
    /\ state[q] # "done"
    /\ sent[q] < bought[q]
    /\ sent' = [sent EXCEPT ![q] = @ + 1]
    /\ UNCHANGED <<state, bought, bill>>

Close(q) ==
    /\ state[q] = "running"
    /\ state' = [state EXCEPT ![q] = "done"]
    /\ bill' = [bill EXCEPT ![q] = bought[q]]
    /\ UNCHANGED <<bought, sent>>

(* Nobody waits for the record any more; calls under way may go on.        *)
Abandon(q) ==
    /\ state[q] = "running"
    /\ state' = [state EXCEPT ![q] = "dropped"]
    /\ UNCHANGED <<bought, sent, bill>>

Next == \E q \in Queries : Buy(q) \/ Send(q) \/ Close(q) \/ Abandon(q)

Spec == Init /\ [][Next]_ledger
=============================================================================
