--------------------------------- MODULE Host ---------------------------------
(***************************************************************************)
(* The model calls of ryu-rlm (src/backend/src/host.rs), and as much of    *)
(* the engine as decides who calls when: one planner per root query and    *)
(* the leaves that a map spawns, all charging the one RunQuota of their    *)
(* query and all passing the one gate of the process.                      *)
(*                                                                         *)
(* Each atomic operation and each await of Host::complete is a step of its *)
(* own.  Time is the one thing the quota tells of it: whether the deadline *)
(* of a query has passed.  Prompts are counted, not measured.              *)
(***************************************************************************)
EXTENDS Naturals, FiniteSets, Sequences, SequencesExt

CONSTANTS
    Queries,        \* root queries
    Tasks,          \* asynchronous tasks: planners and map leaves
    QueryOf,        \* the query each task works for
    Planner,        \* the planner of each query
    MaxCalls,       \* Budget::max_model_calls of each query
    MaxInFlight     \* MAX_IN_FLIGHT

ASSUME HostAssumption ==
    /\ IsFiniteSet(Tasks)
    /\ QueryOf \in [Tasks -> Queries]
    /\ Planner \in [Queries -> Tasks]
    /\ \A q \in Queries : QueryOf[Planner[q]] = q
    /\ MaxCalls \in [Queries -> Nat]
    /\ MaxInFlight \in Nat \ {0}

VARIABLES
    status,     \* status[q]: whether the run of q goes on
    elapsed,    \* elapsed[q]: the deadline of q has passed
    remaining,  \* remaining[q]: RunQuota::remaining_calls
    reserved,   \* reserved[q]: RunQuota::reserved_calls
    prompts,    \* prompts[q]: prompts added to RunQuota::prompt_chars
    reported,   \* reported[q]: model_calls of the record the run returned
    permits,    \* free permits of the gate
    queue,      \* tasks waiting at the gate, first come first
    pc,         \* pc[t]: where task t is
    result      \* result[t]: what its last completion returned

(* Requests that have gone out to Core, which the program does not count.  *)
VARIABLE issued

quota == <<elapsed, remaining, reserved, prompts>>
gate == <<permits, queue>>
run == <<status, reported>>
vars == <<run, quota, gate, pc, result, issued>>

Leaves(q) == {t \in Tasks : QueryOf[t] = q} \ {Planner[q]}

Holding == {"record", "recheck2", "send", "body"}
Awaiting == {"acquire", "send", "body", "join"}
Places == {"idle", "check", "take", "count", "recheck"} \cup Holding \cup Awaiting
Outcomes == {"none", "ok", "callBudget", "deadline", "host"}

Init ==
    /\ status = [q \in Queries |-> "running"]
    /\ elapsed = [q \in Queries |-> FALSE]
    /\ remaining = MaxCalls
    /\ reserved = [q \in Queries |-> 0]
    /\ prompts = [q \in Queries |-> 0]
    /\ reported = [q \in Queries |-> 0]
    /\ permits = MaxInFlight
    /\ queue = <<>>
    /\ pc = [t \in Tasks |-> "idle"]
    /\ result = [t \in Tasks |-> "none"]
    /\ issued = [q \in Queries |-> 0]

Expire(q) ==
    /\ ~elapsed[q]
    /\ elapsed' = [elapsed EXCEPT ![q] = TRUE]
    /\ UNCHANGED <<run, remaining, reserved, prompts, gate, pc, result, issued>>

-----------------------------------------------------------------------------
(* Host::complete, from reserve_call to the body of the answer.            *)

Go(t, place) == pc' = [pc EXCEPT ![t] = place]

\* A permit that an error return gives back and a completion keeps.
ReleasedOnError(t) == IF pc[t] \in Holding \ {"body"} THEN permits + 1 ELSE permits

(* Leaving complete, by whichever way, drops the permit if there is one.   *)
Released(t) == IF pc[t] \in Holding THEN permits + 1 ELSE permits

Leave(t, outcome) ==
    /\ Go(t, "idle")
    /\ result' = [result EXCEPT ![t] = outcome]
    /\ permits' = Released(t)

ReserveCheck(t) ==
    /\ pc[t] = "check"
    /\ \/ ~elapsed[QueryOf[t]] /\ Go(t, "take") /\ UNCHANGED <<permits, result>>
       \/ elapsed[QueryOf[t]] /\ Leave(t, "deadline")
    /\ UNCHANGED <<run, quota, queue, issued>>

\* A decrement that does not look for zero.
ReserveTakeUnchecked(t) ==
    /\ pc[t] = "take"
    /\ remaining' = [remaining EXCEPT ![QueryOf[t]] = @ - 1]
    /\ Go(t, "count")
    /\ UNCHANGED <<run, elapsed, reserved, prompts, gate, result, issued>>

ReserveTake(t) ==
    LET q == QueryOf[t]
    IN  /\ pc[t] = "take"
        /\ \/ /\ remaining[q] > 0
              /\ remaining' = [remaining EXCEPT ![q] = @ - 1]
              /\ Go(t, "count")
              /\ UNCHANGED <<permits, result>>
           \/ /\ remaining[q] = 0
              /\ Leave(t, "callBudget")
              /\ UNCHANGED remaining
        /\ UNCHANGED <<run, elapsed, reserved, prompts, queue, issued>>

ReserveCount(t) ==
    /\ pc[t] = "count"
    /\ reserved' = [reserved EXCEPT ![QueryOf[t]] = @ + 1]
    /\ Go(t, "recheck")
    /\ UNCHANGED <<run, elapsed, remaining, prompts, gate, result, issued>>

\* A call that is refunded to the one counter and stays in the other.
RecheckRefunds(t) ==
    LET q == QueryOf[t]
    IN  /\ pc[t] = "recheck"
        /\ \/ /\ ~elapsed[q]
              /\ Go(t, "acquire")
              /\ queue' = Append(queue, t)
              /\ UNCHANGED <<permits, result, remaining>>
           \/ /\ elapsed[q]
              /\ Leave(t, "deadline")
              /\ remaining' = [remaining EXCEPT ![q] = @ + 1]
              /\ UNCHANGED queue
        /\ UNCHANGED <<run, elapsed, reserved, prompts, issued>>

(* A deadline that passes here has cost a call.                            *)
Recheck(t) ==
    /\ pc[t] = "recheck"
    /\ \/ /\ ~elapsed[QueryOf[t]]
          /\ Go(t, "acquire")
          /\ queue' = Append(queue, t)
          /\ UNCHANGED <<permits, result>>
       \/ /\ elapsed[QueryOf[t]]
          /\ Leave(t, "deadline")
          /\ UNCHANGED queue
    /\ UNCHANGED <<run, quota, issued>>

(* The semaphore serves its waiters in the order they came.                *)
Acquire(t) ==
    /\ pc[t] = "acquire"
    /\ permits > 0
    /\ queue # <<>> /\ Head(queue) = t
    /\ queue' = Tail(queue)
    /\ permits' = permits - 1
    /\ Go(t, "record")
    /\ UNCHANGED <<run, quota, result, issued>>

(* The queue when t gives up its place, if it has one.                     *)
PlaceOf(t) == CHOOSE i \in 1 .. Len(queue) : queue[i] = t
Without(t) ==
    IF \E i \in 1 .. Len(queue) : queue[i] = t THEN RemoveAt(queue, PlaceOf(t))
                                              ELSE queue

\* An await of the gate without a timeout.
AcquireAwaits(t) == FALSE /\ UNCHANGED vars

AcquireTimeout(t) ==
    /\ pc[t] = "acquire"
    /\ elapsed[QueryOf[t]]
    /\ queue' = Without(t)
    /\ Leave(t, "deadline")
    /\ UNCHANGED <<run, quota, issued>>

Record(t) ==
    /\ pc[t] = "record"
    /\ prompts' = [prompts EXCEPT ![QueryOf[t]] = @ + 1]
    /\ Go(t, "recheck2")
    /\ UNCHANGED <<run, elapsed, remaining, reserved, gate, result, issued>>

Send(t) ==
    LET q == QueryOf[t]
    IN  /\ pc[t] = "recheck2"
        /\ \/ /\ ~elapsed[q]
              /\ Go(t, "send")
              /\ issued' = [issued EXCEPT ![q] = @ + 1]
              /\ UNCHANGED <<permits, result>>
           \/ /\ elapsed[q]
              /\ Leave(t, "deadline")
              /\ UNCHANGED issued
        /\ UNCHANGED <<run, quota, queue>>

SendTimeout(t) ==
    /\ pc[t] = "send"
    /\ elapsed[QueryOf[t]]
    /\ Leave(t, "deadline")
    /\ UNCHANGED <<run, quota, queue, issued>>

\* A transport error that is tried again.
AnsweredRetries(t) ==
    /\ pc[t] = "send"
    /\ Go(t, "body") \/ Go(t, "recheck2")
    /\ UNCHANGED <<run, quota, gate, result, issued>>

(* Core answers with the head of a response, or the transport fails.       *)
Answered(t) ==
    /\ pc[t] = "send"
    /\ \/ Go(t, "body") /\ UNCHANGED <<permits, result>>
       \/ Leave(t, "host")
    /\ UNCHANGED <<run, quota, queue, issued>>

(* The body arrives: a completion, or an error status, a body that is not  *)
(* JSON, an empty completion.  No timeout is around this await.            *)
BodyArrives(t) ==
    /\ pc[t] = "body"
    /\ \E outcome \in {"ok", "host"} : Leave(t, outcome)
    /\ UNCHANGED <<run, quota, queue, issued>>

-----------------------------------------------------------------------------
(* The engine: who calls complete, and when (src/backend/src/engine.rs).   *)

\* A loop that looks at the clock alone.
PlannerTurnUnchecked(q) ==
    LET t == Planner[q]
    IN  /\ status[q] = "running"
        /\ pc[t] = "idle"
        /\ ~elapsed[q]
        /\ Go(t, "check")
        /\ result' = [result EXCEPT ![t] = "none"]
        /\ UNCHANGED <<run, quota, gate, issued>>

(* The head of the loop of run_inner, and the condition of the forced      *)
(* turn.  An error of the planner's call ends the loop it belongs to; when *)
(* that is the loop of a nested run, its parent goes on.                   *)
PlannerTurn(q) ==
    LET t == Planner[q]
    IN  /\ status[q] = "running"
        /\ pc[t] = "idle"
        /\ ~elapsed[q]
        /\ remaining[q] > 0
        /\ Go(t, "check")
        /\ result' = [result EXCEPT ![t] = "none"]
        /\ UNCHANGED <<run, quota, gate, issued>>

(* map_chunks spawns a task per chunk ...                                  *)
Map(q) ==
    LET t == Planner[q]
    IN  /\ status[q] = "running"
        /\ pc[t] = "idle"
        /\ result[t] = "ok"
        /\ \E S \in SUBSET Leaves(q) \ {{}} :
             pc' = [u \in Tasks |-> IF u \in S THEN "check"
                                    ELSE IF u = t THEN "join" ELSE pc[u]]
        /\ result' = [result EXCEPT ![t] = "none"]
        /\ UNCHANGED <<run, quota, gate, issued>>

\* A join that goes on with the first leaf that is done.
JoinFirst(q) ==
    /\ pc[Planner[q]] = "join"
    /\ \E u \in Leaves(q) : pc[u] = "idle" /\ result[u] # "none"
    /\ Go(Planner[q], "idle")
    /\ result' = [u \in Tasks |-> IF QueryOf[u] = q THEN "none" ELSE result[u]]
    /\ UNCHANGED <<run, quota, gate, issued>>

\* A join that waits for a leaf that failed.
JoinSuccesses(q) ==
    /\ pc[Planner[q]] = "join"
    /\ \A u \in Leaves(q) : pc[u] = "idle" /\ result[u] \in {"none", "ok"}
    /\ Go(Planner[q], "idle")
    /\ result' = [u \in Tasks |-> IF QueryOf[u] = q THEN "none" ELSE result[u]]
    /\ UNCHANGED <<run, quota, gate, issued>>

(* ... and awaits every one of them.                                       *)
Join(q) ==
    /\ pc[Planner[q]] = "join"
    /\ \A u \in Leaves(q) : pc[u] = "idle"
    /\ Go(Planner[q], "idle")
    /\ result' = [u \in Tasks |-> IF QueryOf[u] = q THEN "none" ELSE result[u]]
    /\ UNCHANGED <<run, quota, gate, issued>>

(* The loop ends, of itself or because a bound is hit, and the record is   *)
(* made from the quota.                                                    *)
Finish(q) ==
    /\ status[q] = "running"
    /\ pc[Planner[q]] = "idle"
    /\ status' = [status EXCEPT ![q] = "done"]
    /\ reported' = [reported EXCEPT ![q] = reserved[q]]
    /\ UNCHANGED <<quota, gate, pc, result, issued>>

(* A client that hangs up drops the handler at one of its awaits.  Leaves  *)
(* it has spawned are tasks of their own and run on.                       *)
Dropped(q) ==
    LET t == Planner[q]
    IN  /\ status[q] = "running"
        /\ pc[t] \in Awaiting
        /\ status' = [status EXCEPT ![q] = "dropped"]
        /\ queue' = Without(t)
        /\ Leave(t, "none")
        /\ UNCHANGED <<reported, quota, issued>>

-----------------------------------------------------------------------------

(* What a task does of itself; the two last await Core.                    *)
Step(t) ==
    \/ ReserveCheck(t) \/ ReserveTake(t) \/ ReserveCount(t) \/ Recheck(t)
    \/ Acquire(t) \/ AcquireTimeout(t) \/ Record(t) \/ Send(t) \/ SendTimeout(t)

RunStep(q) == PlannerTurn(q) \/ Map(q) \/ Join(q) \/ Finish(q)

Next ==
    \/ \E t \in Tasks : Step(t) \/ Answered(t) \/ BodyArrives(t)
    \/ \E q \in Queries : RunStep(q) \/ Expire(q) \/ Dropped(q)

Spec == Init /\ [][Next]_vars

(* The runtime polls every task that can go on, and time passes.  Core may *)
(* leave a request without an answer, or an answer without its body.       *)
FairSpec ==
    /\ Spec
    /\ \A t \in Tasks : WF_vars(Step(t))
    /\ \A q \in Queries : WF_vars(RunStep(q)) /\ WF_vars(Expire(q))

-----------------------------------------------------------------------------
(***************************************************************************)
(* Properties.                                                             *)
(***************************************************************************)

TypeOK ==
    /\ status \in [Queries -> {"running", "done", "dropped"}]
    /\ elapsed \in [Queries -> BOOLEAN]
    /\ remaining \in [Queries -> Nat]
    /\ reserved \in [Queries -> Nat]
    /\ prompts \in [Queries -> Nat]
    /\ reported \in [Queries -> Nat]
    /\ permits \in Nat
    /\ queue \in Seq(Tasks)
    /\ pc \in [Tasks -> Places]
    /\ result \in [Tasks -> Outcomes]
    /\ issued \in [Queries -> Nat]

At(q, S) == {t \in Tasks : QueryOf[t] = q /\ pc[t] \in S}

(* The two counters of a quota are updated one after the other, and never  *)
(* lose a call between them: what is left, what is counted and what is on  *)
(* its way from the one to the other make the budget of the root query,    *)
(* with any number of leaves drawing at once.                              *)
CallsConserved ==
    \A q \in Queries :
        remaining[q] + reserved[q] + Cardinality(At(q, {"count"})) = MaxCalls[q]

(* No more requests go out to Core than the quota has counted, and each    *)
(* was counted before it went: a query never buys more than its budget.    *)
IssuedIsCounted ==
    \A q \in Queries :
        /\ issued[q] + Cardinality(At(q, {"recheck2"})) <= prompts[q]
        /\ prompts[q] + Cardinality(At(q, {"recheck", "acquire", "record"}))
             <= reserved[q]

(* Every way out of complete, a dropped handler included, gives back the   *)
(* permit that the way in took, and no more than MAX_IN_FLIGHT are out.    *)
PermitsConserved ==
    permits + Cardinality({t \in Tasks : pc[t] \in Holding}) = MaxInFlight

(* The planner looks at calls_remaining before it calls, and nobody takes  *)
(* the last call from under it, so its own call never fails for want of    *)
(* budget: a run that is out of calls stops at the head of its loop.       *)
PlannerIsNeverRefused ==
    \A q \in Queries : status[q] = "running" => result[Planner[q]] # "callBudget"

(* Through every interleaving of planner and leaves, the counters of the   *)
(* quota, the requests and the record are a ledger: each request was       *)
(* bought first, within the budget, and nothing is bought or sent once the *)
(* record of model_calls is made, for no leaf outlives the run that waits  *)
(* for it (RunQuota, map_chunks and the record of run).                    *)
Ledger == INSTANCE CallLedger
    WITH Budget <- MaxCalls, state <- status, bought <- reserved, sent <- issued,
         bill <- reported

LedgerHolds == Ledger!Spec

(* The wait for a permit ends even when all of them are held by calls that *)
(* Core never finishes.                                                    *)
GateWaitEnds == \A t \in Tasks : pc[t] = "acquire" ~> pc[t] # "acquire"

(* Where Core ends every body it begins, the deadline ends every run.      *)
EveryRunEnds ==
    (\A t \in Tasks : []<>(pc[t] # "body")) =>
        \A q \in Queries : status[q] = "running" ~> status[q] # "running"

(* "Every bound - steps, model calls, depth, wall clock - ends the run     *)
(* with an explicit status" (engine.rs), whatever Core does.               *)
DeadlineEndsRun ==
    \A q \in Queries :
        elapsed[q] /\ status[q] = "running" ~> status[q] # "running"
=============================================================================
