------------------------------ MODULE HostProofs ------------------------------
(***************************************************************************)
(* Proofs about Host, for any number of queries, tasks, calls and permits. *)
(*                                                                         *)
(* The invariant they share is LeavesJoined: a map's leaves are at work    *)
(* only while their planner awaits them.  With it a spawn finds every leaf *)
(* idle, so that it moves none that was on its way between two counters    *)
(* or held a permit.                                                       *)
(***************************************************************************)
EXTENDS Host, FiniteSetTheorems, TLAPS

(* Which tasks belong to a query.                                          *)
LEMMA TaskFacts ==
    ASSUME NEW q \in Queries
    PROVE  /\ Planner[q] \in Tasks
           /\ QueryOf[Planner[q]] = q
           /\ Planner[q] \notin Leaves(q)
           /\ Leaves(q) \subseteq Tasks
           /\ \A u \in Leaves(q) : QueryOf[u] = q
           /\ \A u \in Tasks : QueryOf[u] = q => u = Planner[q] \/ u \in Leaves(q)
           /\ \A p \in Queries : p # q => Planner[p] \notin Leaves(q)
  BY HostAssumption DEF HostAssumption, Leaves

(* A task that leaves the queue leaves a queue of tasks.                   *)
LEMMA WithoutType ==
    ASSUME NEW t \in Tasks, queue \in Seq(Tasks)
    PROVE  Without(t) \in Seq(Tasks)
  <1>1. CASE \E i \in 1 .. Len(queue) : queue[i] = t
    <2>1. PlaceOf(t) \in 1 .. Len(queue)
      BY <1>1 DEF PlaceOf
    <2>2. SubSeq(queue, 1, PlaceOf(t) - 1) \in Seq(Tasks)
      BY <2>1
    <2>3. SubSeq(queue, PlaceOf(t) + 1, Len(queue)) \in Seq(Tasks)
      BY <2>1
    <2>4. QED
      BY <1>1, <2>2, <2>3 DEF Without, RemoveAt
  <1>2. CASE ~ \E i \in 1 .. Len(queue) : queue[i] = t
    BY <1>2 DEF Without
  <1>3. QED
    BY <1>1, <1>2

(* A task that joins the queue makes a queue of tasks.                     *)
LEMMA AppendType ==
    ASSUME NEW t \in Tasks, NEW s \in Seq(Tasks)
    PROVE  Append(s, t) \in Seq(Tasks)
  OBVIOUS

(* A counter of a quota counts one more.                                   *)
LEMMA CountType ==
    ASSUME NEW f \in [Queries -> Nat], NEW q \in Queries
    PROVE  [f EXCEPT ![q] = @ + 1] \in [Queries -> Nat]
  OBVIOUS

-----------------------------------------------------------------------------
(* Types.                                                                  *)

(* A task that goes somewhere keeps the type of pc.                        *)
LEMMA GoType ==
    ASSUME TypeOK, NEW t \in Tasks, NEW place \in Places, Go(t, place)
    PROVE  pc' \in [Tasks -> Places]
  BY DEF TypeOK, Go

(* A task that leaves complete keeps the types of all that it changes.     *)
LEMMA LeaveType ==
    ASSUME TypeOK, NEW t \in Tasks, NEW outcome \in Outcomes, Leave(t, outcome)
    PROVE  /\ pc' \in [Tasks -> Places]
           /\ result' \in [Tasks -> Outcomes]
           /\ permits' \in Nat
  <1>1. pc' \in [Tasks -> Places]
    BY GoType DEF Leave, Places
  <1>2. result' \in [Tasks -> Outcomes]
    BY DEF TypeOK, Leave
  <1>3. permits' \in Nat
    BY DEF TypeOK, Leave, Released
  <1>4. QED
    BY <1>1, <1>2, <1>3

(* Every variable of the model keeps its type, whatever the queries and    *)
(* their budgets: a counter of a quota never goes below zero.              *)
THEOREM Typing == Spec => []TypeOK
  <1>1. Init => TypeOK
    BY HostAssumption DEF HostAssumption, Init, TypeOK, Places, Holding, Awaiting,
                         Outcomes
  <1>2. TypeOK /\ [Next]_vars => TypeOK'
    <2> SUFFICES ASSUME TypeOK, [Next]_vars
                 PROVE  TypeOK'
      OBVIOUS
    <2> USE DEF TypeOK, run, quota, gate
    <2>0. /\ {"idle", "check", "take", "count", "recheck", "acquire", "record",
              "recheck2", "send", "body", "join"} \subseteq Places
          /\ {"none", "ok", "callBudget", "deadline", "host"} \subseteq Outcomes
      BY DEF Places, Holding, Awaiting, Outcomes
    <2>1. ASSUME NEW t \in Tasks, Step(t)
          PROVE  TypeOK'
      <3> USE HostAssumption, <2>0 DEF HostAssumption
      <3>1. CASE ReserveCheck(t)
        BY <3>1, GoType, LeaveType DEF ReserveCheck
      <3>2. CASE ReserveTake(t)
        <4>1. remaining' \in [Queries -> Nat]
          BY <3>2 DEF ReserveTake
        <4>2. QED
          BY <3>2, <4>1, GoType, LeaveType DEF ReserveTake
      <3>3. CASE ReserveCount(t)
        BY <3>3, GoType DEF ReserveCount
      <3>4. CASE Recheck(t)
        <4>1. queue' \in Seq(Tasks)
          <5>1. queue' = Append(queue, t) \/ queue' = queue
            BY <3>4 DEF Recheck
          <5>2. QED
            BY <5>1, AppendType
        <4>2. pc' \in [Tasks -> Places] /\ result' \in [Tasks -> Outcomes]
              /\ permits' \in Nat
          BY <3>4, GoType, LeaveType DEF Recheck
        <4>3. QED
          BY <3>4, <4>1, <4>2 DEF Recheck
      <3>5. CASE Acquire(t)
        <4>1. queue' \in Seq(Tasks) /\ permits' \in Nat
          BY <3>5 DEF Acquire
        <4>2. pc' \in [Tasks -> Places]
          BY <3>5, GoType DEF Acquire
        <4>3. QED
          BY <3>5, <4>1, <4>2 DEF Acquire
      <3>6. CASE AcquireTimeout(t)
        BY <3>6, WithoutType, LeaveType DEF AcquireTimeout
      <3>7. CASE Record(t)
        <4>1. prompts' \in [Queries -> Nat]
          BY <3>7 DEF Record
        <4>2. pc' \in [Tasks -> Places]
          BY <3>7, GoType DEF Record
        <4>3. QED
          BY <3>7, <4>1, <4>2 DEF Record
      <3>8. CASE Send(t)
        <4>1. issued' \in [Queries -> Nat]
          <5>1. issued' = [issued EXCEPT ![QueryOf[t]] = @ + 1] \/ issued' = issued
            BY <3>8 DEF Send
          <5>2. [issued EXCEPT ![QueryOf[t]] = @ + 1] \in [Queries -> Nat]
            BY CountType
          <5>3. QED
            BY <5>1, <5>2
        <4>2. pc' \in [Tasks -> Places] /\ result' \in [Tasks -> Outcomes]
              /\ permits' \in Nat
          BY <3>8, GoType, LeaveType DEF Send
        <4>3. QED
          BY <3>8, <4>1, <4>2 DEF Send
      <3>9. CASE SendTimeout(t)
        BY <3>9, LeaveType DEF SendTimeout
      <3>10. QED
        BY <2>1, <3>1, <3>2, <3>3, <3>4, <3>5, <3>6, <3>7, <3>8, <3>9 DEF Step
    <2>2. ASSUME NEW t \in Tasks, Answered(t)
          PROVE  TypeOK'
      BY <2>0, <2>2, GoType, LeaveType DEF Answered
    <2>3. ASSUME NEW t \in Tasks, BodyArrives(t)
          PROVE  TypeOK'
      BY <2>0, <2>3, LeaveType DEF BodyArrives
    <2>4. ASSUME NEW q \in Queries, RunStep(q)
          PROVE  TypeOK'
      <3> USE <2>0, TaskFacts
      <3>1. CASE PlannerTurn(q)
        BY <3>1, GoType DEF PlannerTurn
      <3>2. CASE Map(q)
        BY <3>2 DEF Map
      <3>3. CASE Join(q)
        BY <3>3, GoType DEF Join
      <3>4. CASE Finish(q)
        BY <3>4 DEF Finish
      <3>5. QED
        BY <2>4, <3>1, <3>2, <3>3, <3>4 DEF RunStep
    <2>5. ASSUME NEW q \in Queries, Expire(q)
          PROVE  TypeOK'
      BY <2>5 DEF Expire
    <2>6. ASSUME NEW q \in Queries, Dropped(q)
          PROVE  TypeOK'
      BY <2>0, <2>6, TaskFacts, WithoutType, LeaveType DEF Dropped
    <2>7. CASE UNCHANGED vars
      BY <2>7 DEF vars
    <2>8. QED
      BY <2>1, <2>2, <2>3, <2>4, <2>5, <2>6, <2>7 DEF Next
  <1>3. QED
    BY <1>1, <1>2, PTL DEF Spec

-----------------------------------------------------------------------------
(* The join.                                                               *)

(* While a run goes on and its planner awaits no map, its leaves are idle; *)
(* once it is done, all of its tasks are.                                  *)
JoinedIn(q) ==
    /\ status[q] = "running" /\ pc[Planner[q]] # "join" =>
         \A u \in Leaves(q) : pc[u] = "idle"
    /\ status[q] # "running" => pc[Planner[q]] = "idle"
    /\ status[q] = "done" => \A u \in Leaves(q) : pc[u] = "idle"

LeavesJoined == \A q \in Queries : JoinedIn(q)

(* What a task does of itself moves that task alone, from a place that is  *)
(* neither the start of a call nor a join.                                 *)
LEMMA TaskMoves ==
    ASSUME TypeOK, NEW t \in Tasks, Step(t) \/ Answered(t) \/ BodyArrives(t)
    PROVE  /\ pc[t] \notin {"idle", "join"}
           /\ \E b \in Places \ {"join"} : pc' = [pc EXCEPT ![t] = b]
           /\ status' = status
           /\ reported' = reported
  <1> USE DEF Go, Leave, run
  <1>0. {"idle", "take", "count", "recheck", "acquire", "record", "recheck2",
         "send", "body"} \subseteq Places \ {"join"}
    BY DEF Places, Holding, Awaiting
  <1>1. CASE ReserveCheck(t) \/ ReserveTake(t) \/ ReserveCount(t)
    BY <1>0, <1>1 DEF ReserveCheck, ReserveTake, ReserveCount
  <1>2. CASE Recheck(t) \/ Acquire(t) \/ AcquireTimeout(t)
    BY <1>0, <1>2 DEF Recheck, Acquire, AcquireTimeout
  <1>3. CASE Record(t) \/ Send(t) \/ SendTimeout(t)
    BY <1>0, <1>3 DEF Record, Send, SendTimeout
  <1>4. CASE Answered(t) \/ BodyArrives(t)
    BY <1>0, <1>4 DEF Answered, BodyArrives
  <1>5. QED
    BY <1>1, <1>2, <1>3, <1>4 DEF Step

(* What a planner does of itself moves neither a leaf nor another planner. *)
LEMMA PlannerMoves ==
    ASSUME TypeOK, NEW p \in Queries, NEW q \in Queries, NEW b,
           pc' = [pc EXCEPT ![Planner[p]] = b]
    PROVE  /\ \A u \in Leaves(q) : pc'[u] = pc[u]
           /\ pc'[Planner[q]] = IF p = q THEN b ELSE pc[Planner[q]]
  <1>1. /\ Leaves(q) \subseteq Tasks /\ Planner[p] \notin Leaves(q)
        /\ Planner[p] \in Tasks /\ Planner[q] \in Tasks
        /\ p # q => Planner[p] # Planner[q]
    BY TaskFacts
  <1>2. QED
    BY <1>1 DEF TypeOK

(* No leaf is ever at work without a planner of its query awaiting it,     *)
(* unless the client of the query has hung up.                             *)
LEMMA Joined == Spec => []LeavesJoined
  <1>1. Init => LeavesJoined
    BY TaskFacts DEF Init, LeavesJoined, JoinedIn
  <1>2. TypeOK /\ LeavesJoined /\ [Next]_vars => LeavesJoined'
    <2> SUFFICES ASSUME TypeOK, LeavesJoined, [Next]_vars,
                        NEW q \in Queries
                 PROVE  JoinedIn(q)'
      BY DEF LeavesJoined
    <2>0. JoinedIn(q)
      BY DEF LeavesJoined
    <2> USE TaskFacts DEF JoinedIn, TypeOK
    <2>1. ASSUME NEW t \in Tasks, Step(t) \/ Answered(t) \/ BodyArrives(t)
          PROVE  JoinedIn(q)'
      BY <2>0, <2>1, TaskMoves
    <2>2. ASSUME NEW p \in Queries, RunStep(p)
          PROVE  JoinedIn(q)'
      <3>1. CASE PlannerTurn(p)
        <4>1. /\ status' = status /\ pc[Planner[p]] = "idle"
              /\ pc' = [pc EXCEPT ![Planner[p]] = "check"]
          BY <3>1 DEF PlannerTurn, Go, run
        <4>2. status[p] = "running"
          BY <3>1 DEF PlannerTurn
        <4>3. QED
          BY <2>0, <4>1, <4>2, PlannerMoves
      <3>2. CASE Map(p)
        <4>1. PICK S \in SUBSET Leaves(p) \ {{}} :
                pc' = [u \in Tasks |-> IF u \in S THEN "check"
                                       ELSE IF u = Planner[p] THEN "join"
                                       ELSE pc[u]]
          BY <3>2, Zenon DEF Map
        <4>2. status' = status /\ status[p] = "running"
          BY <3>2 DEF Map, run
        <4>3. CASE p = q
          <5>1. Planner[p] \in Tasks /\ Planner[p] \notin Leaves(p)
            BY TaskFacts
          <5>2. pc'[Planner[p]] = "join"
            BY <4>1, <5>1
          <5>3. QED
            BY <4>2, <4>3, <5>2
        <4>4. CASE p # q
          <5>0. /\ QueryOf[Planner[q]] = q /\ Planner[q] \in Tasks
                /\ \A u \in Leaves(q) : QueryOf[u] = q /\ u \in Tasks
                /\ \A u \in Leaves(p) : QueryOf[u] = p
                /\ QueryOf[Planner[p]] = p
            BY TaskFacts
          <5>1. pc'[Planner[q]] = pc[Planner[q]]
            BY <4>1, <4>4, <5>0
          <5>2. \A u \in Leaves(q) : pc'[u] = pc[u]
            BY <4>1, <4>4, <5>0
          <5>3. QED
            BY <2>0, <4>2, <5>1, <5>2
        <4>5. QED
          BY <4>3, <4>4
      <3>3. CASE Join(p)
        <4>1. /\ pc[Planner[p]] = "join" /\ status' = status
              /\ pc' = [pc EXCEPT ![Planner[p]] = "idle"]
              /\ \A u \in Leaves(p) : pc[u] = "idle"
          BY <3>3 DEF Join, Go, run
        <4>2. QED
          BY <2>0, <4>1, PlannerMoves
      <3>4. CASE Finish(p)
        BY <2>0, <3>4 DEF Finish
      <3>5. QED
        BY <2>2, <3>1, <3>2, <3>3, <3>4 DEF RunStep
    <2>3. ASSUME NEW p \in Queries, Expire(p)
          PROVE  JoinedIn(q)'
      BY <2>0, <2>3 DEF Expire, run
    <2>4. ASSUME NEW p \in Queries, Dropped(p)
          PROVE  JoinedIn(q)'
      <3>1. /\ status' = [status EXCEPT ![p] = "dropped"]
            /\ pc' = [pc EXCEPT ![Planner[p]] = "idle"]
        BY <2>4 DEF Dropped, Go, Leave
      <3>2. /\ \A u \in Leaves(q) : pc'[u] = pc[u]
            /\ pc'[Planner[q]] = IF p = q THEN "idle" ELSE pc[Planner[q]]
        BY <3>1, PlannerMoves
      <3>3. QED
        BY <2>0, <3>1, <3>2
    <2>5. CASE UNCHANGED vars
      BY <2>0, <2>5 DEF vars, run
    <2>6. QED
      BY <2>5, <2>1, <2>2, <2>3, <2>4 DEF Next
  <1>3. QED
    BY Typing, <1>1, <1>2, PTL DEF Spec

-----------------------------------------------------------------------------
(* Counting the tasks in some places.                                      *)

Count(T, S) == Cardinality({u \in T : pc[u] \in S})
TasksOf(q) == {t \in Tasks : QueryOf[t] = q}

(* The tasks of one query are counted as any set of tasks is.              *)
LEMMA AtIsCount ==
    ASSUME NEW q, NEW S
    PROVE  Cardinality(At(q, S)) = Count(TasksOf(q), S)
  <1>1. At(q, S) = {u \in TasksOf(q) : pc[u] \in S}
    BY DEF At, TasksOf
  <1>2. QED
    BY <1>1 DEF Count

(* A task that moves adds itself where it goes and takes itself from where *)
(* it was.                                                                 *)
LEMMA CountMoves ==
    ASSUME TypeOK, NEW T \in SUBSET Tasks, NEW S,
           NEW t \in Tasks, NEW b, Go(t, b)
    PROVE  /\ Count(T, S) \in Nat
           /\ Count(T, S)' = Count(T, S)
                              + (IF t \in T /\ b \in S THEN 1 ELSE 0)
                              - (IF t \in T /\ pc[t] \in S THEN 1 ELSE 0)
  <1> DEFINE Before == {u \in T : pc[u] \in S}
             After == {u \in T : pc'[u] \in S}
  <1>1. IsFiniteSet(Before)
    <2>1. IsFiniteSet(Tasks) /\ Before \in SUBSET Tasks
      BY HostAssumption DEF HostAssumption
    <2>2. QED
      BY <2>1, FS_Subset
  <1>2. Cardinality(Before) \in Nat
    BY <1>1, FS_CardinalityType
  <1>3. Count(T, S) = Cardinality(Before) /\ Count(T, S)' = Cardinality(After)
    BY DEF Count
  <1>4. pc'[t] = b /\ \A u \in Tasks : u # t => pc'[u] = pc[u]
    BY DEF TypeOK, Go
  <1>5. CASE t \notin T \/ (b \in S <=> pc[t] \in S)
    <2>1. After = Before
      BY <1>4, <1>5
    <2>2. Count(T, S)' = Count(T, S)
      BY <1>3, <2>1
    <2>3. (t \in T /\ b \in S) <=> (t \in T /\ pc[t] \in S)
      BY <1>5
    <2>4. QED
      BY <1>2, <1>3, <2>2, <2>3
  <1>6. CASE t \in T /\ b \in S /\ pc[t] \notin S
    <2>1. After = Before \cup {t} /\ t \notin Before
      BY <1>4, <1>6
    <2>2. Cardinality(After) = Cardinality(Before) + 1
      <3> HIDE DEF Before, After
      <3>1. Cardinality(Before \cup {t}) = Cardinality(Before) + 1
        BY <1>1, <2>1, FS_AddElement
      <3>2. QED
        BY <2>1, <3>1
    <2>3. QED
      BY <1>2, <1>3, <1>6, <2>2
  <1>7. CASE t \in T /\ b \notin S /\ pc[t] \in S
    <2>1. After = Before \ {t} /\ t \in Before
      BY <1>4, <1>7
    <2>2. Cardinality(After) = Cardinality(Before) - 1
      <3> HIDE DEF Before, After
      <3>1. Cardinality(Before \ {t}) = Cardinality(Before) - 1
        BY <1>1, <2>1, FS_RemoveElement
      <3>2. QED
        BY <2>1, <3>1
    <2>3. QED
      BY <1>2, <1>3, <1>7, <2>2
  <1>8. QED
    BY <1>5, <1>6, <1>7

(* A spawn changes no count of places other than its own three.            *)
LEMMA CountMap ==
    ASSUME TypeOK, LeavesJoined, NEW p \in Queries, Map(p),
           NEW T \in SUBSET Tasks, NEW S,
           "idle" \notin S, "check" \notin S, "join" \notin S
    PROVE  Count(T, S)' = Count(T, S)
  <1>1. PICK L \in SUBSET Leaves(p) \ {{}} :
          pc' = [u \in Tasks |-> IF u \in L THEN "check"
                                 ELSE IF u = Planner[p] THEN "join"
                                 ELSE pc[u]]
    BY Zenon DEF Map
  <1>2. status[p] = "running" /\ pc[Planner[p]] = "idle"
    BY DEF Map
  <1>3. \A u \in Leaves(p) : pc[u] = "idle"
    BY <1>2 DEF LeavesJoined, JoinedIn
  <1>4. ASSUME NEW u \in Tasks
        PROVE  pc'[u] \in S <=> pc[u] \in S
    BY <1>1, <1>2, <1>3, <1>4
  <1>5. {u \in T : pc'[u] \in S} = {u \in T : pc[u] \in S}
    BY <1>4
  <1>6. QED
    BY <1>5 DEF Count

-----------------------------------------------------------------------------
(* The two counters of a quota.                                            *)

(* A step of a task other than the two that charge a call.                 *)
LEMMA ChargesNothing ==
    ASSUME TypeOK, NEW t \in Tasks, Step(t) \/ Answered(t) \/ BodyArrives(t),
           ~ReserveTake(t), ~ReserveCount(t)
    PROVE  /\ pc[t] # "count"
           /\ \E b \in Places \ {"count"} : Go(t, b)
           /\ remaining' = remaining
           /\ reserved' = reserved
  <1> USE DEF Leave, quota
  <1>0. {"idle", "take", "recheck", "acquire", "record", "recheck2", "send",
         "body"} \subseteq Places \ {"count"}
    BY DEF Places, Holding, Awaiting
  <1>1. CASE ReserveCheck(t) \/ Recheck(t)
    BY <1>0, <1>1 DEF ReserveCheck, Recheck
  <1>2. CASE Acquire(t) \/ AcquireTimeout(t)
    BY <1>0, <1>2 DEF Acquire, AcquireTimeout
  <1>3. CASE Record(t) \/ Send(t) \/ SendTimeout(t)
    BY <1>0, <1>3 DEF Record, Send, SendTimeout
  <1>4. CASE Answered(t) \/ BodyArrives(t)
    BY <1>0, <1>4 DEF Answered, BodyArrives
  <1>5. QED
    BY <1>1, <1>2, <1>3, <1>4 DEF Step

(* The calls that are left, the calls that are counted and the calls on    *)
(* their way between the two counters are the budget of the root query,    *)
(* for any number of leaves that draw at once.                             *)
THEOREM CallsAreConserved == Spec => []CallsConserved
  <1> DEFINE Out(q) == Count(TasksOf(q), {"count"})
             Balance(q) == remaining[q] + reserved[q] + Out(q) = MaxCalls[q]
  <1>0. CallsConserved <=> \A q \in Queries : Balance(q)
    BY AtIsCount DEF CallsConserved
  <1>01. CallsConserved' <=> (\A q \in Queries : Balance(q))'
    BY <1>0, PTL
  <1>1. Init => CallsConserved
    <2> SUFFICES ASSUME Init, NEW q \in Queries
                 PROVE  Balance(q)
      BY <1>0
    <2>1. {u \in TasksOf(q) : pc[u] \in {"count"}} = {}
      BY DEF Init, TasksOf
    <2>2. Out(q) = 0
      BY <2>1, FS_EmptySet DEF Count
    <2>3. QED
      BY <2>2, HostAssumption DEF Init, HostAssumption
  <1>2. TypeOK /\ LeavesJoined /\ CallsConserved /\ [Next]_vars => CallsConserved'
    <2> SUFFICES ASSUME TypeOK, LeavesJoined, CallsConserved, [Next]_vars,
                        NEW q \in Queries
                 PROVE  Balance(q)'
      BY <1>01
    <2>0. /\ Balance(q)
          /\ remaining[q] \in Nat /\ reserved[q] \in Nat /\ MaxCalls[q] \in Nat
          /\ TasksOf(q) \in SUBSET Tasks
          /\ \A t \in TasksOf(q) : QueryOf[t] = q
          /\ \A t \in Tasks : QueryOf[t] = q => t \in TasksOf(q)
      BY <1>0, HostAssumption DEF HostAssumption, TypeOK, TasksOf
    <2>a. ASSUME NEW t \in Tasks, NEW b, Go(t, b)
          PROVE  /\ Out(q) \in Nat
                 /\ Out(q)' = Out(q)
                       + (IF t \in TasksOf(q) /\ b \in {"count"} THEN 1 ELSE 0)
                       - (IF t \in TasksOf(q) /\ pc[t] \in {"count"} THEN 1 ELSE 0)
      BY <2>0, <2>a, CountMoves
    <2>1. ASSUME NEW t \in Tasks, NEW b,
                 Go(t, b), b # "count", pc[t] # "count",
                 remaining' = remaining, reserved' = reserved
          PROVE  Balance(q)'
      <3>1. Out(q)' = Out(q) /\ Out(q) \in Nat
        BY <2>1, <2>a
      <3>2. QED
        BY <2>0, <2>1, <3>1
    <2>2. ASSUME NEW t \in Tasks, ReserveTake(t)
          PROVE  Balance(q)'
      <3>1. pc[t] = "take"
        BY <2>2 DEF ReserveTake
      <3>2. CASE /\ remaining' = [remaining EXCEPT ![QueryOf[t]] = @ - 1]
                 /\ Go(t, "count")
        <4>1. reserved' = reserved
          BY <2>2 DEF ReserveTake
        <4>2. /\ Out(q) \in Nat
              /\ Out(q)' = Out(q) + (IF t \in TasksOf(q) THEN 1 ELSE 0)
          BY <3>1, <3>2, <2>a
        <4>3. remaining'[q] = remaining[q] - (IF t \in TasksOf(q) THEN 1 ELSE 0)
          BY <2>0, <3>2 DEF TypeOK
        <4>4. QED
          BY <2>0, <4>1, <4>2, <4>3
      <3>3. CASE remaining' = remaining /\ Go(t, "idle")
        BY <2>1, <2>2, <3>1, <3>3 DEF ReserveTake
      <3>4. QED
        BY <2>2, <3>2, <3>3 DEF ReserveTake, Leave
    <2>3. ASSUME NEW t \in Tasks, ReserveCount(t)
          PROVE  Balance(q)'
      <3>1. /\ pc[t] = "count" /\ remaining' = remaining
            /\ reserved' = [reserved EXCEPT ![QueryOf[t]] = @ + 1]
            /\ Go(t, "recheck")
        BY <2>3 DEF ReserveCount
      <3>2. /\ Out(q) \in Nat
            /\ Out(q)' = Out(q) - (IF t \in TasksOf(q) THEN 1 ELSE 0)
        BY <3>1, <2>a
      <3>3. reserved'[q] = reserved[q] + (IF t \in TasksOf(q) THEN 1 ELSE 0)
        BY <2>0, <3>1 DEF TypeOK
      <3>4. QED
        BY <2>0, <3>1, <3>2, <3>3
    <2>4. ASSUME NEW t \in Tasks, Step(t) \/ Answered(t) \/ BodyArrives(t)
          PROVE  Balance(q)'
      BY <2>1, <2>2, <2>3, <2>4, ChargesNothing
    <2>5. ASSUME NEW p \in Queries, RunStep(p)
          PROVE  Balance(q)'
      <3>1. CASE PlannerTurn(p)
        BY <2>1, <3>1, TaskFacts DEF PlannerTurn, quota
      <3>2. CASE Map(p)
        <4>1. Out(q)' = Out(q)
          BY <2>0, <3>2, CountMap
        <4>2. remaining' = remaining /\ reserved' = reserved
          BY <3>2 DEF Map, quota
        <4>3. QED
          BY <2>0, <4>1, <4>2
      <3>3. CASE Join(p)
        BY <2>1, <3>3, TaskFacts DEF Join, quota
      <3>4. CASE Finish(p)
        BY <2>0, <3>4 DEF Finish, quota, Count
      <3>5. QED
        BY <2>5, <3>1, <3>2, <3>3, <3>4 DEF RunStep
    <2>6. ASSUME NEW p \in Queries, Expire(p)
          PROVE  Balance(q)'
      BY <2>0, <2>6 DEF Expire, Count
    <2>7. ASSUME NEW p \in Queries, Dropped(p)
          PROVE  Balance(q)'
      <3>1. pc[Planner[p]] # "count" /\ Planner[p] \in Tasks
        BY <2>7, TaskFacts DEF Dropped, Awaiting
      <3>2. QED
        BY <2>1, <2>7, <3>1 DEF Dropped, Leave, quota
    <2>8. CASE UNCHANGED vars
      BY <2>0, <2>8 DEF vars, quota, Count
    <2>9. QED
      BY <2>4, <2>5, <2>6, <2>7, <2>8 DEF Next
  <1>3. QED
    BY <1>1, <1>2, Typing, Joined, PTL DEF Spec

-----------------------------------------------------------------------------
(* The gate.                                                               *)

(* The three things a step of a task can do to the gate.                   *)
LEMMA PermitMoves ==
    ASSUME NEW t \in Tasks, Step(t) \/ Answered(t) \/ BodyArrives(t)
    PROVE  \/ \E outcome : Leave(t, outcome)
           \/ Acquire(t)
           \/ \E b : /\ Go(t, b)
                     /\ permits' = permits
                     /\ b \in Holding <=> pc[t] \in Holding
  <1> USE DEF Holding, gate
  <1>1. CASE ReserveCheck(t) \/ ReserveTake(t) \/ ReserveCount(t)
    BY <1>1 DEF ReserveCheck, ReserveTake, ReserveCount
  <1>2. CASE Recheck(t) \/ Acquire(t) \/ AcquireTimeout(t)
    BY <1>2 DEF Recheck, AcquireTimeout
  <1>3. CASE Record(t) \/ Send(t) \/ SendTimeout(t)
    BY <1>3 DEF Record, Send, SendTimeout
  <1>4. CASE Answered(t) \/ BodyArrives(t)
    BY <1>4 DEF Answered, BodyArrives
  <1>5. QED
    BY <1>1, <1>2, <1>3, <1>4 DEF Step

(* Free permits and permits in the hands of tasks are MAX_IN_FLIGHT, for   *)
(* any number of queries at the one gate, whichever way a completion ends  *)
(* or a handler is dropped: the gate neither leaks nor invents a permit.   *)
THEOREM PermitsAreConserved == Spec => []PermitsConserved
  <1> DEFINE Held == Count(Tasks, Holding)
             Balance == permits + Held = MaxInFlight
  <1>0. PermitsConserved <=> Balance
    BY DEF PermitsConserved, Count
  <1>01. PermitsConserved' <=> Balance'
    BY <1>0, PTL
  <1>1. Init => PermitsConserved
    <2> SUFFICES ASSUME Init
                 PROVE  Balance
      BY <1>0
    <2>1. {u \in Tasks : pc[u] \in Holding} = {}
      BY DEF Init, Holding
    <2>2. Held = 0
      BY <2>1, FS_EmptySet DEF Count
    <2>3. QED
      BY <2>2, HostAssumption DEF Init, HostAssumption
  <1>2. TypeOK /\ LeavesJoined /\ PermitsConserved /\ [Next]_vars => PermitsConserved'
    <2> SUFFICES ASSUME TypeOK, LeavesJoined, PermitsConserved, [Next]_vars
                 PROVE  Balance'
      BY <1>01
    <2>0. Balance /\ permits \in Nat /\ Tasks \in SUBSET Tasks /\ MaxInFlight \in Nat
      BY <1>0, HostAssumption DEF HostAssumption, TypeOK
    <2>a. ASSUME NEW t \in Tasks, NEW b, Go(t, b)
          PROVE  /\ Held \in Nat
                 /\ Held' = Held + (IF t \in Tasks /\ b \in Holding THEN 1 ELSE 0)
                                 - (IF t \in Tasks /\ pc[t] \in Holding THEN 1 ELSE 0)
      BY <2>0, <2>a, CountMoves
    <2>1. ASSUME NEW t \in Tasks, NEW outcome, Leave(t, outcome)
          PROVE  Balance'
      <3>1. Go(t, "idle") /\ "idle" \notin Holding
        BY <2>1 DEF Leave, Holding
      <3>2. Held \in Nat /\ Held' = Held - (IF pc[t] \in Holding THEN 1 ELSE 0)
        BY <2>a, <3>1
      <3>3. permits' = permits + (IF pc[t] \in Holding THEN 1 ELSE 0)
        BY <2>0, <2>1 DEF Leave, Released
      <3>4. QED
        BY <2>0, <3>2, <3>3
    <2>2. ASSUME NEW t \in Tasks, NEW b, Go(t, b), permits' = permits,
                 b \in Holding <=> pc[t] \in Holding
          PROVE  Balance'
      <3>1. Held \in Nat /\ Held' = Held
        BY <2>a, <2>2
      <3>2. QED
        BY <2>0, <2>2, <3>1
    <2>3. ASSUME NEW t \in Tasks, Acquire(t)
          PROVE  Balance'
      <3>1. /\ permits' = permits - 1 /\ permits > 0
            /\ Go(t, "record")
            /\ pc[t] \notin Holding /\ "record" \in Holding
        BY <2>3 DEF Acquire, Holding
      <3>2. Held \in Nat /\ Held' = Held + 1
        BY <2>a, <3>1
      <3>3. QED
        BY <2>0, <3>1, <3>2
    <2>4. ASSUME NEW t \in Tasks, Step(t) \/ Answered(t) \/ BodyArrives(t)
          PROVE  Balance'
      BY <2>1, <2>2, <2>3, <2>4, PermitMoves
    <2>5. ASSUME NEW p \in Queries, RunStep(p)
          PROVE  Balance'
      <3>1. Planner[p] \in Tasks /\ {"idle", "check", "join"} \cap Holding = {}
        BY TaskFacts DEF Holding
      <3>2. CASE PlannerTurn(p)
        BY <2>2, <3>1, <3>2 DEF PlannerTurn, gate
      <3>3. CASE Map(p)
        <4>1. Held' = Held
          BY <2>0, <3>1, <3>3, CountMap
        <4>2. permits' = permits
          BY <3>3 DEF Map, gate
        <4>3. QED
          BY <2>0, <4>1, <4>2
      <3>4. CASE Join(p)
        BY <2>2, <3>1, <3>4 DEF Join, gate
      <3>5. CASE Finish(p)
        BY <2>0, <3>5 DEF Finish, gate, Count
      <3>6. QED
        BY <2>5, <3>2, <3>3, <3>4, <3>5 DEF RunStep
    <2>6. ASSUME NEW p \in Queries, Expire(p)
          PROVE  Balance'
      BY <2>0, <2>6 DEF Expire, gate, Count
    <2>7. ASSUME NEW p \in Queries, Dropped(p)
          PROVE  Balance'
      BY <2>1, <2>7, TaskFacts DEF Dropped
    <2>8. CASE UNCHANGED vars
      BY <2>0, <2>8 DEF vars, gate, Count
    <2>9. QED
      BY <2>4, <2>5, <2>6, <2>7, <2>8 DEF Next
  <1>3. QED
    BY <1>1, <1>2, Typing, Joined, PTL DEF Spec

-----------------------------------------------------------------------------
(* What goes out to Core.                                                  *)

Asking == {"recheck", "acquire", "record"}
Sending == {"recheck2"}
counters == <<issued, prompts, reserved>>

(* The three steps that count, and all others, which may only leave the    *)
(* places between two counters.                                            *)
LEMMA CounterMoves ==
    ASSUME NEW t \in Tasks, Step(t) \/ Answered(t) \/ BodyArrives(t)
    PROVE  \/ ReserveCount(t)
           \/ Record(t)
           \/ /\ pc[t] = "recheck2" /\ Go(t, "send")
              /\ issued' = [issued EXCEPT ![QueryOf[t]] = @ + 1]
              /\ UNCHANGED <<prompts, reserved>>
           \/ \E b : /\ Go(t, b)
                     /\ UNCHANGED counters
                     /\ b \in Asking => pc[t] \in Asking
                     /\ b \notin Sending
  <1> USE DEF Leave, Asking, Sending, counters, quota
  <1>1. CASE ReserveCheck(t)
    BY <1>1 DEF ReserveCheck
  <1>2. CASE ReserveTake(t)
    BY <1>2 DEF ReserveTake
  <1>3. CASE Recheck(t)
    BY <1>3 DEF Recheck
  <1>4. CASE Acquire(t) \/ AcquireTimeout(t)
    BY <1>4 DEF Acquire, AcquireTimeout
  <1>5. CASE Send(t)
    BY <1>5 DEF Send
  <1>6. CASE SendTimeout(t) \/ Answered(t) \/ BodyArrives(t)
    BY <1>6 DEF SendTimeout, Answered, BodyArrives
  <1>7. QED
    BY <1>1, <1>2, <1>3, <1>4, <1>5, <1>6 DEF Step

(* Every request that goes out to Core is one that the quota has counted   *)
(* before, through any interleaving of the leaves of a query.              *)
THEOREM IssuedAreCounted == Spec => []IssuedIsCounted
  <1> DEFINE S(q) == Count(TasksOf(q), Sending)
             A(q) == Count(TasksOf(q), Asking)
             Behind(q) == /\ issued[q] + S(q) <= prompts[q]
                          /\ prompts[q] + A(q) <= reserved[q]
  <1>0. IssuedIsCounted <=> \A q \in Queries : Behind(q)
    BY AtIsCount DEF IssuedIsCounted, Sending, Asking
  <1>01. IssuedIsCounted' <=> (\A q \in Queries : Behind(q))'
    BY <1>0, PTL
  <1>1. Init => IssuedIsCounted
    <2> SUFFICES ASSUME Init, NEW q \in Queries
                 PROVE  Behind(q)
      BY <1>0
    <2>1. /\ {u \in TasksOf(q) : pc[u] \in Sending} = {}
          /\ {u \in TasksOf(q) : pc[u] \in Asking} = {}
      BY DEF Init, TasksOf, Sending, Asking
    <2>2. S(q) = 0 /\ A(q) = 0
      BY <2>1, FS_EmptySet DEF Count
    <2>3. QED
      BY <2>2 DEF Init
  <1>2. TypeOK /\ LeavesJoined /\ IssuedIsCounted /\ [Next]_vars => IssuedIsCounted'
    <2> SUFFICES ASSUME TypeOK, LeavesJoined, IssuedIsCounted, [Next]_vars,
                        NEW q \in Queries
                 PROVE  Behind(q)'
      BY <1>01
    <2>0. /\ Behind(q)
          /\ issued[q] \in Nat /\ prompts[q] \in Nat /\ reserved[q] \in Nat
          /\ TasksOf(q) \in SUBSET Tasks
          /\ \A t \in Tasks : t \in TasksOf(q) <=> QueryOf[t] = q
      BY <1>0 DEF TypeOK, TasksOf
    <2>s. ASSUME NEW t \in Tasks, NEW b, Go(t, b)
          PROVE  /\ S(q) \in Nat
                 /\ S(q)' = S(q)
                      + (IF t \in TasksOf(q) /\ b \in Sending THEN 1 ELSE 0)
                      - (IF t \in TasksOf(q) /\ pc[t] \in Sending THEN 1 ELSE 0)
      BY <2>0, <2>s, CountMoves
    <2>a. ASSUME NEW t \in Tasks, NEW b, Go(t, b)
          PROVE  /\ A(q) \in Nat
                 /\ A(q)' = A(q)
                      + (IF t \in TasksOf(q) /\ b \in Asking THEN 1 ELSE 0)
                      - (IF t \in TasksOf(q) /\ pc[t] \in Asking THEN 1 ELSE 0)
      BY <2>0, <2>a, CountMoves
    <2>1. ASSUME NEW t \in Tasks, NEW b, Go(t, b), UNCHANGED counters,
                 b \in Asking => pc[t] \in Asking, b \notin Sending
          PROVE  Behind(q)'
      <3>1. S(q) \in Nat /\ S(q)' \in Int /\ S(q)' <= S(q)
        BY <2>s, <2>1
      <3>2. A(q) \in Nat /\ A(q)' \in Int /\ A(q)' <= A(q)
        BY <2>a, <2>1
      <3>3. QED
        BY <2>0, <2>1, <3>1, <3>2 DEF counters
    <2>2. ASSUME NEW t \in Tasks, ReserveCount(t)
          PROVE  Behind(q)'
      <3>1. /\ pc[t] = "count" /\ Go(t, "recheck")
            /\ reserved' = [reserved EXCEPT ![QueryOf[t]] = @ + 1]
            /\ issued' = issued /\ prompts' = prompts
        BY <2>2 DEF ReserveCount
      <3>2. /\ S(q) \in Nat /\ S(q)' = S(q)
            /\ A(q) \in Nat
            /\ A(q)' = A(q) + (IF t \in TasksOf(q) THEN 1 ELSE 0)
        BY <2>s, <2>a, <3>1 DEF Asking, Sending
      <3>3. reserved'[q] = reserved[q] + (IF t \in TasksOf(q) THEN 1 ELSE 0)
        BY <2>0, <3>1 DEF TypeOK
      <3>4. QED
        BY <2>0, <3>1, <3>2, <3>3
    <2>3. ASSUME NEW t \in Tasks, Record(t)
          PROVE  Behind(q)'
      <3>1. /\ pc[t] = "record" /\ Go(t, "recheck2")
            /\ prompts' = [prompts EXCEPT ![QueryOf[t]] = @ + 1]
            /\ issued' = issued /\ reserved' = reserved
        BY <2>3 DEF Record
      <3>2. /\ S(q) \in Nat
            /\ S(q)' = S(q) + (IF t \in TasksOf(q) THEN 1 ELSE 0)
            /\ A(q) \in Nat
            /\ A(q)' = A(q) - (IF t \in TasksOf(q) THEN 1 ELSE 0)
        BY <2>s, <2>a, <3>1 DEF Asking, Sending
      <3>3. prompts'[q] = prompts[q] + (IF t \in TasksOf(q) THEN 1 ELSE 0)
        BY <2>0, <3>1 DEF TypeOK
      <3>4. QED
        BY <2>0, <3>1, <3>2, <3>3
    <2>4. ASSUME NEW t \in Tasks, pc[t] = "recheck2", Go(t, "send"),
                 issued' = [issued EXCEPT ![QueryOf[t]] = @ + 1],
                 UNCHANGED <<prompts, reserved>>
          PROVE  Behind(q)'
      <3>1. /\ S(q) \in Nat
            /\ S(q)' = S(q) - (IF t \in TasksOf(q) THEN 1 ELSE 0)
            /\ A(q) \in Nat /\ A(q)' = A(q)
        BY <2>s, <2>a, <2>4 DEF Asking, Sending
      <3>2. issued'[q] = issued[q] + (IF t \in TasksOf(q) THEN 1 ELSE 0)
        BY <2>0, <2>4 DEF TypeOK
      <3>3. QED
        BY <2>0, <2>4, <3>1, <3>2
    <2>5. ASSUME NEW t \in Tasks, Step(t) \/ Answered(t) \/ BodyArrives(t)
          PROVE  Behind(q)'
      BY <2>1, <2>2, <2>3, <2>4, <2>5, CounterMoves
    <2>6. ASSUME NEW p \in Queries, RunStep(p)
          PROVE  Behind(q)'
      <3>1. /\ Planner[p] \in Tasks
            /\ {"idle", "check", "join"} \cap (Asking \cup Sending) = {}
        BY TaskFacts DEF Asking, Sending
      <3>2. CASE PlannerTurn(p)
        BY <2>1, <3>1, <3>2 DEF PlannerTurn, counters, quota
      <3>3. CASE Map(p)
        <4>1. S(q)' = S(q) /\ A(q)' = A(q)
          BY <2>0, <3>1, <3>3, CountMap
        <4>2. UNCHANGED counters
          BY <3>3 DEF Map, counters, quota
        <4>3. QED
          BY <2>0, <4>1, <4>2 DEF counters
      <3>4. CASE Join(p)
        BY <2>1, <3>1, <3>4 DEF Join, counters, quota
      <3>5. CASE Finish(p)
        BY <2>0, <3>5 DEF Finish, quota, Count
      <3>6. QED
        BY <2>6, <3>2, <3>3, <3>4, <3>5 DEF RunStep
    <2>7. ASSUME NEW p \in Queries, Expire(p)
          PROVE  Behind(q)'
      BY <2>0, <2>7 DEF Expire, Count
    <2>8. ASSUME NEW p \in Queries, Dropped(p)
          PROVE  Behind(q)'
      <3>1. Go(Planner[p], "idle") /\ "idle" \notin Asking \cup Sending
        BY <2>8 DEF Dropped, Leave, Asking, Sending
      <3>2. QED
        BY <2>1, <2>8, <3>1, TaskFacts DEF Dropped, counters, quota
    <2>9. CASE UNCHANGED vars
      BY <2>0, <2>9 DEF vars, quota, Count
    <2>10. QED
      BY <2>5, <2>6, <2>7, <2>8, <2>9 DEF Next
  <1>3. QED
    BY <1>1, <1>2, Typing, Joined, PTL DEF Spec

(* A root query never sends more requests to Core than its budget allows,  *)
(* however many leaves and nested planners spend from it: "Every bound     *)
(* ends the run" (engine.rs), model calls among them.                      *)
WithinBudget == \A q \in Queries : issued[q] <= MaxCalls[q]
THEOREM BudgetHolds == Spec => []WithinBudget
  <1>1. TypeOK /\ CallsConserved /\ IssuedIsCounted => WithinBudget
    <2> SUFFICES ASSUME TypeOK, CallsConserved, IssuedIsCounted, NEW q \in Queries
                 PROVE  issued[q] <= MaxCalls[q]
      BY DEF WithinBudget
    <2>1. ASSUME NEW S
          PROVE  Cardinality(At(q, S)) \in Nat
      <3>1. IsFiniteSet(Tasks) /\ At(q, S) \in SUBSET Tasks
        BY HostAssumption DEF HostAssumption, At
      <3>2. IsFiniteSet(At(q, S))
        BY <3>1, FS_Subset
      <3>3. QED
        BY <3>2, FS_CardinalityType
    <2>2. /\ Cardinality(At(q, {"count"})) \in Nat
          /\ Cardinality(At(q, {"recheck2"})) \in Nat
          /\ Cardinality(At(q, {"recheck", "acquire", "record"})) \in Nat
      BY <2>1
    <2>3. /\ issued[q] \in Nat /\ prompts[q] \in Nat /\ reserved[q] \in Nat
          /\ remaining[q] \in Nat
      BY DEF TypeOK
    <2>4. QED
      BY <2>2, <2>3 DEF CallsConserved, IssuedIsCounted
  <1>2. QED
    BY <1>1, Typing, CallsAreConserved, IssuedAreCounted, PTL

-----------------------------------------------------------------------------
(* The planner's own calls.                                                *)

(* A call that the planner of a running query has begun finds the budget   *)
(* that its turn has seen.                                                 *)
FundedIn(q) ==
    status[q] = "running" =>
        /\ pc[Planner[q]] \in {"check", "take"} => remaining[q] > 0
        /\ result[Planner[q]] # "callBudget"

Funded == \A q \in Queries : FundedIn(q)

(* What a task does of itself to the budget and to its result: it draws    *)
(* one call at "take", and is refused there alone, for want of budget.     *)
LEMMA TaskDraws ==
    ASSUME TypeOK, NEW t \in Tasks, Step(t) \/ Answered(t) \/ BodyArrives(t)
    PROVE  /\ \A u \in Tasks \ {t} : result'[u] = result[u]
           /\ \A q \in Queries : remaining'[q] # remaining[q] => pc[t] = "take" /\ q = QueryOf[t]
           /\ result'[t] = "callBudget" =>
                \/ result[t] = "callBudget"
                \/ pc[t] = "take" /\ remaining[QueryOf[t]] = 0
           /\ pc'[t] \in {"check", "take"} => pc[t] = "check" /\ remaining' = remaining
  <1> USE DEF TypeOK, Go, Leave, quota
  <1>1. CASE ReserveCheck(t)
    BY <1>1 DEF ReserveCheck
  <1>2. CASE ReserveTake(t)
    BY <1>2 DEF ReserveTake
  <1>3. CASE ReserveCount(t) \/ Recheck(t)
    BY <1>3 DEF ReserveCount, Recheck
  <1>4. CASE Acquire(t) \/ AcquireTimeout(t) \/ Record(t)
    BY <1>4 DEF Acquire, AcquireTimeout, Record
  <1>5. CASE Send(t) \/ SendTimeout(t)
    BY <1>5 DEF Send, SendTimeout
  <1>6. CASE Answered(t) \/ BodyArrives(t)
    BY <1>6 DEF Answered, BodyArrives
  <1>7. QED
    BY <1>1, <1>2, <1>3, <1>4, <1>5, <1>6 DEF Step

(* What the planner saw of the budget at the head of its loop is still     *)
(* there when its call draws on it (engine.rs 443): while it asks, none of *)
(* its leaves is at work.                                                  *)
THEOREM PlannerIsServed == Spec => []PlannerIsNeverRefused
  <1>1. Init => Funded
    BY TaskFacts DEF Init, Funded, FundedIn
  <1>2. TypeOK /\ LeavesJoined /\ Funded /\ [Next]_vars => Funded'
    <2> SUFFICES ASSUME TypeOK, LeavesJoined, Funded, [Next]_vars, NEW q \in Queries
                 PROVE  FundedIn(q)'
      BY DEF Funded
    <2>0. FundedIn(q) /\ JoinedIn(q)
      BY DEF Funded, LeavesJoined
    <2>a. Planner[q] \in Tasks /\ QueryOf[Planner[q]] = q
      BY TaskFacts
    <2>1. ASSUME NEW t \in Tasks, Step(t) \/ Answered(t) \/ BodyArrives(t)
          PROVE  FundedIn(q)'
      <3>0. /\ pc[t] \notin {"idle", "join"} /\ status' = status
            /\ \A u \in Tasks \ {t} : pc'[u] = pc[u]
        BY <2>1, TaskMoves DEF TypeOK
      <3>1. CASE t = Planner[q]
        BY <2>0, <2>1, <2>a, <3>0, <3>1, TaskDraws DEF FundedIn, TypeOK
      <3>2. CASE t # Planner[q] /\ QueryOf[t] = q
        <4>1. status[q] = "running" => pc[Planner[q]] = "join"
          BY <2>0, <3>0, <3>2, TaskFacts DEF JoinedIn
        <4>2. QED
          BY <2>0, <2>1, <2>a, <3>0, <3>2, <4>1, TaskDraws DEF FundedIn
      <3>3. CASE QueryOf[t] # q
        <4>1. t # Planner[q] /\ remaining'[q] = remaining[q]
          BY <2>1, <2>a, <3>3, TaskDraws
        <4>2. QED
          BY <2>0, <2>1, <2>a, <3>0, <4>1, TaskDraws DEF FundedIn
      <3>4. QED
        BY <3>1, <3>2, <3>3
    <2>2. ASSUME NEW p \in Queries, PlannerTurn(p)
          PROVE  FundedIn(q)'
      <3>1. /\ UNCHANGED <<status, remaining>> /\ remaining[p] > 0
            /\ pc' = [pc EXCEPT ![Planner[p]] = "check"]
            /\ result' = [result EXCEPT ![Planner[p]] = "none"]
        BY <2>2 DEF PlannerTurn, Go, run, quota
      <3>2. p # q => Planner[p] # Planner[q]
        BY TaskFacts
      <3>3. QED
        BY <2>0, <2>a, <3>1, <3>2 DEF FundedIn, TypeOK
    <2>3. ASSUME NEW p \in Queries, Map(p)
          PROVE  FundedIn(q)'
      <3>1. PICK S \in SUBSET Leaves(p) \ {{}} :
              pc' = [u \in Tasks |-> IF u \in S THEN "check"
                                     ELSE IF u = Planner[p] THEN "join" ELSE pc[u]]
        BY <2>3, Zenon DEF Map
      <3>2. /\ UNCHANGED <<status, remaining>>
            /\ result' = [result EXCEPT ![Planner[p]] = "none"]
        BY <2>3 DEF Map, run, quota
      <3>3. Planner[q] \notin S
        BY TaskFacts
      <3>4. pc'[Planner[q]] \in {"join", pc[Planner[q]]}
        BY <2>a, <3>1, <3>3
      <3>5. QED
        BY <2>0, <2>a, <3>2, <3>4 DEF FundedIn, TypeOK
    <2>4. ASSUME NEW p \in Queries, Join(p)
          PROVE  FundedIn(q)'
      <3>1. /\ UNCHANGED <<status, remaining>>
            /\ pc' = [pc EXCEPT ![Planner[p]] = "idle"]
            /\ result' = [u \in Tasks |-> IF QueryOf[u] = p THEN "none" ELSE result[u]]
        BY <2>4 DEF Join, Go, run, quota
      <3>2. pc'[Planner[q]] \in {"idle", pc[Planner[q]]}
        BY <2>a, <3>1 DEF TypeOK
      <3>3. result'[Planner[q]] \in {"none", result[Planner[q]]}
        BY <2>a, <3>1
      <3>4. QED
        BY <2>0, <3>1, <3>2, <3>3 DEF FundedIn
    <2>5. ASSUME NEW p \in Queries, Finish(p)
          PROVE  FundedIn(q)'
      BY <2>0, <2>5 DEF Finish, FundedIn, TypeOK, quota
    <2>6. ASSUME NEW p \in Queries, Expire(p)
          PROVE  FundedIn(q)'
      BY <2>0, <2>6 DEF Expire, FundedIn, run
    <2>7. ASSUME NEW p \in Queries, Dropped(p)
          PROVE  FundedIn(q)'
      <3>1. /\ status' = [status EXCEPT ![p] = "dropped"] /\ UNCHANGED remaining
            /\ pc' = [pc EXCEPT ![Planner[p]] = "idle"]
            /\ result' = [result EXCEPT ![Planner[p]] = "none"]
        BY <2>7 DEF Dropped, Go, Leave, quota
      <3>2. p # q => Planner[p] # Planner[q]
        BY TaskFacts
      <3>3. QED
        BY <2>0, <2>a, <3>1, <3>2 DEF FundedIn, TypeOK
    <2>8. CASE UNCHANGED vars
      BY <2>0, <2>8 DEF vars, run, quota, FundedIn
    <2>9. QED
      BY <2>1, <2>2, <2>3, <2>4, <2>5, <2>6, <2>7, <2>8 DEF Next, RunStep
  <1>3. Funded => PlannerIsNeverRefused
    BY DEF Funded, FundedIn, PlannerIsNeverRefused
  <1>4. QED
    BY <1>1, <1>2, <1>3, Typing, Joined, PTL DEF Spec

-----------------------------------------------------------------------------
(* The ledger.                                                             *)

(* A task that is in one of some places counts there, and only a query     *)
(* whose record is not made has a task at work.                            *)
LEMMA AtWork ==
    ASSUME TypeOK, LeavesJoined, NEW t \in Tasks, pc[t] # "idle"
    PROVE  /\ QueryOf[t] \in Queries
           /\ status[QueryOf[t]] # "done"
           /\ \A S : pc[t] \in S => Cardinality(At(QueryOf[t], S)) \in Nat \ {0}
           /\ \A S : Cardinality(At(QueryOf[t], S)) \in Nat
  <1>1. QueryOf[t] \in Queries
    BY HostAssumption DEF HostAssumption
  <1>2. status[QueryOf[t]] # "done"
    BY <1>1, TaskFacts DEF LeavesJoined, JoinedIn
  <1>3. ASSUME NEW S
        PROVE  /\ Cardinality(At(QueryOf[t], S)) \in Nat
               /\ pc[t] \in S => Cardinality(At(QueryOf[t], S)) # 0
    <2>1. IsFiniteSet(Tasks) /\ At(QueryOf[t], S) \in SUBSET Tasks
      BY HostAssumption DEF HostAssumption, At
    <2>2. IsFiniteSet(At(QueryOf[t], S))
      BY <2>1, FS_Subset
    <2>3. pc[t] \in S => t \in At(QueryOf[t], S)
      BY DEF At
    <2>4. QED
      BY <2>2, <2>3, FS_CardinalityType, FS_EmptySet
  <1>4. QED
    BY <1>1, <1>2, <1>3

(* The two steps of a task that enter something in the ledger, and what    *)
(* all its other steps leave as it is.                                     *)
LEMMA TaskEntries ==
    ASSUME NEW t \in Tasks, Step(t) \/ Answered(t) \/ BodyArrives(t)
    PROVE  \/ ReserveCount(t)
           \/ /\ pc[t] = "recheck2"
              /\ issued' = [issued EXCEPT ![QueryOf[t]] = @ + 1]
              /\ UNCHANGED <<status, reserved, reported>>
           \/ UNCHANGED <<status, reserved, issued, reported>>
  <1> USE DEF quota, run
  <1>1. CASE ReserveCheck(t) \/ ReserveTake(t) \/ Recheck(t)
    BY <1>1 DEF ReserveCheck, ReserveTake, Recheck
  <1>2. CASE Acquire(t) \/ AcquireTimeout(t) \/ Record(t)
    BY <1>2 DEF Acquire, AcquireTimeout, Record
  <1>3. CASE Send(t)
    BY <1>3 DEF Send
  <1>4. CASE SendTimeout(t) \/ Answered(t) \/ BodyArrives(t)
    BY <1>4 DEF SendTimeout, Answered, BodyArrives
  <1>5. QED
    BY <1>1, <1>2, <1>3, <1>4 DEF Step

(* A call charged to a query is one the ledger of the query sells: the     *)
(* task that counts it holds the permit of a call not yet charged.         *)
LEMMA ChargeIsAPurchase ==
    ASSUME TypeOK, LeavesJoined, CallsConserved,
           NEW t \in Tasks, ReserveCount(t)
    PROVE  QueryOf[t] \in Queries /\ Ledger!Buy(QueryOf[t])
  <1> DEFINE q == QueryOf[t]
  <1>charged. /\ pc[t] = "count"
              /\ reserved' = [reserved EXCEPT ![q] = @ + 1]
              /\ UNCHANGED <<status, issued, reported>>
    BY DEF ReserveCount, run, quota
  <1>holder. /\ q \in Queries /\ status[q] # "done"
             /\ Cardinality(At(q, {"count"})) \in Nat \ {0}
    BY <1>charged, AtWork
  <1>room. reserved[q] < MaxCalls[q]
    <2>1. remaining[q] \in Nat /\ reserved[q] \in Nat
      BY <1>holder DEF TypeOK
    <2>2. remaining[q] + reserved[q] + Cardinality(At(q, {"count"})) = MaxCalls[q]
      BY <1>holder DEF CallsConserved
    <2>3. QED
      BY <1>holder, <2>1, <2>2
  <1> QED
    BY <1>charged, <1>holder, <1>room DEF Ledger!Buy

(* A request sent is one the ledger lets through: its task was charged and *)
(* counted the prompt before it was issued.                                *)
LEMMA IssueIsASend ==
    ASSUME TypeOK, LeavesJoined, IssuedIsCounted,
           NEW t \in Tasks, pc[t] = "recheck2",
           issued' = [issued EXCEPT ![QueryOf[t]] = @ + 1],
           UNCHANGED <<status, reserved, reported>>
    PROVE  QueryOf[t] \in Queries /\ Ledger!Send(QueryOf[t])
  <1> DEFINE q == QueryOf[t]
  <1>sender. /\ q \in Queries /\ status[q] # "done"
             /\ Cardinality(At(q, {"recheck2"})) \in Nat \ {0}
             /\ Cardinality(At(q, {"recheck", "acquire", "record"})) \in Nat
    BY AtWork
  <1>paid. issued[q] < reserved[q]
    <2>1. issued[q] \in Nat /\ prompts[q] \in Nat /\ reserved[q] \in Nat
      BY <1>sender DEF TypeOK
    <2>2. /\ issued[q] + Cardinality(At(q, {"recheck2"})) <= prompts[q]
          /\ prompts[q] + Cardinality(At(q, {"recheck", "acquire", "record"}))
               <= reserved[q]
      BY <1>sender DEF IssuedIsCounted
    <2>3. QED
      BY <1>sender, <2>1, <2>2
  <1> QED
    BY <1>sender, <1>paid DEF Ledger!Send

(* A planner's end is the only step of a run that the ledger sees: the     *)
(* record closes it, and a client that hangs up abandons it.               *)
LEMMA RunEntries ==
    ASSUME NEW q \in Queries, RunStep(q) \/ Expire(q) \/ Dropped(q)
    PROVE  \/ Ledger!Close(q) \/ Ledger!Abandon(q)
           \/ UNCHANGED <<status, reserved, issued, reported>>
  <1> USE DEF run, quota
  <1>dropped. Dropped(q) => Ledger!Abandon(q)
    BY DEF Dropped, Ledger!Abandon
  <1>finished. Finish(q) => Ledger!Close(q)
    BY DEF Finish, Ledger!Close
  <1>other. PlannerTurn(q) \/ Map(q) \/ Join(q) \/ Expire(q)
              => UNCHANGED <<status, reserved, issued, reported>>
    BY DEF PlannerTurn, Map, Join, Expire
  <1> QED
    BY <1>dropped, <1>finished, <1>other DEF RunStep

(* Host implements CallLedger: every step of the tasks, the engine and the *)
(* clock enters one purchase, one request or one end in the ledger of one  *)
(* query, or nothing, whatever the queries, their leaves and budgets.      *)
THEOREM ImplementsLedger == Spec => LedgerHolds
  <1> DEFINE Inv == TypeOK /\ LeavesJoined /\ CallsConserved /\ IssuedIsCounted
             Entered == Ledger!Next \/ UNCHANGED Ledger!ledger
  <1>start. Init => Ledger!Init
    BY DEF Init, Ledger!Init
  <1>tasks. ASSUME Inv, NEW t \in Tasks, Step(t) \/ Answered(t) \/ BodyArrives(t)
            PROVE  Entered
    <2>1. ReserveCount(t) => Ledger!Next
      BY <1>tasks, ChargeIsAPurchase DEF Ledger!Next
    <2>2. CASE /\ pc[t] = "recheck2"
               /\ issued' = [issued EXCEPT ![QueryOf[t]] = @ + 1]
               /\ UNCHANGED <<status, reserved, reported>>
      BY <1>tasks, <2>2, IssueIsASend DEF Ledger!Next
    <2>3. QED
      BY <1>tasks, TaskEntries, <2>1, <2>2 DEF Ledger!ledger
  <1>runs. ASSUME NEW q \in Queries, RunStep(q) \/ Expire(q) \/ Dropped(q)
           PROVE  Entered
    BY <1>runs, RunEntries DEF Ledger!Next, Ledger!ledger
  <1>idle. UNCHANGED vars => Entered
    BY DEF vars, run, quota, Ledger!ledger
  <1>step. Inv /\ [Next]_vars => [Ledger!Next]_(Ledger!ledger)
    BY <1>idle, <1>runs, <1>tasks DEF Next
  <1> QED
    BY Typing, Joined, CallsAreConserved, IssuedAreCounted, <1>start, <1>step,
       PTL DEF Spec, LedgerHolds, Ledger!Spec
=============================================================================
