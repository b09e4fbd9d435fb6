----------------------------- MODULE EngineProofs -----------------------------
(***************************************************************************)
(* Proofs about the recursion engine (module Engine, engine.rs): every     *)
(* invariant that the run EngineDeep checks holds for every corpus, every  *)
(* re-cut, every budget and every policy.                                  *)
(*                                                                         *)
(* None of these invariants is inductive.  IInv strengthens them all at    *)
(* once: FrameInv says of one run, at its depth, how its place agrees with *)
(* its steps and its status (Paced), that what counts as observed was read *)
(* and what is cited was observed (Evident), that an ok was earned         *)
(* (Earned), that its own steps account for the calls of every turn but    *)
(* the one it is in (Billed), and that its trace reads as one list         *)
(* (Nests).  Stacked says which runs wait, and Counted that the nested     *)
(* runs that ended ok are shared out among the runs under way.             *)
(*                                                                         *)
(* Calls that a run nested in a frame spends leave the frame as it is:     *)
(* that is lemma Waits, and why Billed says nothing of the turn under way. *)
(* The step that is hard is Return: SplicedReads and SplicedCosts show     *)
(* that a trace with the steps of a nested run in it still reads as one    *)
(* list and still adds up.  A total over a sequence is a recursive         *)
(* function, unfolded by the induction of module Induction.                *)
(***************************************************************************)
EXTENDS Engine, Induction, SequenceTheorems

-----------------------------------------------------------------------------
(* Sub-contexts.                                                           *)

(* The chunks of a sub-context are chunks.                                 *)
LEMMA SubContextType ==
    ASSUME NEW f, f.ctx \in Seq(Span), NEW picks \in Seq(1 .. Len(f.ctx))
    PROVE  SubContext(f, picks) \in Seq(Span)
  <1> DEFINE Solves(g, n) ==
               g = [k \in 0 .. n |-> IF k = 0 THEN <<>> ELSE g[k - 1] \o Recut[f.ctx[picks[k]]]]
             S == {n \in Nat : \E g : Solves(g, n)}
  <1>1. 0 \in S
    <2>1. Solves([k \in 0 .. 0 |-> <<>>], 0)
      OBVIOUS
    <2> HIDE DEF Solves
    <2>2. QED
      BY <2>1
  <1>2. ASSUME NEW n \in Nat, n \in S
        PROVE  n + 1 \in S
    <2>1. PICK g : Solves(g, n)
      BY <1>2
    <2> DEFINE more == g[n] \o Recut[f.ctx[picks[n + 1]]]
    <2> DEFINE h == [k \in 0 .. n + 1 |-> IF k <= n THEN g[k] ELSE more]
    <2>2. h = [k \in 0 .. n + 1 |-> IF k = 0 THEN <<>> ELSE h[k - 1] \o Recut[f.ctx[picks[k]]]]
      <3>1. ASSUME NEW k \in 0 .. n + 1
            PROVE  h[k] = IF k = 0 THEN <<>> ELSE h[k - 1] \o Recut[f.ctx[picks[k]]]
        <4>1. CASE k <= n
          <5>1. h[k] = g[k] /\ (k # 0 => h[k - 1] = g[k - 1])
            BY <4>1
          <5> HIDE DEF h
          <5>2. QED
            BY <2>1, <4>1, <5>1, SMTT(30)
        <4>2. CASE k = n + 1
          <5>1. h[n + 1] = more /\ h[n] = g[n]
            <6> HIDE DEF more
            <6> QED
              OBVIOUS
          <5> HIDE DEF h
          <5>2. k - 1 = n /\ k # 0
            BY <4>2
          <5>3. h[k] = h[k - 1] \o Recut[f.ctx[picks[k]]]
            BY <4>2, <5>1, <5>2, Zenon
          <5>4. QED
            BY <5>2, <5>3
        <4>3. QED
          BY <4>1, <4>2
      <3>2. QED
        BY <3>1
    <2>3. Solves(h, n + 1)
      BY <2>2
    <2> HIDE DEF Solves
    <2>4. QED
      BY <2>3
  <1>3. \A n \in Nat : n \in S
    <2> HIDE DEF S
    <2> QED
      BY <1>1, <1>2, SetInduction
  <1> DEFINE c == CHOOSE x : Solves(x, Len(picks))
  <1>4. Solves(c, Len(picks))
    <2>1. Len(picks) \in Nat
      OBVIOUS
    <2>2. \E g : Solves(g, Len(picks))
      BY <1>3, <2>1
    <2>3. QED
      BY <2>2
  <1>5. SubContext(f, picks) = c[Len(picks)]
    BY DEF SubContext
  <1> HIDE DEF c
  <1>6. c[0] = <<>> /\ \A k \in 1 .. Len(picks) : c[k] = c[k - 1] \o Recut[f.ctx[picks[k]]]
    <2> DEFINE body(k) == IF k = 0 THEN <<>> ELSE c[k - 1] \o Recut[f.ctx[picks[k]]]
    <2>1. c = [k \in 0 .. Len(picks) |-> body(k)]
      BY <1>4, Zenon
    <2> HIDE DEF Solves, S
    <2>2. Len(picks) \in Nat
      OBVIOUS
    <2>3. 0 \in 0 .. Len(picks) /\ \A k \in 1 .. Len(picks) : k \in 0 .. Len(picks) /\ k # 0
      BY <2>2
    <2>4. body(0) = <<>> /\ \A k \in 1 .. Len(picks) : body(k) = c[k - 1] \o Recut[f.ctx[picks[k]]]
      BY <2>3
    <2> HIDE DEF body
    <2>5. \A k \in 0 .. Len(picks) : c[k] = body(k)
      BY <2>1
    <2>6. QED
      BY <2>3, <2>4, <2>5
  <1> HIDE DEF Solves, S
  <1>7. ASSUME NEW k \in 1 .. Len(picks)
        PROVE  Recut[f.ctx[picks[k]]] \in Seq(Span)
    <2>1. picks[k] \in 1 .. Len(f.ctx)
      OBVIOUS
    <2>2. f.ctx[picks[k]] \in Span
      BY <2>1
    <2>3. QED
      BY <2>2, EngineAssumption DEF EngineAssumption
  <1> DEFINE T == {k \in Nat : k <= Len(picks) => c[k] \in Seq(Span)}
  <1>8. 0 \in T
    BY <1>6, EmptySeq
  <1>9. ASSUME NEW n \in Nat, n \in T
        PROVE  n + 1 \in T
    <2> SUFFICES ASSUME n + 1 <= Len(picks)
                 PROVE  c[n + 1] \in Seq(Span)
      OBVIOUS
    <2>1. c[n] \in Seq(Span) /\ Recut[f.ctx[picks[n + 1]]] \in Seq(Span)
      BY <1>7, <1>9
    <2>2. c[n + 1] = c[n] \o Recut[f.ctx[picks[n + 1]]]
      <3>1. n + 1 \in 1 .. Len(picks) /\ (n + 1) - 1 = n
        OBVIOUS
      <3>2. QED
        BY <1>6, <3>1, ZenonT(30)
    <2>3. QED
      BY <2>1, <2>2, ConcatProperties
  <1>10. \A n \in Nat : n \in T
    <2> HIDE DEF T
    <2> QED
      BY <1>8, <1>9, SetInduction
  <1>11. QED
    BY <1>5, <1>10

-----------------------------------------------------------------------------
(* Frames.                                                                 *)

(* The top of the stack becomes g, and the frames below stay.              *)
OnlyTop(g) ==
    /\ stack' \in Seq(FrameType) /\ Len(stack') = Len(stack)
    /\ stack'[Len(stack)] = g
    /\ \A k \in 1 .. Len(stack) - 1 : stack'[k] = stack[k]

LEMMA Numbers ==
    /\ MaxSteps \in Nat \ {0} /\ NestedSteps \in Nat \ {0} /\ MaxCalls \in Nat \ {0}
    /\ MaxFanout \in Nat \ {0} /\ MaxPicks \in Nat \ {0}
    /\ MaxDepth \in Nat /\ MinCites \in Nat /\ MinRecursions \in Nat
  BY EngineAssumption DEF EngineAssumption

LEMMA TopType ==
    ASSUME TypeOK
    PROVE  Len(stack) \in Nat \ {0} /\ Top \in FrameType /\ Depth \in Nat
  BY DEF TypeOK, Top, Depth

LEMMA SetsTop == ASSUME TypeOK, NEW g \in FrameType, SetTop(g) PROVE OnlyTop(g)
  BY TopType DEF TypeOK, SetTop, OnlyTop

(* What is paid is never less than it was when the step began.             *)
Paid(f) == f.before <= Calls(remaining)

LEMMA CostType ==
    ASSUME TypeOK, NEW f \in FrameType, Paid(f), NEW left \in 0 .. remaining
    PROVE  Cost(f, left) \in Nat /\ Calls(left) \in Nat /\ Calls(left) >= Calls(remaining)
  <1>1. /\ f.before \in Nat /\ remaining \in 0 .. MaxCalls /\ MaxCalls \in Nat
        /\ f.before <= MaxCalls - remaining
    BY Numbers DEF TypeOK, FrameType, Paid, Calls
  <1>2. QED
    BY <1>1 DEF Cost, Calls

LEMMA PushType ==
    ASSUME TypeOK, NEW f \in FrameType, Paid(f), NEW op \in Ops, NEW left \in 0 .. remaining
    PROVE  Push(f, op, left) \in FrameType
  <1>1. [index |-> Len(f.trace), depth |-> Depth, op |-> op, parent |-> None,
         calls |-> Cost(f, left)] \in TraceStep
    <2>1. Len(f.trace) \in Nat
      BY DEF FrameType
    <2>2. QED
      BY <2>1, CostType, TopType DEF TraceStep
  <1> DEFINE e == [index |-> Len(f.trace), depth |-> Depth, op |-> op, parent |-> None,
                   calls |-> Cost(f, left)]
  <1>2. Append(f.trace, e) \in Seq(TraceStep)
    <2> HIDE DEF e
    <2>1. f.trace \in Seq(TraceStep) /\ e \in TraceStep
      BY <1>1 DEF FrameType, e
    <2>2. QED
      BY <2>1
  <1>3. [f EXCEPT !.trace = Append(f.trace, e)] \in FrameType
    <2> HIDE DEF e
    <2> QED
      BY <1>2 DEF FrameType
  <1>4. QED
    BY <1>3 DEF Push

LEMMA ContinueType ==
    ASSUME TypeOK, NEW f \in FrameType, Paid(f), NEW op \in Ops, NEW left \in 0 .. remaining
    PROVE  Continue(f, op, left) \in FrameType
  <1> DEFINE p == Push(f, op, left)
  <1>1. p \in FrameType
    BY PushType
  <1> HIDE DEF p
  <1>2. [p EXCEPT !.place = "head", !.step = @ + 1] \in FrameType
    <2>1. p.step + 1 \in Nat
      BY <1>1 DEF FrameType
    <2>2. QED
      BY <1>1, <2>1 DEF FrameType
  <1>3. QED
    BY <1>2 DEF Continue, p

-----------------------------------------------------------------------------
(* The inductive invariant.  A frame f is at depth d, with left calls      *)
(* remaining and the deadline passed if late.                              *)

InTurn == {"calling", "mapping", "nested"}

(* How far the loop has come, and what ended it.                           *)
Paced(f, d, left, late) ==
    /\ f.step <= StepsAt(d)
    /\ f.place \in InTurn => f.step < StepsAt(d)
    /\ f.forced => f.step = StepsAt(d) /\ f.place \in {"forced", "close", "done"}
    /\ f.place = "forced" => f.forced
    /\ f.status # "budget" => f.place \in {"exit", "close", "done"}
    /\ f.status = "budget" /\ f.place = "exit" => left = 0 \/ late
    /\ f.status = "budget" /\ f.place \in {"close", "done"} =>
         f.step = StepsAt(d) \/ left = 0 \/ late

(* What counts as observed was read, and what is cited was observed.       *)
Evident(f) ==
    /\ f.pending \subseteq Chunks(f) /\ f.cites \subseteq Chunks(f)
    /\ f.observed \subseteq f.read \cup f.blank
    /\ \A c \in f.cites : Grounded(f, c) /\ f.ctx[c].source \in Allowed

Earned(f, d) ==
    f.status = "ok" =>
        /\ f.answer = "planned"
        /\ d = 0 => Cardinality(f.cites) >= MinCites /\ f.recursions >= MinRecursions

(* The steps of a run account for its calls up to the step it is in.       *)
Billed(f, d, left) ==
    LET spent == Total(CostsAt(f.trace, d))
    IN  /\ f.before <= Calls(left) /\ f.start <= Calls(left)
        /\ f.place \in InTurn => spent = f.before - f.start
        /\ f.place = "forced" => f.before = Calls(left)
        /\ f.place \in {"head", "exit", "forced"} => spent = Calls(left) - f.start
        /\ f.place \in {"close", "done"} =>
             \/ spent = Calls(left) - f.start
             \/ spent = Calls(left) - f.start - 1 /\ f.forced

(* Step j is the first of depth e after step i.                            *)
IsNext(tr, i, e, j) ==
    /\ j \in i + 1 .. Len(tr)
    /\ tr[j].depth = e
    /\ \A k \in i + 1 .. j - 1 : tr[k].depth # e
OwnBefore(tr, d, j) == {k \in 1 .. j - 1 : tr[k].depth = d}
Belongs(tr, i, d) ==
    /\ \A e \in d .. tr[i].depth - 1 : \E j \in i + 1 .. Len(tr) : tr[j].depth = e
    /\ \E j \in Nat : IsNext(tr, i, tr[i].depth - 1, j) /\ tr[j].op = "recurse"
    /\ \E j \in Nat : IsNext(tr, i, d, j) /\ tr[i].parent = Cardinality(OwnBefore(tr, d, j))
Reads(tr, d) ==
    \A i \in 1 .. Len(tr) :
        /\ tr[i].index = i - 1 /\ tr[i].depth >= d
        /\ tr[i].depth > d => Belongs(tr, i, d)
Own(tr, d) == OwnBefore(tr, d, Len(tr) + 1)
Nests(f, d) ==
    /\ Reads(f.trace, d)
    /\ f.place \in {"head"} \cup InTurn => Cardinality(Own(f.trace, d)) = f.step

FrameInv(f, d, left, late) ==
    /\ Paced(f, d, left, late)
    /\ Evident(f)
    /\ Earned(f, d)
    /\ Billed(f, d, left)
    /\ Nests(f, d)

(* A run waits while one is nested in it, and only then.                   *)
Stacked == \A k \in 1 .. Len(stack) : stack[k].place = "nested" <=> k < Len(stack)

(* A nested run that ended ok is counted by one of the runs under way.     *)
RecursionsOf(s) == [k \in 1 .. Len(s) |-> s[k].recursions]
Counted == okNested = Total(RecursionsOf(stack))

IInv ==
    /\ TypeOK
    /\ Stacked
    /\ \A k \in 1 .. Len(stack) : FrameInv(stack[k], k - 1, remaining, elapsed)
    /\ Counted

-----------------------------------------------------------------------------
(* Time passes and calls are spent by others while a frame waits.          *)
LEMMA Waits ==
    ASSUME NEW f \in FrameType, NEW d \in Nat, NEW left \in 0 .. MaxCalls, NEW less \in 0 .. left,
           NEW late \in BOOLEAN, NEW later \in BOOLEAN, late => later,
           f.place = "nested" \/ less = left, FrameInv(f, d, left, late)
    PROVE  FrameInv(f, d, less, later)
  <1>1. Paced(f, d, less, later)
    BY DEF FrameInv, Paced, InTurn
  <1>2. Calls(left) \in Nat /\ Calls(less) \in Nat /\ Calls(left) <= Calls(less)
    BY Numbers DEF Calls
  <1>3. f.before \in Nat /\ f.start \in Nat
    BY DEF FrameType
  <1>4. Billed(f, d, less)
    <2>1. CASE less = left
      BY <2>1 DEF FrameInv
    <2>2. CASE f.place = "nested"
      BY <1>2, <1>3, <2>2 DEF FrameInv, Billed
    <2>3. QED
      BY <2>1, <2>2
  <1>5. QED
    BY <1>1, <1>4 DEF FrameInv

(* A step that changes the top frame alone.                                *)
LEMMA TopChanges ==
    ASSUME IInv, NEW g \in FrameType, OnlyTop(g), g.place # "nested", g.recursions = Top.recursions,
           remaining' \in 0 .. remaining, elapsed' \in BOOLEAN, elapsed => elapsed',
           okNested' = okNested, FrameInv(g, Depth, remaining', elapsed')
    PROVE  IInv'
  <1>1. \A k \in 1 .. Len(stack) : \/ k = Len(stack) /\ stack'[k] = g
                                   \/ k # Len(stack) /\ stack'[k] = stack[k]
    BY TopType DEF IInv, OnlyTop
  <1>2. TypeOK'
    BY TopType, Numbers DEF IInv, TypeOK, OnlyTop
  <1>3. Stacked'
    BY <1>1, TopType DEF IInv, Stacked, OnlyTop
  <1>4. ASSUME NEW k \in 1 .. Len(stack)
        PROVE  FrameInv(stack'[k], k - 1, remaining', elapsed')
    <2>1. CASE k = Len(stack)
      BY <2>1 DEF OnlyTop, Depth
    <2>2. CASE k # Len(stack)
      <3>1. stack'[k] = stack[k] /\ stack[k].place = "nested" /\ stack[k] \in FrameType
        BY <2>2, TopType DEF IInv, TypeOK, Stacked, OnlyTop
      <3>2. FrameInv(stack[k], k - 1, remaining, elapsed) /\ k - 1 \in Nat
        BY DEF IInv
      <3>3. remaining \in 0 .. MaxCalls /\ elapsed \in BOOLEAN
        BY DEF IInv, TypeOK
      <3>4. QED
        BY <3>1, <3>2, <3>3, Waits
    <2>3. QED
      BY <2>1, <2>2
  <1>5. Counted'
    <2>1. Len(stack') = Len(stack) /\ \A k \in 1 .. Len(stack) : stack'[k].recursions = stack[k].recursions
      BY <1>1 DEF OnlyTop, Top
    <2>2. RecursionsOf(stack') = RecursionsOf(stack)
      BY <2>1 DEF RecursionsOf
    <2>3. QED
      BY <2>2 DEF IInv, Counted
  <1>6. QED
    BY <1>2, <1>3, <1>4, <1>5 DEF IInv, OnlyTop

-----------------------------------------------------------------------------
(* Traces.                                                                 *)
Trace == Seq(TraceStep)

LEMMA StepsOf ==
    ASSUME NEW tr \in Trace
    PROVE  /\ Len(tr) \in Nat
           /\ \A i \in 1 .. Len(tr) : /\ tr[i] \in TraceStep /\ tr[i].calls \in Nat
                                      /\ tr[i].depth \in Nat
  <1>1. Len(tr) \in Nat /\ \A i \in 1 .. Len(tr) : tr[i] \in TraceStep
    BY DEF Trace
  <1>2. QED
    BY <1>1 DEF TraceStep

(* What a step belongs to does not change when a trace grows.              *)
LEMMA GrowsOn ==
    ASSUME NEW tr \in Trace, NEW more \in Trace, NEW d \in Nat, Len(tr) <= Len(more),
           \A k \in 1 .. Len(tr) : more[k] = tr[k],
           NEW i \in 1 .. Len(tr), Belongs(tr, i, d)
    PROVE  Belongs(more, i, d)
  <1>1. ASSUME NEW e, NEW j \in Nat, IsNext(tr, i, e, j)
        PROVE  IsNext(more, i, e, j) /\ more[j] = tr[j] /\ OwnBefore(more, d, j) = OwnBefore(tr, d, j)
    <2>1. Len(tr) \in Nat /\ Len(more) \in Nat
      BY DEF Trace
    <2>2. j \in i + 1 .. Len(tr) /\ \A k \in 1 .. j : more[k] = tr[k]
      BY <1>1, <2>1 DEF IsNext
    <2>3. IsNext(more, i, e, j) /\ more[j] = tr[j]
      BY <1>1, <2>1, <2>2 DEF IsNext
    <2>4. OwnBefore(more, d, j) = OwnBefore(tr, d, j)
      BY <2>1, <2>2 DEF OwnBefore
    <2>5. QED
      BY <2>3, <2>4
  <1>2. more[i] = tr[i] /\ \A e \in d .. tr[i].depth - 1 : \E j \in i + 1 .. Len(more) : more[j].depth = e
    BY DEF Trace, Belongs
  <1>3. QED
    BY <1>1, <1>2 DEF Belongs

LEMMA OwnIsFinite ==
    ASSUME NEW tr \in Trace, NEW d, NEW j \in Nat
    PROVE  IsFiniteSet(OwnBefore(tr, d, j)) /\ Cardinality(OwnBefore(tr, d, j)) \in Nat
  <1>1. IsFiniteSet(1 .. j - 1) /\ OwnBefore(tr, d, j) \in SUBSET (1 .. j - 1)
    BY FS_Interval DEF OwnBefore
  <1>2. QED
    BY <1>1, FS_Subset, FS_CardinalityType

(* One more step of the run itself.                                        *)
LEMMA OwnStepReads ==
    ASSUME NEW tr \in Trace, NEW d \in Nat, NEW e \in TraceStep, e.depth = d, e.index = Len(tr), Reads(tr, d)
    PROVE  /\ Reads(Append(tr, e), d)
           /\ Cardinality(Own(Append(tr, e), d)) = Cardinality(Own(tr, d)) + 1
  <1> DEFINE more == Append(tr, e)
  <1>1. /\ more \in Trace /\ Len(tr) \in Nat /\ Len(more) = Len(tr) + 1 /\ more[Len(tr) + 1] = e
        /\ \A k \in 1 .. Len(tr) : more[k] = tr[k]
    BY DEF Trace
  <1> HIDE DEF more
  <1>2. Reads(more, d)
    <2> SUFFICES ASSUME NEW i \in 1 .. Len(more)
                 PROVE  /\ more[i].index = i - 1 /\ more[i].depth >= d
                        /\ more[i].depth > d => Belongs(more, i, d)
      BY DEF Reads
    <2>1. CASE i = Len(tr) + 1
      BY <1>1, <2>1
    <2>2. CASE i \in 1 .. Len(tr)
      <3>1. tr[i].index = i - 1 /\ tr[i].depth >= d /\ (tr[i].depth > d => Belongs(tr, i, d))
        BY <2>2 DEF Reads
      <3>2. Len(tr) <= Len(more)
        BY <1>1
      <3>3. Belongs(tr, i, d) => Belongs(more, i, d)
        BY <1>1, <2>2, <3>2, GrowsOn
      <3>4. QED
        BY <1>1, <2>2, <3>1, <3>3
    <2>3. QED
      BY <1>1, <2>1, <2>2
  <1>3. Own(more, d) = Own(tr, d) \cup {Len(tr) + 1} /\ Len(tr) + 1 \notin Own(tr, d)
    BY <1>1 DEF Own, OwnBefore
  <1>4. Cardinality(Own(more, d)) = Cardinality(Own(tr, d)) + 1
    BY <1>1, <1>3, OwnIsFinite, FS_AddElement DEF Own
  <1>5. QED
    BY <1>2, <1>4 DEF more

LEMMA CostsType ==
    ASSUME NEW tr \in Trace, NEW d
    PROVE  /\ CostsAt(tr, d) \in Seq(Nat) /\ Len(CostsAt(tr, d)) = Len(tr)
           /\ Total(CostsAt(tr, d)) \in Nat
  <1>1. Len(tr) \in Nat /\ \A i \in 1 .. Len(tr) : tr[i].calls \in Nat
    BY StepsOf
  <1>2. CostsAt(tr, d) \in Seq(Nat) /\ Len(CostsAt(tr, d)) = Len(tr)
    BY <1>1 DEF CostsAt
  <1>3. QED
    BY <1>2, TotalType

LEMMA OwnStepCosts ==
    ASSUME NEW tr \in Trace, NEW e \in TraceStep
    PROVE  Total(CostsAt(Append(tr, e), e.depth)) = Total(CostsAt(tr, e.depth)) + e.calls
  <1> DEFINE d == e.depth
  <1>1. e.calls \in Nat /\ Len(tr) \in Nat /\ \A i \in 1 .. Len(tr) : tr[i].calls \in Nat
    BY StepsOf DEF TraceStep
  <1> DEFINE more == Append(tr, e)
  <1>2. /\ Len(more) = Len(tr) + 1 /\ more[Len(tr) + 1] = e
        /\ \A k \in 1 .. Len(tr) : more[k] = tr[k]
    BY DEF Trace
  <1> HIDE DEF more
  <1>3. CostsAt(more, d) = Append(CostsAt(tr, d), e.calls)
    <2> DEFINE c == CostsAt(tr, d)
    <2>1. c \in Seq(Nat) /\ Len(c) = Len(tr)
      BY CostsType
    <2>2. \A i \in 1 .. Len(tr) : c[i] = IF tr[i].depth = d THEN tr[i].calls ELSE 0
      BY DEF CostsAt
    <2> HIDE DEF c
    <2>3. /\ Append(c, e.calls) \in Seq(Nat) /\ Len(Append(c, e.calls)) = Len(tr) + 1
          /\ Append(c, e.calls)[Len(tr) + 1] = e.calls
          /\ \A i \in 1 .. Len(tr) : Append(c, e.calls)[i] = c[i]
      BY <1>1, <2>1, AppendProperties
    <2>4. /\ CostsAt(more, d) \in Seq(Nat) /\ Len(CostsAt(more, d)) = Len(tr) + 1
          /\ \A i \in 1 .. Len(tr) + 1 : CostsAt(more, d)[i] = IF more[i].depth = d THEN more[i].calls ELSE 0
      BY <1>1, <1>2 DEF CostsAt
    <2>5. \A i \in 1 .. Len(tr) + 1 : CostsAt(more, d)[i] = Append(c, e.calls)[i]
      BY <1>1, <1>2, <2>2, <2>3, <2>4, SMTT(30)
    <2>6. CostsAt(more, d) = Append(c, e.calls)
      BY <1>1, <2>3, <2>4, <2>5, SeqEqual
    <2>7. QED
      BY <2>6 DEF c
  <1>4. QED
    BY <1>1, <1>3, CostsType, TotalOfAppend DEF more

(* A step that a frame in its turn records, for what it has cost.          *)
LEMMA Recorded ==
    ASSUME TypeOK, NEW f \in FrameType, NEW op \in Ops, NEW left \in 0 .. remaining,
           f.before <= Calls(remaining),
           NEW g \in FrameType, g.trace = Push(f, op, left).trace, Reads(f.trace, Depth)
    PROVE  /\ Reads(g.trace, Depth)
           /\ Cardinality(Own(g.trace, Depth)) = Cardinality(Own(f.trace, Depth)) + 1
           /\ Total(CostsAt(g.trace, Depth)) = Total(CostsAt(f.trace, Depth)) + Cost(f, left)
           /\ Total(CostsAt(f.trace, Depth)) \in Nat /\ Cost(f, left) \in Nat
           /\ Cardinality(Own(f.trace, Depth)) \in Nat
  <1> DEFINE e == [index |-> Len(f.trace), depth |-> Depth, op |-> op, parent |-> None,
                   calls |-> Cost(f, left)]
  <1>1. g.trace = Append(f.trace, e)
    BY DEF Push, FrameType
  <1>2. f.trace \in Trace /\ Len(f.trace) \in Nat
    BY DEF FrameType, Trace
  <1>3. Cost(f, left) \in Nat
    BY CostType DEF Paid
  <1>4. e \in TraceStep /\ e.depth = Depth /\ e.index = Len(f.trace) /\ e.calls = Cost(f, left)
    BY <1>2, <1>3, TopType DEF TraceStep
  <1> HIDE DEF e
  <1>5. Reads(g.trace, Depth) /\ Cardinality(Own(g.trace, Depth)) = Cardinality(Own(f.trace, Depth)) + 1
    BY <1>1, <1>2, <1>4, TopType, OwnStepReads
  <1>6. Total(CostsAt(g.trace, Depth)) = Total(CostsAt(f.trace, Depth)) + Cost(f, left)
    BY <1>1, <1>2, <1>4, OwnStepCosts
  <1>7. Total(CostsAt(f.trace, Depth)) \in Nat
    BY <1>2, CostsType
  <1>8. Cardinality(Own(f.trace, Depth)) \in Nat
    BY <1>2, OwnIsFinite DEF Own
  <1>9. QED
    BY <1>3, <1>5, <1>6, <1>7, <1>8

-----------------------------------------------------------------------------
(* The steps that change the top frame alone.                              *)
LEMMA TopInv ==
    ASSUME IInv
    PROVE  /\ Top \in FrameType /\ Depth \in Nat /\ Top = stack[Len(stack)]
           /\ FrameInv(Top, Depth, remaining, elapsed)
           /\ remaining \in 0 .. MaxCalls /\ elapsed \in BOOLEAN
  <1>1. TypeOK /\ Len(stack) \in 1 .. Len(stack) /\ Depth = Len(stack) - 1
    BY TopType DEF IInv, Depth
  <1>2. FrameInv(stack[Len(stack)], Len(stack) - 1, remaining, elapsed)
    BY <1>1 DEF IInv
  <1>3. QED
    BY <1>1, <1>2, TopType DEF Top, TypeOK

(* The fields that no such step writes.                                    *)
SameRun(f, g) == g.ctx = f.ctx /\ g.start = f.start /\ g.recursions = f.recursions

(* A step of the loop is over, and the next one begins.                    *)
LEMMA GoesOn ==
    ASSUME IInv, Top.place \in {"calling", "mapping"},
           NEW op \in Ops, NEW left \in 0 .. remaining,
           remaining' = left, elapsed' = elapsed, okNested' = okNested,
           NEW g \in FrameType, SetTop(g), SameRun(Top, g),
           g.place = "head", g.step = Top.step + 1, g.before = Top.before,
           g.status = Top.status, g.cites = Top.cites, g.forced = Top.forced,
           g.trace = Push(Top, op, left).trace,
           g.pending \subseteq Chunks(Top),
           Top.observed \subseteq g.observed, g.observed \subseteq g.read \cup g.blank
    PROVE  IInv'
  <1>1. TypeOK /\ FrameInv(Top, Depth, remaining, elapsed) /\ Top \in FrameType /\ Depth \in Nat
    BY TopInv DEF IInv
  <1>2. OnlyTop(g)
    BY <1>1, SetsTop
  <1>3. Paced(g, Depth, left, elapsed)
    <2>1. Top.step \in Nat /\ StepsAt(Depth) \in Nat /\ Top.step < StepsAt(Depth)
      BY <1>1, Numbers DEF FrameType, StepsAt, FrameInv, Paced, InTurn
    <2>2. Top.status = "budget" /\ ~Top.forced
      BY <1>1 DEF FrameInv, Paced, FrameType
    <2>3. QED
      BY <2>1, <2>2 DEF Paced, InTurn
  <1>4. Evident(g)
    BY <1>1 DEF FrameInv, Evident, Chunks, Grounded, SameRun
  <1>5. Earned(g, Depth)
    BY <1>1 DEF FrameInv, Paced, Earned
  <1>6. Top.before <= Calls(remaining) /\ Reads(Top.trace, Depth)
    BY <1>1 DEF FrameInv, Billed, Nests
  <1>7. /\ Reads(g.trace, Depth)
        /\ Cardinality(Own(g.trace, Depth)) = Cardinality(Own(Top.trace, Depth)) + 1
        /\ Total(CostsAt(g.trace, Depth)) = Total(CostsAt(Top.trace, Depth)) + Cost(Top, left)
        /\ Total(CostsAt(Top.trace, Depth)) \in Nat /\ Cost(Top, left) \in Nat
    BY <1>1, <1>6, Recorded
  <1>8. Billed(g, Depth, left)
    <2>1. Total(CostsAt(Top.trace, Depth)) = Top.before - Top.start
      BY <1>1 DEF FrameInv, Billed, InTurn
    <2>2. Calls(remaining) \in Nat /\ Calls(left) \in Nat /\ Calls(remaining) <= Calls(left)
      BY <1>1, Numbers DEF TypeOK, Calls
    <2>3. Top.before \in Nat /\ Top.start \in Nat /\ Top.start <= Calls(remaining)
      BY <1>1 DEF FrameType, FrameInv, Billed
    <2>4. Total(CostsAt(g.trace, Depth)) = Calls(left) - Top.start
      BY <1>7, <2>1, <2>2, <2>3 DEF Cost
    <2>5. QED
      BY <1>6, <2>2, <2>3, <2>4 DEF Billed, InTurn, SameRun
  <1>9. Nests(g, Depth)
    BY <1>1, <1>7 DEF FrameInv, Nests, InTurn
  <1>10. QED
    BY <1>2, <1>3, <1>4, <1>5, <1>8, <1>9, TopChanges, TopInv DEF FrameInv, SameRun

(* A step that leaves the loop with the step it records.                   *)
LEMMA LeavesLoop ==
    ASSUME IInv, Top.place = "calling",
           NEW op \in Ops, NEW left \in 0 .. remaining,
           remaining' = left, elapsed' = elapsed, okNested' = okNested,
           NEW g \in FrameType, SetTop(g), SameRun(Top, g),
           g.place = "exit", g.step = Top.step, g.before = Top.before, g.forced = Top.forced,
           g.observed = Top.observed, g.read = Top.read /\ g.blank = Top.blank, g.pending = Top.pending,
           g.trace = Push(Top, op, left).trace,
           g.status = "budget" => left = 0 \/ elapsed,
           g.status = "ok" => g.answer = "planned" /\ Valid(Top, g.cites),
           g.status # "ok" => g.cites = Top.cites,
           g.cites \subseteq Chunks(Top)
    PROVE  IInv'
  <1>1. TypeOK /\ FrameInv(Top, Depth, remaining, elapsed) /\ Top \in FrameType /\ Depth \in Nat
    BY TopInv DEF IInv
  <1>2. OnlyTop(g)
    BY <1>1, SetsTop
  <1>3. Paced(g, Depth, left, elapsed)
    BY <1>1 DEF FrameInv, Paced, InTurn
  <1>4. Evident(g)
    BY <1>1 DEF FrameInv, Evident, Chunks, Grounded, SameRun, Valid
  <1>5. Earned(g, Depth)
    BY <1>1 DEF Earned, Valid, SameRun
  <1>6. Top.before <= Calls(remaining) /\ Reads(Top.trace, Depth)
    BY <1>1 DEF FrameInv, Billed, Nests
  <1>7. /\ Reads(g.trace, Depth)
        /\ Total(CostsAt(g.trace, Depth)) = Total(CostsAt(Top.trace, Depth)) + Cost(Top, left)
        /\ Total(CostsAt(Top.trace, Depth)) \in Nat /\ Cost(Top, left) \in Nat
    BY <1>1, <1>6, Recorded
  <1>8. Billed(g, Depth, left)
    <2>1. Total(CostsAt(Top.trace, Depth)) = Top.before - Top.start
      BY <1>1 DEF FrameInv, Billed, InTurn
    <2>2. Calls(remaining) \in Nat /\ Calls(left) \in Nat /\ Calls(remaining) <= Calls(left)
      BY <1>1, Numbers DEF TypeOK, Calls
    <2>3. Top.before \in Nat /\ Top.start \in Nat /\ Top.start <= Calls(remaining)
      BY <1>1 DEF FrameType, FrameInv, Billed
    <2>4. Total(CostsAt(g.trace, Depth)) = Calls(left) - Top.start
      BY <1>7, <2>1, <2>2, <2>3 DEF Cost
    <2>5. QED
      BY <1>6, <2>2, <2>3, <2>4 DEF Billed, InTurn, SameRun
  <1>9. Nests(g, Depth)
    BY <1>7 DEF Nests, InTurn
  <1>10. QED
    BY <1>2, <1>3, <1>4, <1>5, <1>8, <1>9, TopChanges, TopInv DEF FrameInv, SameRun

-----------------------------------------------------------------------------
(* Each of these steps.                                                    *)

LEMMA PushFields ==
    ASSUME NEW f \in FrameType, NEW op, NEW left
    PROVE  LET g == Push(f, op, left)
           IN  /\ SameRun(f, g) /\ g.place = f.place /\ g.step = f.step /\ g.before = f.before
               /\ g.status = f.status /\ g.answer = f.answer /\ g.cites = f.cites
               /\ g.forced = f.forced /\ g.observed = f.observed /\ g.read = f.read /\ g.blank = f.blank
               /\ g.pending = f.pending /\ g.leaves = f.leaves /\ g.found = f.found
  BY DEF FrameType, Push, SameRun

LEMMA ContinueFields ==
    ASSUME TypeOK, NEW f \in FrameType, Paid(f), NEW op \in Ops, NEW left \in 0 .. remaining
    PROVE  LET g == Continue(f, op, left)
           IN  /\ g \in FrameType
               /\ SameRun(f, g) /\ g.place = "head" /\ g.step = f.step + 1 /\ g.before = f.before
               /\ g.status = f.status /\ g.answer = f.answer /\ g.cites = f.cites
               /\ g.forced = f.forced /\ g.observed = f.observed /\ g.read = f.read /\ g.blank = f.blank
               /\ g.pending = f.pending /\ g.leaves = f.leaves /\ g.found = f.found
               /\ g.trace = Push(f, op, left).trace
  <1> DEFINE p == Push(f, op, left)
  <1>1. p \in FrameType /\ Continue(f, op, left) = [p EXCEPT !.place = "head", !.step = @ + 1]
    BY PushType DEF Continue
  <1>2. /\ SameRun(f, p) /\ p.step = f.step /\ p.before = f.before
        /\ p.status = f.status /\ p.answer = f.answer /\ p.cites = f.cites
        /\ p.forced = f.forced /\ p.observed = f.observed /\ p.read = f.read /\ p.blank = f.blank
        /\ p.pending = f.pending /\ p.leaves = f.leaves /\ p.found = f.found
    BY PushFields
  <1>3. Continue(f, op, left) \in FrameType
    BY ContinueType
  <1> HIDE DEF p
  <1>4. LET g == Continue(f, op, left)
        IN  /\ SameRun(f, g) /\ g.place = "head" /\ g.step = f.step + 1 /\ g.before = f.before
            /\ g.status = f.status /\ g.answer = f.answer /\ g.cites = f.cites
            /\ g.forced = f.forced /\ g.observed = f.observed /\ g.read = f.read /\ g.blank = f.blank
            /\ g.pending = f.pending /\ g.leaves = f.leaves /\ g.found = f.found
            /\ g.trace = p.trace
    BY <1>1, <1>2 DEF FrameType, SameRun
  <1>5. QED
    BY <1>3, <1>4 DEF p

(* What a frame in its turn satisfies.                                     *)
LEMMA TopFacts ==
    ASSUME IInv
    PROVE  /\ TypeOK /\ Top \in FrameType /\ Paid(Top) /\ Depth \in Nat
           /\ Paced(Top, Depth, remaining, elapsed) /\ Evident(Top) /\ Earned(Top, Depth)
           /\ Billed(Top, Depth, remaining) /\ Nests(Top, Depth)
           /\ remaining \in 0 .. MaxCalls /\ elapsed \in BOOLEAN
           /\ Top.step \in Nat /\ StepsAt(Depth) \in Nat
           /\ Calls(remaining) \in Nat
  <1>1. /\ TypeOK /\ Top \in FrameType /\ Depth \in Nat
        /\ FrameInv(Top, Depth, remaining, elapsed)
        /\ remaining \in 0 .. MaxCalls /\ elapsed \in BOOLEAN
    BY TopInv DEF IInv
  <1>2. Top.step \in Nat /\ StepsAt(Depth) \in Nat
    BY <1>1, Numbers DEF FrameType, StepsAt
  <1>3. Calls(remaining) \in Nat
    BY <1>1, Numbers DEF Calls
  <1>4. QED
    BY <1>1, <1>2, <1>3 DEF FrameInv, Paid, Billed

(* A step that records nothing and changes no evidence.                    *)
LEMMA MovesOn ==
    ASSUME IInv, UNCHANGED <<remaining, elapsed, okNested>>,
           NEW g \in FrameType, SetTop(g), SameRun(Top, g), g.place # "nested",
           g.trace = Top.trace, g.observed = Top.observed, g.read = Top.read /\ g.blank = Top.blank,
           g.pending \subseteq Chunks(Top), g.cites = Top.cites,
           Earned(g, Depth), Paced(g, Depth, remaining, elapsed),
           Billed(g, Depth, remaining),
           g.place \in {"head"} \cup InTurn => g.step = Top.step /\ Top.place \in {"head"} \cup InTurn
    PROVE  IInv'
  <1>1. TypeOK /\ Evident(Top) /\ Nests(Top, Depth) /\ remaining \in 0 .. MaxCalls /\ elapsed \in BOOLEAN
    BY TopFacts
  <1>2. OnlyTop(g)
    BY <1>1, SetsTop
  <1>3. Evident(g)
    BY <1>1 DEF Evident, Chunks, Grounded, SameRun
  <1>4. Nests(g, Depth)
    BY <1>1 DEF Nests
  <1>5. remaining' \in 0 .. remaining /\ elapsed' = elapsed
    BY <1>1
  <1>6. QED
    BY <1>1, <1>2, <1>3, <1>4, <1>5, TopChanges DEF FrameInv, SameRun

LEMMA TurnBeginInv == ASSUME IInv, TurnBegin PROVE IInv'
  <1> DEFINE g == [Top EXCEPT !.place = "calling", !.before = Calls(remaining)]
  <1>1. /\ SetTop(g) /\ UNCHANGED <<remaining, elapsed, okNested>>
        /\ Top.place = "head" /\ Bounded(Top)
    BY DEF TurnBegin
  <1>2. g \in FrameType
    BY TopFacts DEF FrameType
  <1>3. /\ SameRun(Top, g) /\ g.place = "calling" /\ g.step = Top.step /\ g.before = Calls(remaining)
        /\ g.trace = Top.trace /\ g.observed = Top.observed /\ g.read = Top.read /\ g.blank = Top.blank
        /\ g.pending = Top.pending /\ g.cites = Top.cites /\ g.status = Top.status
        /\ g.answer = Top.answer /\ g.forced = Top.forced
    BY TopFacts DEF FrameType, SameRun
  <1> HIDE DEF g
  <1>4. Top.status = "budget" /\ ~Top.forced
    BY <1>1, TopFacts DEF Paced
  <1>5. Earned(g, Depth) /\ Paced(g, Depth, remaining, elapsed)
    BY <1>1, <1>3, <1>4, TopFacts DEF Earned, Paced, Bounded, InTurn
  <1>6. Billed(g, Depth, remaining)
    BY <1>1, <1>3, TopFacts DEF Billed, SameRun, InTurn
  <1>7. g.pending \subseteq Chunks(Top)
    BY <1>3, TopFacts DEF Evident
  <1>8. g.place # "nested" /\ Top.place \in {"head"} \cup InTurn
    BY <1>1, <1>3
  <1>9. QED
    BY <1>1, <1>2, <1>3, <1>5, <1>6, <1>7, <1>8, MovesOn

LEMMA PlannerFailsInv == ASSUME IInv, PlannerFails PROVE IInv'
  <1>1. PICK outcome \in {"host", "deadline", "callBudget"}, left \in 0 .. MaxCalls :
          /\ Failure(outcome, left)
          /\ remaining' = left
          /\ SetTop([Push(Top, "plan", left) EXCEPT
                         !.place = "exit",
                         !.status = StatusOfError(outcome),
                         !.answer = IF outcome = "host" THEN "error" ELSE @])
    BY DEF PlannerFails
  <1>2. Top.place = "calling" /\ UNCHANGED <<elapsed, okNested>>
    BY DEF PlannerFails
  <1>3. left \in 0 .. remaining
    BY <1>1, TopFacts DEF Failure
  <1> DEFINE p == Push(Top, "plan", left)
             g == [p EXCEPT !.place = "exit",
                            !.status = StatusOfError(outcome),
                            !.answer = IF outcome = "host" THEN "error" ELSE @]
  <1>4. p \in FrameType
    BY <1>3, TopFacts, PushType DEF Ops
  <1>5. SetTop(g)
    BY <1>1
  <1>6. /\ SameRun(Top, p) /\ p.step = Top.step /\ p.before = Top.before
        /\ p.cites = Top.cites /\ p.forced = Top.forced /\ p.observed = Top.observed
        /\ p.read = Top.read /\ p.blank = Top.blank /\ p.pending = Top.pending
    BY TopFacts, PushFields
  <1> HIDE DEF p
  <1>7. /\ g \in FrameType
        /\ SameRun(Top, g) /\ g.place = "exit" /\ g.step = Top.step /\ g.before = Top.before
        /\ g.cites = Top.cites /\ g.forced = Top.forced /\ g.observed = Top.observed
        /\ g.read = Top.read /\ g.blank = Top.blank /\ g.pending = Top.pending /\ g.trace = p.trace
        /\ g.status = StatusOfError(outcome)
    BY <1>4, <1>6 DEF FrameType, SameRun, StatusOfError
  <1> HIDE DEF g
  <1>8. g.status # "ok" /\ (g.status = "budget" => left = 0 \/ elapsed)
    BY <1>1, <1>7, TopFacts DEF Failure, StatusOfError
  <1>9. g.cites \subseteq Chunks(Top)
    BY <1>7, TopFacts DEF Evident
  <1>10. QED
    BY <1>1, <1>2, <1>3, <1>5, <1>7, <1>8, <1>9, LeavesLoop DEF p, Ops

(* A reply after which the loop goes on with what it knew, and with what a *)
(* peek adds to it.                                                        *)
LEMMA RepliesWith ==
    ASSUME IInv, NEW op \in Ops,
           NEW seen \in SUBSET Span, NEW shown \in SUBSET Span, NEW blank \in SUBSET Span,
           seen \subseteq shown \cup blank,
           NEW g, Reply(g),
           g = [Continue(Top, op, remaining - 1) EXCEPT
                  !.observed = @ \cup seen, !.read = @ \cup shown, !.blank = @ \cup blank]
    PROVE  IInv'
  <1>1. Top.place = "calling" /\ remaining - 1 \in 0 .. remaining
    BY TopFacts DEF Reply, PlannerReplies
  <1> DEFINE c == Continue(Top, op, remaining - 1)
  <1>2. /\ c \in FrameType
        /\ SameRun(Top, c) /\ c.place = "head" /\ c.step = Top.step + 1
        /\ c.before = Top.before /\ c.status = Top.status /\ c.cites = Top.cites
        /\ c.forced = Top.forced /\ c.pending = Top.pending
        /\ c.trace = Push(Top, op, remaining - 1).trace
        /\ c.observed = Top.observed /\ c.read = Top.read /\ c.blank = Top.blank
    BY <1>1, TopFacts, ContinueFields
  <1>3. g = [c EXCEPT !.observed = @ \cup seen, !.read = @ \cup shown, !.blank = @ \cup blank]
    OBVIOUS
  <1> HIDE DEF c
  <1>4. /\ g \in FrameType
        /\ SameRun(Top, g) /\ g.place = "head" /\ g.step = Top.step + 1
        /\ g.before = Top.before /\ g.status = Top.status /\ g.cites = Top.cites
        /\ g.forced = Top.forced /\ g.pending = Top.pending
        /\ g.trace = Push(Top, op, remaining - 1).trace
        /\ g.observed = Top.observed \cup seen
        /\ g.read = Top.read \cup shown /\ g.blank = Top.blank \cup blank
    <2> DEFINE p == [[c EXCEPT !.observed = @ \cup seen] EXCEPT !.read = @ \cup shown]
               q == [p EXCEPT !.blank = @ \cup blank]
    <2>1. /\ p \in FrameType
          /\ SameRun(Top, p) /\ p.place = "head" /\ p.step = Top.step + 1
          /\ p.before = Top.before /\ p.status = Top.status /\ p.cites = Top.cites
          /\ p.forced = Top.forced /\ p.pending = Top.pending /\ p.trace = c.trace
          /\ p.observed = Top.observed \cup seen
          /\ p.read = Top.read \cup shown /\ p.blank = Top.blank
      BY <1>2 DEF FrameType, SameRun
    <2>2. g = q
      BY <1>2, <1>3 DEF FrameType
    <2> HIDE DEF p
    <2>3. /\ q \in FrameType
          /\ SameRun(Top, q) /\ q.place = "head" /\ q.step = Top.step + 1
          /\ q.before = Top.before /\ q.status = Top.status /\ q.cites = Top.cites
          /\ q.forced = Top.forced /\ q.pending = Top.pending /\ q.trace = c.trace
          /\ q.observed = Top.observed \cup seen
          /\ q.read = Top.read \cup shown /\ q.blank = Top.blank \cup blank
      BY <2>1 DEF FrameType, SameRun
    <2>4. QED
      BY <1>2, <2>2, <2>3
  <1>5. /\ SetTop(g) /\ remaining' = remaining - 1 /\ elapsed' = elapsed /\ okNested' = okNested
    BY DEF Reply, PlannerReplies
  <1>6. /\ g.pending \subseteq Chunks(Top)
        /\ Top.observed \subseteq g.observed /\ g.observed \subseteq g.read \cup g.blank
    BY <1>4, TopFacts DEF Evident
  <1>7. QED
    BY <1>1, <1>4, <1>5, <1>6, GoesOn

(* A reply that brings no evidence.                                        *)
LEMMA RepliesAndGoesOn ==
    ASSUME IInv, NEW op \in Ops, Reply(Continue(Top, op, remaining - 1))
    PROVE  IInv'
  <1> DEFINE g == Continue(Top, op, remaining - 1)
  <1>1. remaining - 1 \in 0 .. remaining
    BY TopFacts DEF Reply, PlannerReplies
  <1>2. g \in FrameType
    BY <1>1, TopFacts, ContinueFields
  <1>3. Reply(g)
    OBVIOUS
  <1>4. g = [g EXCEPT !.observed = @ \cup {}, !.read = @ \cup {}, !.blank = @ \cup {}]
    <2> HIDE DEF g
    <2>1. QED
      BY <1>2 DEF FrameType
  <1>5. g = [Continue(Top, op, remaining - 1) EXCEPT
               !.observed = @ \cup {}, !.read = @ \cup {}, !.blank = @ \cup {}]
    BY <1>4
  <1> HIDE DEF g
  <1>6. {} \in SUBSET Span /\ {} \subseteq {} \cup {}
    OBVIOUS
  <1>7. QED
    BY <1>3, <1>5, <1>6, RepliesWith, ZenonT(60)

LEMMA ReplyInvalidInv == ASSUME IInv, ReplyInvalid PROVE IInv'
  BY RepliesAndGoesOn DEF ReplyInvalid, Ops

LEMMA ReplyLookInv == ASSUME IInv, ReplyLook PROVE IInv'
  BY RepliesAndGoesOn DEF ReplyLook, Ops

LEMMA ReplyRecurseRefusedInv == ASSUME IInv, ReplyRecurseRefused PROVE IInv'
  BY RepliesAndGoesOn DEF ReplyRecurseRefused, Ops

(* The chunks of the context are spans.                                    *)
LEMMA ChunkSpan == ASSUME NEW f \in FrameType, NEW c \in Chunks(f) PROVE f.ctx[c] \in Span
  BY DEF FrameType, Chunks

LEMMA ReplyPeekInv == ASSUME IInv, ReplyPeek PROVE IInv'
  <1>1. PICK c \in Chunks(Top), start \in {"within", "past"}, len \in {"some", "none"} :
          LET s == {Top.ctx[c]}
              shown == IF Shows(start, len) THEN s ELSE {}
              blank == IF start = "within" THEN s \ shown ELSE {}
          IN  Reply([Continue(Top, "look", remaining - 1) EXCEPT
                       !.observed = @ \cup (IF Grounds(start) THEN s ELSE {}),
                       !.read = @ \cup shown, !.blank = @ \cup blank])
    BY DEF ReplyPeek
  <1> DEFINE s == {Top.ctx[c]}
             seen == IF Grounds(start) THEN s ELSE {}
             shown == IF Shows(start, len) THEN s ELSE {}
             blank == IF start = "within" THEN s \ shown ELSE {}
  <1>2. s \in SUBSET Span
    BY TopFacts, ChunkSpan
  <1>3. seen \in SUBSET Span /\ shown \in SUBSET Span /\ blank \in SUBSET Span
        /\ seen \subseteq shown \cup blank
    BY <1>2 DEF Grounds
  <1> DEFINE g == [Continue(Top, "look", remaining - 1) EXCEPT
                     !.observed = @ \cup seen, !.read = @ \cup shown, !.blank = @ \cup blank]
  <1>4. Reply(g)
    BY <1>1
  <1>5. g = [Continue(Top, "look", remaining - 1) EXCEPT
               !.observed = @ \cup seen, !.read = @ \cup shown, !.blank = @ \cup blank]
    OBVIOUS
  <1>6. "look" \in Ops
    BY DEF Ops
  <1> HIDE DEF s, seen, shown, blank, g
  <1>7. QED
    BY <1>3, <1>4, <1>5, <1>6, RepliesWith, ZenonT(60)

LEMMA ReplyFinalInv == ASSUME IInv, ReplyFinal PROVE IInv'
  <1>1. PICK C \in SUBSET Chunks(Top) :
          \/ /\ Valid(Top, C)
             /\ Reply([Push(Top, "final", remaining - 1) EXCEPT
                         !.place = "exit", !.status = "ok",
                         !.answer = "planned", !.cites = C])
          \/ /\ ~Valid(Top, C)
             /\ Reply(Continue(Top, "final(rejected)", remaining - 1))
    BY DEF ReplyFinal
  <1>2. CASE ~Valid(Top, C)
    BY <1>1, <1>2, RepliesAndGoesOn DEF Ops
  <1>3. CASE Valid(Top, C)
    <2> DEFINE p == Push(Top, "final", remaining - 1)
               g == [p EXCEPT !.place = "exit", !.status = "ok",
                              !.answer = "planned", !.cites = C]
    <2>1. Reply(g)
      BY <1>1, <1>3
    <2>2. /\ Top.place = "calling" /\ remaining - 1 \in 0 .. remaining /\ SetTop(g)
          /\ remaining' = remaining - 1 /\ elapsed' = elapsed /\ okNested' = okNested
      BY <2>1, TopFacts DEF Reply, PlannerReplies
    <2>3. p \in FrameType
      BY <2>2, TopFacts, PushType DEF Ops
    <2>4. /\ SameRun(Top, p) /\ p.step = Top.step /\ p.before = Top.before
          /\ p.forced = Top.forced /\ p.observed = Top.observed
          /\ p.read = Top.read /\ p.blank = Top.blank /\ p.pending = Top.pending
      BY TopFacts, PushFields
    <2>5. C \subseteq Nat
      BY TopFacts DEF Chunks, FrameType
    <2> HIDE DEF p
    <2>6. /\ g \in FrameType
          /\ SameRun(Top, g) /\ g.place = "exit" /\ g.step = Top.step /\ g.before = Top.before
          /\ g.forced = Top.forced /\ g.observed = Top.observed
          /\ g.read = Top.read /\ g.blank = Top.blank /\ g.pending = Top.pending /\ g.trace = p.trace
          /\ g.status = "ok" /\ g.answer = "planned" /\ g.cites = C
      BY <2>3, <2>4, <2>5 DEF FrameType, SameRun
    <2> HIDE DEF g
    <2>7. QED
      BY <1>3, <2>2, <2>6, LeavesLoop DEF p, Ops
  <1>4. QED
    BY <1>2, <1>3

LEMMA ReplyMapInv == ASSUME IInv, ReplyMap PROVE IInv'
  <1>1. PICK C \in SUBSET Chunks(Top) \ {{}}, n \in 1 .. MaxFanout :
          Reply([Top EXCEPT !.place = "mapping", !.pending = C, !.leaves = n])
    BY DEF ReplyMap
  <1> DEFINE g == [Top EXCEPT !.place = "mapping", !.pending = C, !.leaves = n]
  <1>2. /\ Top.place = "calling" /\ remaining > 0 /\ SetTop(g)
        /\ remaining' = remaining - 1 /\ elapsed' = elapsed /\ okNested' = okNested
    BY <1>1 DEF Reply, PlannerReplies
  <1>3. C \subseteq Nat /\ n \in 0 .. MaxFanout
    BY TopFacts, Numbers, SMTT(30) DEF Chunks, FrameType
  <1>4. /\ g \in FrameType
        /\ SameRun(Top, g) /\ g.place = "mapping" /\ g.step = Top.step /\ g.before = Top.before
        /\ g.trace = Top.trace /\ g.observed = Top.observed /\ g.read = Top.read /\ g.blank = Top.blank
        /\ g.pending = C /\ g.cites = Top.cites /\ g.status = Top.status
        /\ g.answer = Top.answer /\ g.forced = Top.forced
    BY <1>3, TopFacts DEF FrameType, SameRun
  <1> HIDE DEF g
  <1>5. OnlyTop(g)
    BY <1>2, <1>4, TopFacts, SetsTop
  <1>6. remaining' \in 0 .. remaining /\ Calls(remaining - 1) \in Nat /\ Calls(remaining) <= Calls(remaining - 1)
    BY <1>2, TopFacts, Numbers DEF Calls
  <1>7. Paced(g, Depth, remaining - 1, elapsed) /\ Earned(g, Depth)
    BY <1>2, <1>4, TopFacts DEF Paced, Earned, InTurn
  <1>8. Evident(g)
    BY <1>4, TopFacts DEF Evident, Chunks, Grounded, SameRun
  <1>9. Billed(g, Depth, remaining - 1)
    <2>1. Top.before \in Nat /\ Top.start \in Nat
      BY TopFacts DEF FrameType
    <2>2. QED
      BY <1>2, <1>4, <1>6, <2>1, TopFacts DEF Billed, SameRun, InTurn
  <1>10. Nests(g, Depth)
    BY <1>2, <1>4, TopFacts DEF Nests, InTurn
  <1>11. FrameInv(g, Depth, remaining', elapsed')
    BY <1>2, <1>7, <1>8, <1>9, <1>10 DEF FrameInv
  <1>12. g.place # "nested" /\ g.recursions = Top.recursions
    BY <1>4 DEF SameRun
  <1>13. elapsed' \in BOOLEAN /\ (elapsed => elapsed')
    BY <1>2, TopFacts
  <1>14. QED
    BY <1>2, <1>4, <1>5, <1>6, <1>11, <1>12, <1>13, TopChanges

LEMMA MapEndsInv == ASSUME IInv, MapEnds PROVE IInv'
  <1>1. PICK answered \in SUBSET Top.pending, spent \in 0 .. Top.leaves :
          LET most == MostCalls(Top.leaves)
              observed == {Top.ctx[c] : c \in ObservedByMap(Top.pending, answered)}
          IN  /\ spent <= most
              /\ remaining' = remaining - spent
              /\ \E found \in {Top.found, Top.found \/ answered # {}} :
                   SetTop([Continue(Top, "map", remaining - spent) EXCEPT
                             !.pending = {}, !.leaves = 0, !.found = found,
                             !.observed = @ \cup observed,
                             !.read = @ \cup {Top.ctx[c] : c \in answered}])
    BY DEF MapEnds
  <1>2. Top.place = "mapping" /\ elapsed' = elapsed /\ okNested' = okNested
    BY DEF MapEnds
  <1> DEFINE s == {Top.ctx[c] : c \in answered}
             left == remaining - spent
  <1>3. PICK found \in {Top.found, Top.found \/ answered # {}} :
          SetTop([Continue(Top, "map", left) EXCEPT
                    !.pending = {}, !.leaves = 0, !.found = found,
                    !.observed = @ \cup s, !.read = @ \cup s])
    BY <1>1 DEF ObservedByMap
  <1>4. left \in 0 .. remaining /\ remaining' = left
    <2>1. Top.leaves \in Nat
      BY TopFacts, Numbers DEF FrameType
    <2>2. spent \in Nat /\ spent <= remaining
      BY <1>1, <2>1, TopFacts DEF MostCalls
    <2>3. QED
      BY <1>1, <2>2, TopFacts
  <1>5. s \in SUBSET Span
    <2>1. \A c \in answered : c \in Chunks(Top)
      BY TopFacts DEF Evident
    <2>2. QED
      BY <2>1, TopFacts, ChunkSpan
  <1>6. found \in BOOLEAN
    BY TopFacts DEF FrameType
  <1> HIDE DEF s, left
  <1> DEFINE c == Continue(Top, "map", left)
             g == [c EXCEPT !.pending = {}, !.leaves = 0, !.found = found,
                            !.observed = @ \cup s, !.read = @ \cup s]
  <1>7. SetTop(g)
    BY <1>3
  <1>8. /\ c \in FrameType
        /\ SameRun(Top, c) /\ c.place = "head" /\ c.step = Top.step + 1 /\ c.before = Top.before
        /\ c.status = Top.status /\ c.cites = Top.cites /\ c.forced = Top.forced
        /\ c.observed = Top.observed /\ c.read = Top.read /\ c.blank = Top.blank
        /\ c.trace = Push(Top, "map", left).trace
    BY <1>4, TopFacts, ContinueFields, ZenonT(60) DEF Ops
  <1> HIDE DEF c
  <1>9. 0 \in 0 .. MaxFanout
    BY Numbers
  <1>10. /\ g \in FrameType
         /\ SameRun(Top, g) /\ g.place = "head" /\ g.step = Top.step + 1 /\ g.before = Top.before
         /\ g.status = Top.status /\ g.cites = Top.cites /\ g.forced = Top.forced
         /\ g.observed = Top.observed \cup s /\ g.read = Top.read \cup s /\ g.blank = Top.blank
         /\ g.trace = Push(Top, "map", left).trace /\ g.pending = {}
    BY <1>5, <1>6, <1>8, <1>9 DEF FrameType, SameRun
  <1> HIDE DEF g
  <1>11. Top.observed \subseteq g.observed /\ g.observed \subseteq g.read \cup g.blank /\ g.pending \subseteq Chunks(Top)
    BY <1>10, TopFacts DEF Evident
  <1>12. "map" \in Ops /\ Top.place \in {"calling", "mapping"}
    BY <1>2 DEF Ops
  <1>13. QED
    BY <1>2, <1>4, <1>7, <1>10, <1>11, <1>12, GoesOn

(* The loop is left: for the forced turn if that is due, or to be closed.  *)
LEMMA LoopExitInv == ASSUME IInv, LoopExit PROVE IInv'
  <1>1. /\ \/ Top.place = "exit"
           \/ Top.place = "head" /\ ~Bounded(Top)
        /\ UNCHANGED <<remaining, elapsed, okNested>>
    BY Zenon DEF LoopExit
  <1>2. Top.status = "budget" => Top.step = StepsAt(Depth) \/ remaining = 0 \/ elapsed
    BY <1>1, TopFacts DEF Paced, Bounded
  <1>3. ~Top.forced
    BY <1>1, TopFacts DEF Paced
  <1>4. Top.before \in Nat /\ Top.start \in Nat
    BY TopFacts DEF FrameType
  <1>5. CASE ForcedDue(Top)
    <2> DEFINE g == [Top EXCEPT !.place = "forced", !.before = Calls(remaining), !.forced = TRUE]
    <2>1. SetTop(g)
      BY <1>5 DEF LoopExit
    <2>2. /\ g \in FrameType
          /\ SameRun(Top, g) /\ g.place = "forced" /\ g.step = Top.step /\ g.before = Calls(remaining)
          /\ g.trace = Top.trace /\ g.observed = Top.observed /\ g.read = Top.read /\ g.blank = Top.blank
          /\ g.pending = Top.pending /\ g.cites = Top.cites /\ g.status = Top.status
          /\ g.answer = Top.answer /\ g.forced = TRUE
      BY TopFacts DEF FrameType, SameRun
    <2> HIDE DEF g
    <2>3. Earned(g, Depth) /\ Paced(g, Depth, remaining, elapsed)
      BY <1>2, <1>5, <2>2, TopFacts DEF Earned, Paced, InTurn, ForcedDue
    <2>4. Billed(g, Depth, remaining)
      BY <1>1, <1>4, <2>2, TopFacts DEF Billed, InTurn, SameRun
    <2>5. g.pending \subseteq Chunks(Top)
      BY <2>2, TopFacts DEF Evident
    <2>6. g.place # "nested" /\ g.place \notin {"head"} \cup InTurn
      BY <2>2 DEF InTurn
    <2>7. QED
      BY <1>1, <2>1, <2>2, <2>3, <2>4, <2>5, <2>6, MovesOn
  <1>6. CASE ~ForcedDue(Top)
    <2> DEFINE g == [Top EXCEPT !.place = "close"]
    <2>1. SetTop(g)
      BY <1>6 DEF LoopExit
    <2>2. /\ g \in FrameType
          /\ SameRun(Top, g) /\ g.place = "close" /\ g.step = Top.step /\ g.before = Top.before
          /\ g.trace = Top.trace /\ g.observed = Top.observed /\ g.read = Top.read /\ g.blank = Top.blank
          /\ g.pending = Top.pending /\ g.cites = Top.cites /\ g.status = Top.status
          /\ g.answer = Top.answer /\ g.forced = Top.forced
      BY TopFacts DEF FrameType, SameRun
    <2> HIDE DEF g
    <2>3. Earned(g, Depth)
      BY <2>2, TopFacts DEF Earned, SameRun
    <2>4. Paced(g, Depth, remaining, elapsed)
      BY <1>2, <1>3, <2>2, TopFacts DEF Paced, InTurn
    <2>5. Billed(g, Depth, remaining)
      BY <1>1, <1>4, <2>2, TopFacts DEF Billed, InTurn, SameRun
    <2>6. g.pending \subseteq Chunks(Top)
      BY <2>2, TopFacts DEF Evident
    <2>7. g.place # "nested" /\ g.place \notin {"head"} \cup InTurn
      BY <2>2 DEF InTurn
    <2>8. QED
      BY <1>1, <2>1, <2>2, <2>3, <2>5, <2>6, <2>7, <2>4, MovesOn
  <1>7. QED
    BY <1>5, <1>6

LEMMA CloseInv == ASSUME IInv, Close PROVE IInv'
  <1> DEFINE a == IF Top.answer # "none" THEN Top.answer
                  ELSE IF Top.found THEN "findings" ELSE "nothing"
             g == [Top EXCEPT !.place = "done", !.answer = a]
  <1>1. Top.place = "close" /\ SetTop(g) /\ UNCHANGED <<remaining, elapsed, okNested>>
    BY TopFacts DEF Close, FrameType
  <1>2. a \in {"none", "planned", "error", "forced", "findings", "nothing"}
        /\ (Top.answer = "planned" => a = "planned")
    BY TopFacts DEF FrameType
  <1> HIDE DEF a
  <1>3. /\ g \in FrameType
        /\ SameRun(Top, g) /\ g.place = "done" /\ g.step = Top.step /\ g.before = Top.before
        /\ g.trace = Top.trace /\ g.observed = Top.observed /\ g.read = Top.read /\ g.blank = Top.blank
        /\ g.pending = Top.pending /\ g.cites = Top.cites /\ g.status = Top.status
        /\ g.answer = a /\ g.forced = Top.forced
    BY <1>2, TopFacts DEF FrameType, SameRun
  <1> HIDE DEF g
  <1>4. Earned(g, Depth) /\ Paced(g, Depth, remaining, elapsed)
    BY <1>1, <1>2, <1>3, TopFacts DEF Earned, Paced, InTurn, SameRun
  <1>5. Billed(g, Depth, remaining)
    BY <1>1, <1>3, TopFacts DEF Billed, InTurn, SameRun
  <1>6. g.pending \subseteq Chunks(Top)
    BY <1>3, TopFacts DEF Evident
  <1>7. g.place # "nested" /\ g.place \notin {"head"} \cup InTurn
    BY <1>3 DEF InTurn
  <1>8. QED
    BY <1>1, <1>3, <1>4, <1>5, <1>6, <1>7, MovesOn

(* The forced turn is over, with what it cost recorded or not.             *)
LEMMA ForcedEnds ==
    ASSUME IInv, Top.place = "forced", NEW left \in 0 .. remaining,
           remaining' = left, elapsed' = elapsed, okNested' = okNested,
           NEW g \in FrameType, SetTop(g), SameRun(Top, g),
           g.place = "close", g.step = Top.step, g.before = Top.before,
           g.observed = Top.observed, g.read = Top.read /\ g.blank = Top.blank, g.pending = Top.pending,
           g.status = Top.status, g.forced = Top.forced,
           g.cites \subseteq Chunks(Top), g.cites = Top.cites \/ Valid(Top, g.cites),
           \/ g.trace = Top.trace /\ left \in {remaining, remaining - 1}
           \/ \E op \in Ops : g.trace = Push(Top, op, left).trace
    PROVE  IInv'
  <1>1. TypeOK /\ Top \in FrameType /\ Depth \in Nat
    BY TopFacts
  <1>2. OnlyTop(g)
    BY <1>1, SetsTop
  <1>3. /\ Top.status = "budget" /\ Top.forced /\ Top.step = StepsAt(Depth)
        /\ Top.before = Calls(remaining) /\ Reads(Top.trace, Depth)
        /\ Total(CostsAt(Top.trace, Depth)) = Calls(remaining) - Top.start
    BY TopFacts DEF Paced, Billed, Nests
  <1>4. Paced(g, Depth, left, elapsed) /\ Earned(g, Depth)
    BY <1>3, TopFacts DEF Paced, Earned, InTurn
  <1>5. Evident(g)
    BY TopFacts DEF Evident, Chunks, Grounded, SameRun, Valid
  <1>6. /\ Calls(remaining) \in Nat /\ Calls(left) \in Nat /\ Calls(remaining) <= Calls(left)
        /\ Calls(remaining - 1) = Calls(remaining) + 1
        /\ Top.before \in Nat /\ Top.start \in Nat /\ Top.start <= Calls(remaining)
    BY <1>1, Numbers, TopFacts DEF TypeOK, Calls, FrameType, Billed
  <1>7. CASE g.trace = Top.trace /\ left \in {remaining, remaining - 1}
    <2>1. Billed(g, Depth, left)
      BY <1>3, <1>6, <1>7 DEF Billed, InTurn, SameRun
    <2>2. Nests(g, Depth)
      BY <1>3, <1>7 DEF Nests, InTurn
    <2>3. QED
      BY <1>1, <1>2, <1>4, <1>5, <2>1, <2>2, TopChanges, TopFacts DEF FrameInv, SameRun
  <1>8. ASSUME NEW op \in Ops, g.trace = Push(Top, op, left).trace
        PROVE  IInv'
    <2>1. /\ Reads(g.trace, Depth)
          /\ Total(CostsAt(g.trace, Depth)) = Total(CostsAt(Top.trace, Depth)) + Cost(Top, left)
      BY <1>1, <1>3, <1>6, <1>8, Recorded
    <2>2. Billed(g, Depth, left)
      BY <1>3, <1>6, <2>1 DEF Billed, InTurn, SameRun, Cost
    <2>3. Nests(g, Depth)
      BY <2>1 DEF Nests, InTurn
    <2>4. QED
      BY <1>1, <1>2, <1>4, <1>5, <2>2, <2>3, TopChanges, TopFacts DEF FrameInv, SameRun
  <1>9. QED
    BY <1>7, <1>8

LEMMA ForcedNothingInv == ASSUME IInv, ForcedNothing PROVE IInv'
  <1>1. PICK left \in {remaining, remaining - 1} \cap Nat : Forced(Top, left)
    BY DEF ForcedNothing
  <1> DEFINE g == [Top EXCEPT !.place = "close"]
  <1>2. /\ Top.place = "forced" /\ remaining' = left /\ SetTop(g)
        /\ elapsed' = elapsed /\ okNested' = okNested
    BY <1>1 DEF Forced
  <1>3. /\ g \in FrameType
        /\ SameRun(Top, g) /\ g.place = "close" /\ g.step = Top.step /\ g.before = Top.before
        /\ g.trace = Top.trace /\ g.observed = Top.observed /\ g.read = Top.read /\ g.blank = Top.blank
        /\ g.pending = Top.pending /\ g.cites = Top.cites /\ g.status = Top.status
        /\ g.forced = Top.forced
    BY TopFacts DEF FrameType, SameRun
  <1> HIDE DEF g
  <1>4. left \in 0 .. remaining
    BY TopFacts
  <1>5. g.cites \subseteq Chunks(Top)
    BY <1>3, TopFacts DEF Evident
  <1>6. QED
    BY <1>2, <1>3, <1>4, <1>5, ForcedEnds

LEMMA ForcedFinalInv == ASSUME IInv, ForcedFinal PROVE IInv'
  <1> DEFINE left == remaining - 1
  <1>1. PICK C \in SUBSET Chunks(Top) :
          \/ /\ Valid(Top, C)
             /\ Forced([Push(Top, "final(forced)", left) EXCEPT
                          !.answer = "forced", !.cites = C], left)
          \/ Forced(Push(Top, "final(forced,rejected)", left), left)
    BY DEF ForcedFinal
  <1>2. left \in 0 .. remaining
    <2>1. remaining > 0
      BY DEF ForcedFinal
    <2>2. QED
      BY <2>1, TopFacts
  <1> HIDE DEF left
  <1>3. C \subseteq Nat /\ TypeOK /\ Top \in FrameType
    BY TopFacts DEF Chunks
  <1>4. CASE Valid(Top, C) /\ Forced([Push(Top, "final(forced)", left) EXCEPT
                                        !.answer = "forced", !.cites = C], left)
    <2> DEFINE p == Push(Top, "final(forced)", left)
               q == [p EXCEPT !.answer = "forced", !.cites = C]
               g == [q EXCEPT !.place = "close"]
    <2>1. /\ Top.place = "forced" /\ remaining' = left /\ SetTop(g)
          /\ elapsed' = elapsed /\ okNested' = okNested
      BY <1>4 DEF Forced
    <2>2. p \in FrameType
      BY <1>2, TopFacts, PushType DEF Ops
    <2>3. /\ SameRun(Top, p) /\ p.step = Top.step /\ p.before = Top.before
          /\ p.observed = Top.observed /\ p.read = Top.read /\ p.blank = Top.blank /\ p.pending = Top.pending
          /\ p.status = Top.status /\ p.forced = Top.forced
      BY <1>3, PushFields
    <2> HIDE DEF p
    <2>4. /\ g \in FrameType
          /\ SameRun(Top, g) /\ g.place = "close" /\ g.step = Top.step /\ g.before = Top.before
          /\ g.observed = Top.observed /\ g.read = Top.read /\ g.blank = Top.blank /\ g.pending = Top.pending
          /\ g.status = Top.status /\ g.forced = Top.forced
          /\ g.trace = p.trace /\ g.cites = C
      BY <1>3, <2>3, <2>2 DEF FrameType, SameRun
    <2> HIDE DEF g
    <2>5. g.trace = Push(Top, "final(forced)", left).trace /\ "final(forced)" \in Ops
      BY <2>4 DEF p, Ops
    <2>6. QED
      BY <1>2, <1>4, <2>1, <2>4, <2>5, ForcedEnds
  <1>5. CASE Forced(Push(Top, "final(forced,rejected)", left), left)
    <2> DEFINE p == Push(Top, "final(forced,rejected)", left)
               g == [p EXCEPT !.place = "close"]
    <2>1. /\ Top.place = "forced" /\ remaining' = left /\ SetTop(g)
          /\ elapsed' = elapsed /\ okNested' = okNested
      BY <1>5 DEF Forced
    <2>2. p \in FrameType
      BY <1>2, TopFacts, PushType DEF Ops
    <2>3. /\ SameRun(Top, p) /\ p.step = Top.step /\ p.before = Top.before
          /\ p.observed = Top.observed /\ p.read = Top.read /\ p.blank = Top.blank /\ p.pending = Top.pending
          /\ p.status = Top.status /\ p.forced = Top.forced /\ p.cites = Top.cites
      BY <1>3 DEF FrameType, Push, SameRun
    <2> HIDE DEF p
    <2>4. /\ g \in FrameType
          /\ SameRun(Top, g) /\ g.place = "close" /\ g.step = Top.step /\ g.before = Top.before
          /\ g.observed = Top.observed /\ g.read = Top.read /\ g.blank = Top.blank /\ g.pending = Top.pending
          /\ g.status = Top.status /\ g.forced = Top.forced
          /\ g.trace = p.trace /\ g.cites = Top.cites
      BY <2>3, <2>2 DEF FrameType, SameRun
    <2> HIDE DEF g
    <2>5. g.trace = Push(Top, "final(forced,rejected)", left).trace /\ "final(forced,rejected)" \in Ops
      BY <2>4 DEF p, Ops
    <2>6. g.cites \subseteq Chunks(Top)
      BY <2>4, TopFacts DEF Evident
    <2>7. QED
      BY <1>2, <2>1, <2>4, <2>5, <2>6, ForcedEnds
  <1>6. QED
    BY <1>1, <1>4, <1>5

-----------------------------------------------------------------------------
(* A trace that is spliced into the trace of the run above.                *)

SplicedSteps(a, b, s) ==
    a \o [i \in 1 .. Len(b) |-> [b[i] EXCEPT !.parent = s, !.index = Len(a) + i - 1]]

(* t begins with the steps of a, and then those of b as step s brings them. *)
Splices(t, a, b, s) ==
    /\ \A k \in 1 .. Len(a) : t[k] = a[k]
    /\ \A k \in 1 .. Len(b) :
         /\ t[Len(a) + k].depth = b[k].depth /\ t[Len(a) + k].op = b[k].op
         /\ t[Len(a) + k].parent = s /\ t[Len(a) + k].index = Len(a) + k - 1

LEMMA SplicedFacts ==
    ASSUME NEW a \in Trace, NEW b \in Trace, NEW s \in Nat
    PROVE  LET t == SplicedSteps(a, b, s)
           IN  t \in Trace /\ Len(t) = Len(a) + Len(b) /\ Splices(t, a, b, s)
  <1> DEFINE c == [i \in 1 .. Len(b) |-> [b[i] EXCEPT !.parent = s, !.index = Len(a) + i - 1]]
  <1>1. Len(a) \in Nat /\ Len(b) \in Nat /\ \A i \in 1 .. Len(b) : b[i] \in TraceStep
    BY StepsOf
  <1>2. ASSUME NEW i \in 1 .. Len(b)
        PROVE  /\ c[i] \in TraceStep
               /\ c[i].depth = b[i].depth /\ c[i].op = b[i].op
               /\ c[i].parent = s /\ c[i].index = Len(a) + i - 1
    <2>1. b[i] \in TraceStep /\ Len(a) + i - 1 \in Nat
      BY <1>1
    <2>2. c[i] = [b[i] EXCEPT !.parent = s, !.index = Len(a) + i - 1]
      OBVIOUS
    <2> HIDE DEF c
    <2>3. QED
      BY <2>1, <2>2 DEF TraceStep
  <1>3. c \in Trace /\ Len(c) = Len(b)
    <2>1. \A i \in 1 .. Len(b) : c[i] \in TraceStep
      BY <1>2
    <2>2. c = [i \in 1 .. Len(b) |-> c[i]]
      OBVIOUS
    <2> HIDE DEF c
    <2>3. QED
      BY <1>1, <2>1, <2>2 DEF Trace
  <1>4. SplicedSteps(a, b, s) = a \o c
    BY DEF SplicedSteps
  <1> HIDE DEF c
  <1>5. /\ a \o c \in Trace /\ Len(a \o c) = Len(a) + Len(b)
        /\ \A k \in 1 .. Len(a) : (a \o c)[k] = a[k]
        /\ \A k \in 1 .. Len(b) : (a \o c)[Len(a) + k] = c[k]
    <2>1. a \in Seq(TraceStep) /\ c \in Seq(TraceStep)
      BY <1>3 DEF Trace
    <2>2. a \o c \in Seq(TraceStep) /\ Len(a \o c) = Len(a) + Len(c)
      BY <2>1
    <2>3. \A k \in 1 .. Len(a) + Len(c) : (a \o c)[k] = IF k <= Len(a) THEN a[k] ELSE c[k - Len(a)]
      BY <2>1
    <2>4. ASSUME NEW k \in 1 .. Len(b)
          PROVE  (a \o c)[Len(a) + k] = c[k]
      <3>1. Len(a) + k \in 1 .. Len(a) + Len(c) /\ ~(Len(a) + k <= Len(a)) /\ (Len(a) + k) - Len(a) = k
        BY <1>1, <1>3
      <3>2. QED
        BY <2>3, <3>1
    <2>5. QED
      BY <1>1, <1>3, <2>2, <2>3, <2>4 DEF Trace
  <1>6. QED
    BY <1>2, <1>4, <1>5 DEF Splices

(* With the recurse step after it, the whole reads as one list.            *)
LEMMA SplicedReads ==
    ASSUME NEW a \in Trace, NEW b \in Trace, NEW d \in Nat, NEW s \in Nat, NEW own \in TraceStep,
           Reads(a, d), Reads(b, d + 1), Cardinality(Own(a, d)) = s,
           own.index = Len(a) + Len(b), own.depth = d, own.op = "recurse"
    PROVE  LET t == Append(SplicedSteps(a, b, s), own)
           IN  Reads(t, d) /\ Cardinality(Own(t, d)) = s + 1
  <1> DEFINE t == Append(SplicedSteps(a, b, s), own)
             m == Len(a)
             q == Len(b)
  <1>1. m \in Nat /\ q \in Nat
    BY StepsOf
  <1>2. /\ t \in Trace /\ Len(t) = m + q + 1 /\ t[m + q + 1] = own
        /\ \A k \in 1 .. m : t[k] = a[k]
        /\ \A k \in 1 .. q : /\ t[m + k].depth = b[k].depth /\ t[m + k].op = b[k].op
                             /\ t[m + k].parent = s /\ t[m + k].index = m + k - 1
    <2> DEFINE u == SplicedSteps(a, b, s)
    <2>1. u \in Trace /\ Len(u) = Len(a) + Len(b) /\ Splices(u, a, b, s)
      BY SplicedFacts
    <2> HIDE DEF u
    <2>2. /\ u \in Trace /\ Len(u) = m + q
          /\ \A k \in 1 .. m : u[k] = a[k]
          /\ \A k \in 1 .. q : /\ u[m + k].depth = b[k].depth /\ u[m + k].op = b[k].op
                               /\ u[m + k].parent = s /\ u[m + k].index = m + k - 1
      BY <1>1, <2>1 DEF Splices
    <2>3. /\ Append(u, own) \in Trace /\ Len(Append(u, own)) = Len(u) + 1
          /\ Append(u, own)[Len(u) + 1] = own
          /\ \A k \in 1 .. Len(u) : Append(u, own)[k] = u[k]
      <3>1. ASSUME NEW S, NEW w \in Seq(S), NEW e \in S
            PROVE  /\ Append(w, e) \in Seq(S) /\ Len(Append(w, e)) = Len(w) + 1
                   /\ Append(w, e)[Len(w) + 1] = e
                   /\ \A k \in 1 .. Len(w) : Append(w, e)[k] = w[k]
        BY AppendProperties
      <3>2. QED
        BY <2>2, <3>1 DEF Trace
    <2>4. t = Append(u, own)
      BY DEF u
    <2> HIDE DEF t
    <2>5. QED
      BY <1>1, <2>2, <2>3, <2>4
  <1> HIDE DEF t
  <1>3. /\ \A k \in 1 .. m : a[k].depth \in Nat /\ a[k].index = k - 1 /\ a[k].depth >= d
        /\ \A k \in 1 .. q : b[k].depth \in Nat /\ b[k].depth > d
    BY StepsOf DEF Reads
  <1>4. OwnBefore(t, d, m + q + 1) = Own(a, d)
    <2>1. ASSUME NEW k \in 1 .. m + q, t[k].depth = d
          PROVE  k \in 1 .. m
      <3>1. SUFFICES ASSUME k > m
                     PROVE  FALSE
        BY <1>1
      <3>2. k - m \in 1 .. q /\ m + (k - m) = k
        BY <1>1, <3>1
      <3>3. t[k].depth = b[k - m].depth
        BY <1>2, <3>2
      <3>4. QED
        BY <1>3, <2>1, <3>2, <3>3
    <2>2. QED
      BY <1>1, <1>2, <2>1 DEF OwnBefore, Own
  <1>5. ASSUME NEW k \in 1 .. q
        PROVE  IsNext(t, m + k, d, m + q + 1)
    <2>1. ASSUME NEW x \in m + k + 1 .. m + q
          PROVE  t[x].depth # d
      <3>1. x - m \in 1 .. q /\ m + (x - m) = x
        BY <1>1
      <3>2. t[x].depth = b[x - m].depth
        BY <1>2, <3>1
      <3>3. QED
        BY <1>3, <3>1, <3>2
    <2>2. QED
      BY <1>1, <1>2, <2>1 DEF IsNext
  <1>6. ASSUME NEW k \in 1 .. q
        PROVE  Belongs(t, m + k, d)
    <2>1. t[m + k].depth = b[k].depth /\ t[m + k].parent = s
      BY <1>2
    <2>2. b[k].depth \in Nat /\ b[k].depth >= d + 1 /\ (b[k].depth > d + 1 => Belongs(b, k, d + 1))
      BY <1>3 DEF Reads
    <2>3. m + q + 1 \in m + k + 1 .. Len(t) /\ t[m + q + 1].depth = d /\ t[m + q + 1].op = "recurse"
      BY <1>1, <1>2
    <2>4. ASSUME NEW e \in d .. b[k].depth - 1
          PROVE  \E j \in m + k + 1 .. Len(t) : t[j].depth = e
      <3>1. CASE e = d
        BY <2>3, <3>1
      <3>2. CASE e # d
        <4>1. e \in d + 1 .. b[k].depth - 1 /\ Belongs(b, k, d + 1)
          BY <2>2, <3>2
        <4>2. PICK j \in k + 1 .. q : b[j].depth = e
          BY <4>1 DEF Belongs
        <4>3. j \in 1 .. q /\ m + j \in m + k + 1 .. Len(t) /\ t[m + j].depth = e
          BY <1>1, <1>2, <4>2
        <4>4. QED
          BY <4>3
      <3>3. QED
        BY <3>1, <3>2
    <2>5. \E j \in Nat : IsNext(t, m + k, b[k].depth - 1, j) /\ t[j].op = "recurse"
      <3>1. CASE b[k].depth = d + 1
        <4>1. b[k].depth - 1 = d /\ m + q + 1 \in Nat
          BY <1>1, <3>1
        <4>2. QED
          BY <1>5, <2>3, <4>1
      <3>2. CASE b[k].depth > d + 1
        <4>1. PICK j \in Nat : IsNext(b, k, b[k].depth - 1, j) /\ b[j].op = "recurse"
          BY <2>2, <3>2 DEF Belongs
        <4>2. /\ j \in k + 1 .. q /\ b[j].depth = b[k].depth - 1
              /\ \A x \in k + 1 .. j - 1 : b[x].depth # b[k].depth - 1
          BY <4>1 DEF IsNext
        <4>3. j \in 1 .. q /\ m + j \in Nat /\ m + j \in m + k + 1 .. Len(t)
          BY <1>1, <1>2, <4>2
        <4>4. t[m + j].depth = b[k].depth - 1 /\ t[m + j].op = "recurse"
          BY <1>2, <4>1, <4>2, <4>3
        <4>5. ASSUME NEW x \in m + k + 1 .. m + j - 1
              PROVE  t[x].depth # b[k].depth - 1
          <5>1. x - m \in 1 .. q /\ x - m \in k + 1 .. j - 1 /\ m + (x - m) = x
            BY <1>1, <4>2, SMTT(30)
          <5>2. t[x].depth = b[x - m].depth
            BY <1>2, <5>1
          <5>3. QED
            BY <4>2, <5>1, <5>2
        <4>6. IsNext(t, m + k, b[k].depth - 1, m + j)
          BY <4>3, <4>4, <4>5 DEF IsNext
        <4>7. QED
          BY <4>3, <4>4, <4>6
      <3>3. QED
        BY <2>2, <3>1, <3>2
    <2>6. /\ m + q + 1 \in Nat
          /\ IsNext(t, m + k, d, m + q + 1) /\ t[m + k].parent = Cardinality(OwnBefore(t, d, m + q + 1))
      BY <1>1, <1>4, <1>5, <2>1
    <2>7. QED
      BY <2>1, <2>4, <2>5, <2>6 DEF Belongs
  <1>7. Reads(t, d)
    <2> SUFFICES ASSUME NEW i \in 1 .. Len(t)
                 PROVE  /\ t[i].index = i - 1 /\ t[i].depth >= d
                        /\ t[i].depth > d => Belongs(t, i, d)
      BY DEF Reads
    <2>1. CASE i = m + q + 1
      BY <1>1, <1>2, <2>1
    <2>2. CASE i \in 1 .. m
      <3>1. t[i] = a[i] /\ a[i].index = i - 1 /\ a[i].depth >= d /\ (a[i].depth > d => Belongs(a, i, d))
        BY <1>2, <2>2 DEF Reads
      <3>2. m <= Len(t)
        BY <1>1, <1>2
      <3>3. Belongs(a, i, d) => Belongs(t, i, d)
        BY <1>2, <2>2, <3>2, GrowsOn
      <3>4. QED
        BY <3>1, <3>3
    <2>3. CASE i \in m + 1 .. m + q
      <3>1. i - m \in 1 .. q /\ m + (i - m) = i
        BY <1>1, <2>3
      <3>2. Belongs(t, i, d)
        BY <1>6, <3>1
      <3>3. t[i].index = m + (i - m) - 1 /\ t[i].depth = b[i - m].depth
        BY <1>2, <3>1
      <3>4. m + (i - m) - 1 = i - 1 /\ b[i - m].depth >= d
        BY <1>1, <1>3, <3>1
      <3>5. QED
        BY <3>2, <3>3, <3>4
    <2>4. QED
      BY <1>1, <1>2, <2>1, <2>2, <2>3
  <1>8. Cardinality(Own(t, d)) = s + 1
    <2>1. Own(t, d) = OwnBefore(t, d, m + q + 1) \cup {m + q + 1}
          /\ m + q + 1 \notin OwnBefore(t, d, m + q + 1)
      <3>1. (Len(t) + 1) - 1 = m + q + 1 /\ (m + q + 1) - 1 = m + q
        BY <1>1, <1>2
      <3>2. 1 .. m + q + 1 = (1 .. m + q) \cup {m + q + 1} /\ m + q + 1 \notin 1 .. m + q
        BY <1>1
      <3>3. t[m + q + 1].depth = d
        BY <1>2
      <3>4. QED
        BY <3>1, <3>3, <3>2 DEF Own, OwnBefore
    <2>2. IsFiniteSet(Own(a, d))
      BY <1>1, OwnIsFinite DEF Own
    <2>3. QED
      BY <1>4, <2>1, <2>2, FS_AddElement
  <1>9. QED
    BY <1>7, <1>8 DEF t

(* The nested steps cost nothing at the level of the run above.            *)
LEMMA SplicedCosts ==
    ASSUME NEW a \in Trace, NEW b \in Trace, NEW d \in Nat, NEW s \in Nat, NEW own \in TraceStep,
           Reads(b, d + 1), own.depth = d
    PROVE  Total(CostsAt(Append(SplicedSteps(a, b, s), own), d))
             = Total(CostsAt(a, d)) + own.calls
  <1> DEFINE u == SplicedSteps(a, b, s)
  <1>1. Len(a) \in Nat /\ Len(b) \in Nat /\ \A k \in 1 .. Len(b) : b[k].depth \in Nat /\ b[k].depth > d
    BY StepsOf DEF Reads
  <1>2. /\ u \in Trace /\ Len(u) = Len(a) + Len(b)
        /\ \A k \in 1 .. Len(a) : u[k] = a[k]
        /\ \A k \in 1 .. Len(b) : u[Len(a) + k].depth = b[k].depth
    <2>1. u \in Trace /\ Len(u) = Len(a) + Len(b) /\ Splices(u, a, b, s)
      BY SplicedFacts
    <2> HIDE DEF u
    <2>2. QED
      BY <2>1 DEF Splices
  <1> HIDE DEF u
  <1>3. /\ CostsAt(a, d) \in Seq(Nat) /\ Len(CostsAt(a, d)) = Len(a)
        /\ CostsAt(u, d) \in Seq(Nat) /\ Len(CostsAt(u, d)) = Len(u)
    BY <1>2, CostsType
  <1>4. ASSUME NEW k \in 1 .. Len(u)
        PROVE  CostsAt(u, d)[k] = IF k <= Len(a) THEN CostsAt(a, d)[k] ELSE 0
    <2>1. CASE k <= Len(a)
      <3>1. k \in 1 .. Len(a)
        BY <1>1, <1>2, <2>1
      <3>2. QED
        BY <1>2, <2>1, <3>1 DEF CostsAt
    <2>2. CASE k > Len(a)
      <3>1. k - Len(a) \in 1 .. Len(b) /\ Len(a) + (k - Len(a)) = k
        BY <1>1, <1>2, <2>2
      <3>2. u[k].depth = b[k - Len(a)].depth
        BY <1>2, <3>1
      <3>3. u[k].depth # d
        BY <1>1, <3>1, <3>2
      <3>4. QED
        BY <1>1, <2>2, <3>3 DEF CostsAt
    <2>3. QED
      BY <1>1, <1>2, <2>1, <2>2
  <1>5. Total(CostsAt(u, d)) = Total(CostsAt(a, d))
    <2>1. Len(CostsAt(a, d)) <= Len(CostsAt(u, d))
      BY <1>1, <1>2, <1>3
    <2> DEFINE x == CostsAt(a, d)
               y == CostsAt(u, d)
    <2>2. \A k \in 1 .. Len(y) : y[k] = IF k <= Len(x) THEN x[k] ELSE 0
      BY <1>3, <1>4
    <2>3. x \in Seq(Nat) /\ y \in Seq(Nat) /\ Len(x) <= Len(y)
      BY <1>3, <2>1
    <2> HIDE DEF x, y
    <2>4. Total(y) = Total(x)
      BY <2>2, <2>3, TotalWithZeros
    <2>5. QED
      BY <2>4 DEF x, y
  <1>6. Total(CostsAt(Append(u, own), d)) = Total(CostsAt(u, d)) + own.calls
    BY <1>2, OwnStepCosts
  <1>7. QED
    BY <1>5, <1>6 DEF u

-----------------------------------------------------------------------------
(* The steps that change more than the top frame.                          *)

LEMMA ExpireInv == ASSUME IInv, Expire PROVE IInv'
  <1>1. UNCHANGED <<stack, remaining, okNested>> /\ elapsed' = TRUE /\ elapsed \in BOOLEAN
    BY TopFacts DEF Expire
  <1>2. TypeOK' /\ Stacked' /\ Counted'
    BY <1>1 DEF IInv, TypeOK, Stacked, Counted, RecursionsOf
  <1>3. ASSUME NEW k \in 1 .. Len(stack)
        PROVE  FrameInv(stack[k], k - 1, remaining, TRUE)
    <2>1. FrameInv(stack[k], k - 1, remaining, elapsed) /\ stack[k] \in FrameType /\ k - 1 \in Nat
      BY DEF IInv, TypeOK
    <2>2. remaining \in 0 .. MaxCalls /\ remaining \in 0 .. remaining /\ TRUE \in BOOLEAN
      BY TopFacts
    <2>3. QED
      BY <1>1, <2>1, <2>2, Waits
  <1>4. QED
    BY <1>1, <1>2, <1>3 DEF IInv

(* A new run has made no step and no call.                                 *)
IsNew(g, start) ==
    /\ g \in FrameType
    /\ g.place = "head" /\ g.step = 0 /\ g.before = 0 /\ g.pending = {} /\ g.start = start
    /\ g.status = "budget" /\ g.cites = {} /\ g.trace = <<>> /\ g.observed = {} /\ g.read = {} /\ g.blank = {}
    /\ g.recursions = 0 /\ g.forced = FALSE

LEMMA FrameIsNew ==
    ASSUME NEW ctx \in Seq(Span), NEW start \in Nat, Calls(remaining) \in Nat
    PROVE  /\ IsNew([Frame(ctx) EXCEPT !.start = start], start)
           /\ IsNew(Frame(ctx), Calls(remaining))
  <1> DEFINE f == Frame(ctx)
  <1>1. f \in FrameType
    <2>1. 0 \in 0 .. MaxFanout
      BY Numbers
    <2>2. QED
      BY <2>1 DEF Frame, FrameType
  <1>2. IsNew(f, Calls(remaining))
    BY <1>1 DEF Frame, IsNew
  <1> HIDE DEF f
  <1>3. IsNew([f EXCEPT !.start = start], start)
    BY <1>2 DEF FrameType, IsNew
  <1>4. QED
    BY <1>2, <1>3 DEF f

LEMMA NewRun ==
    ASSUME NEW d \in Nat, NEW left \in 0 .. MaxCalls, NEW late \in BOOLEAN,
           NEW g, IsNew(g, Calls(left))
    PROVE  FrameInv(g, d, left, late)
  <1>1. Calls(left) \in Nat /\ StepsAt(d) \in Nat
    BY Numbers DEF Calls, StepsAt
  <1>2. /\ g.place = "head" /\ g.step = 0 /\ g.before = 0 /\ g.pending = {} /\ g.start = Calls(left)
        /\ g.status = "budget" /\ g.cites = {} /\ g.trace = <<>> /\ g.observed = {} /\ g.read = {} /\ g.blank = {}
        /\ g.recursions = 0 /\ g.forced = FALSE
    BY DEF IsNew
  <1>3. Paced(g, d, left, late) /\ Evident(g) /\ Earned(g, d)
    BY <1>1, <1>2 DEF Paced, Evident, Earned, InTurn
  <1>4. g.trace \in Trace /\ Len(g.trace) = 0
    BY <1>2 DEF Trace
  <1>5. Billed(g, d, left)
    <2>1. Len(CostsAt(g.trace, d)) = 0
      BY <1>4, CostsType
    <2>2. Total(CostsAt(g.trace, d)) = 0
      BY <2>1, TotalOfNone
    <2>3. QED
      BY <1>1, <1>2, <2>2 DEF Billed, InTurn
  <1>6. Nests(g, d)
    <2>1. Own(g.trace, d) = {} /\ Reads(g.trace, d)
      BY <1>4 DEF Own, OwnBefore, Reads
    <2>2. Cardinality({}) = 0
      BY FS_EmptySet
    <2>3. QED
      BY <1>2, <2>1, <2>2 DEF Nests
  <1>7. QED
    BY <1>3, <1>5, <1>6 DEF FrameInv

(* The counts of the runs under way.                                       *)
LEMMA RecursionsType ==
    ASSUME NEW s \in Seq(FrameType)
    PROVE  RecursionsOf(s) \in Seq(Nat) /\ Len(RecursionsOf(s)) = Len(s)
           /\ Total(RecursionsOf(s)) \in Nat
  <1>1. ASSUME NEW k \in 1 .. Len(s)
        PROVE  s[k].recursions \in Nat
    <2>1. s[k] \in FrameType
      OBVIOUS
    <2>2. QED
      BY <2>1 DEF FrameType
  <1>2. RecursionsOf(s) \in Seq(Nat) /\ Len(RecursionsOf(s)) = Len(s)
    BY <1>1 DEF RecursionsOf
  <1>3. QED
    BY <1>2, TotalType

LEMMA OneMoreRun ==
    ASSUME NEW s \in Seq(FrameType), NEW g \in FrameType
    PROVE  Total(RecursionsOf(Append(s, g))) = Total(RecursionsOf(s)) + g.recursions
  <1>1. /\ RecursionsOf(s) \in Seq(Nat) /\ Len(RecursionsOf(s)) = Len(s)
        /\ Len(s) \in Nat /\ g.recursions \in Nat
    <2>1. g.recursions \in Nat
      BY DEF FrameType
    <2>2. QED
      BY <2>1, RecursionsType
  <1> DEFINE a == Append(RecursionsOf(s), g.recursions)
             b == RecursionsOf(Append(s, g))
  <1>2. /\ a \in Seq(Nat) /\ Len(a) = Len(s) + 1 /\ a[Len(s) + 1] = g.recursions
        /\ \A k \in 1 .. Len(s) : a[k] = s[k].recursions
    <2> DEFINE r == RecursionsOf(s)
    <2>1. \A k \in 1 .. Len(s) : r[k] = s[k].recursions
      BY DEF RecursionsOf
    <2>2. r \in Seq(Nat) /\ Len(r) = Len(s)
      BY <1>1
    <2> HIDE DEF r
    <2>3. /\ Append(r, g.recursions) \in Seq(Nat) /\ Len(Append(r, g.recursions)) = Len(r) + 1
          /\ Append(r, g.recursions)[Len(r) + 1] = g.recursions
          /\ \A k \in 1 .. Len(r) : Append(r, g.recursions)[k] = r[k]
      BY <1>1, <2>2, AppendProperties
    <2>4. QED
      BY <2>1, <2>2, <2>3 DEF r
  <1>3. /\ b \in Seq(Nat) /\ Len(b) = Len(s) + 1 /\ b[Len(s) + 1] = g.recursions
        /\ \A k \in 1 .. Len(s) : b[k] = s[k].recursions
    <2> DEFINE t == Append(s, g)
    <2>1. /\ t \in Seq(FrameType) /\ Len(t) = Len(s) + 1 /\ t[Len(s) + 1] = g
          /\ \A k \in 1 .. Len(s) : t[k] = s[k]
      BY AppendProperties
    <2> HIDE DEF t
    <2>2. RecursionsOf(t) \in Seq(Nat) /\ Len(RecursionsOf(t)) = Len(t)
      BY <2>1, RecursionsType
    <2>3. \A k \in 1 .. Len(t) : RecursionsOf(t)[k] = t[k].recursions
      BY DEF RecursionsOf
    <2>4. QED
      BY <1>1, <2>1, <2>2, <2>3 DEF t
  <1> HIDE DEF a, b
  <1>4. ASSUME NEW k \in 1 .. Len(s) + 1
        PROVE  a[k] = b[k]
    <2>1. CASE k = Len(s) + 1
      BY <1>2, <1>3, <2>1
    <2>2. CASE k \in 1 .. Len(s)
      BY <1>2, <1>3, <2>2
    <2>3. QED
      BY <1>1, <2>1, <2>2
  <1>5. a = b
    BY <1>1, <1>2, <1>3, <1>4, SeqEqual
  <1>6. Total(a) = Total(RecursionsOf(s)) + g.recursions
    BY <1>1, TotalOfAppend DEF a
  <1>7. QED
    BY <1>5, <1>6 DEF b

LEMMA ReplyRecurseInv == ASSUME IInv, ReplyRecurse PROVE IInv'
  <1> DEFINE n == Len(stack)
             left == remaining - 1
             f == [Top EXCEPT !.place = "nested"]
  <1>1. PICK picks \in SeqOf(Chunks(Top), MaxPicks) \ {<<>>} :
          stack' = Append([stack EXCEPT ![Len(stack)].place = "nested"],
                          [Frame(SubContext(Top, picks)) EXCEPT !.start = Calls(remaining - 1)])
    BY DEF ReplyRecurse
  <1>2. /\ Top.place = "calling" /\ remaining > 0
        /\ remaining' = left /\ elapsed' = elapsed /\ okNested' = okNested
    BY DEF ReplyRecurse, PlannerReplies
  <1>3. picks \in Seq(1 .. Len(Top.ctx)) /\ Top.ctx \in Seq(Span)
    <2>1. picks \in Seq(Chunks(Top))
      BY DEF SeqOf
    <2>2. QED
      BY <2>1, TopFacts DEF FrameType, Chunks
  <1>4. SubContext(Top, picks) \in Seq(Span)
    BY <1>3, SubContextType
  <1> DEFINE g == [Frame(SubContext(Top, picks)) EXCEPT !.start = Calls(left)]
  <1>5. n \in Nat \ {0} /\ stack \in Seq(FrameType) /\ Top = stack[n] /\ Depth = n - 1
    BY TopFacts, TopType DEF TypeOK, Top, Depth
  <1>6. left \in 0 .. MaxCalls /\ left \in 0 .. remaining /\ remaining \in 0 .. MaxCalls
        /\ elapsed \in BOOLEAN
    <2>1. remaining \in 0 .. MaxCalls /\ elapsed \in BOOLEAN
      BY TopFacts
    <2>2. QED
      BY <1>2, <2>1, Numbers
  <1>7. g \in FrameType /\ FrameInv(g, n, left, elapsed) /\ g.place = "head" /\ g.recursions = 0
    <2>1. Calls(left) \in Nat /\ Calls(remaining) \in Nat
      BY <1>6, Numbers DEF Calls
    <2>2. IsNew(g, Calls(left))
      BY <1>4, <2>1, FrameIsNew
    <2> HIDE DEF g
    <2>3. FrameInv(g, n, left, elapsed)
      BY <1>5, <1>6, <2>2, NewRun
    <2>4. QED
      BY <2>2, <2>3 DEF IsNew
  <1>8. stack' = Append([stack EXCEPT ![n] = f], g)
    <2>1. [stack EXCEPT ![Len(stack)].place = "nested"] = [stack EXCEPT ![n] = f]
      BY <1>5
    <2>2. QED
      BY <1>1, <2>1, Zenon
  <1>9. /\ f \in FrameType
        /\ f.place = "nested" /\ f.ctx = Top.ctx /\ f.step = Top.step /\ f.before = Top.before
        /\ f.start = Top.start /\ f.trace = Top.trace /\ f.observed = Top.observed
        /\ f.read = Top.read /\ f.blank = Top.blank /\ f.pending = Top.pending /\ f.cites = Top.cites
        /\ f.status = Top.status /\ f.answer = Top.answer /\ f.forced = Top.forced
        /\ f.recursions = Top.recursions
    BY TopFacts DEF FrameType
  <1> HIDE DEF f, g
  <1>10. FrameInv(f, n - 1, left, elapsed)
    <2>1. Paced(f, Depth, left, elapsed) /\ Earned(f, Depth)
      BY <1>2, <1>9, TopFacts DEF Paced, Earned, InTurn
    <2>2. Evident(f)
      BY <1>9, TopFacts DEF Evident, Chunks, Grounded
    <2>3. Billed(f, Depth, left)
      <3>1. Calls(remaining) \in Nat /\ Calls(left) \in Nat /\ Calls(remaining) <= Calls(left)
        BY <1>6, Numbers DEF Calls
      <3>2. Top.before \in Nat /\ Top.start \in Nat
        BY TopFacts DEF FrameType
      <3>3. QED
        BY <1>2, <1>9, <3>1, <3>2, TopFacts DEF Billed, InTurn
    <2>4. Nests(f, Depth)
      BY <1>2, <1>9, TopFacts DEF Nests, InTurn
    <2>5. QED
      BY <1>5, <2>1, <2>2, <2>3, <2>4 DEF FrameInv
  <1> DEFINE s == [stack EXCEPT ![n] = f]
  <1>11. /\ s \in Seq(FrameType) /\ Len(s) = n /\ s[n] = f
         /\ \A k \in 1 .. n - 1 : s[k] = stack[k]
    BY <1>5, <1>9
  <1> HIDE DEF s
  <1>12. stack' = Append(s, g)
    BY <1>8 DEF s
  <1>13. /\ stack' \in Seq(FrameType) /\ Len(stack') = n + 1 /\ stack'[n + 1] = g /\ stack'[n] = f
         /\ \A k \in 1 .. n - 1 : stack'[k] = stack[k]
    BY <1>5, <1>7, <1>11, <1>12, AppendProperties
  <1>14. TypeOK'
    BY <1>2, <1>5, <1>6, <1>13, TopFacts DEF TypeOK
  <1>15. Stacked'
    <2> SUFFICES ASSUME NEW k \in 1 .. n + 1
                 PROVE  stack'[k].place = "nested" <=> k < n + 1
      BY <1>13 DEF Stacked
    <2>1. CASE k = n + 1
      BY <1>5, <1>7, <1>13, <2>1
    <2>2. CASE k = n
      BY <1>5, <1>9, <1>13, <2>2
    <2>3. CASE k \in 1 .. n - 1
      BY <1>5, <1>13, <2>3 DEF IInv, Stacked
    <2>4. QED
      BY <1>5, <2>1, <2>2, <2>3
  <1>16. ASSUME NEW k \in 1 .. n + 1
         PROVE  FrameInv(stack'[k], k - 1, left, elapsed)
    <2>1. CASE k = n + 1
      BY <1>5, <1>7, <1>13, <2>1
    <2>2. CASE k = n
      BY <1>10, <1>13, <2>2
    <2>3. CASE k \in 1 .. n - 1
      <3>1. stack'[k] = stack[k] /\ stack[k].place = "nested" /\ stack[k] \in FrameType /\ k - 1 \in Nat
            /\ FrameInv(stack[k], k - 1, remaining, elapsed)
        BY <1>5, <1>13, <2>3 DEF IInv, Stacked
      <3>2. QED
        BY <1>6, <3>1, Waits
    <2>4. QED
      BY <1>5, <2>1, <2>2, <2>3
  <1>17. Counted'
    <2>1. RecursionsOf(s) = RecursionsOf(stack)
      <3>1. \A k \in 1 .. n : s[k].recursions = stack[k].recursions
        BY <1>5, <1>9, <1>11
      <3>2. QED
        BY <1>11, <3>1 DEF RecursionsOf
    <2>2. Total(RecursionsOf(Append(s, g))) = Total(RecursionsOf(s)) + 0
      BY <1>7, <1>11, OneMoreRun
    <2>3. Total(RecursionsOf(stack)) \in Nat
      BY <1>5, RecursionsType
    <2>4. QED
      BY <1>2, <1>12, <2>1, <2>2, <2>3 DEF IInv, Counted
  <1>18. QED
    BY <1>2, <1>13, <1>14, <1>15, <1>16, <1>17 DEF IInv

LEMMA ReturnInv == ASSUME IInv, Return PROVE IInv'
  <1> DEFINE n == Len(stack)
             d == n - 2
             g == Top
             f == stack[n - 1]
             merged == [f EXCEPT !.observed = @ \cup g.observed,
                                 !.read = @ \cup g.read, !.blank = @ \cup g.blank,
                                 !.recursions = Recursions(f, g),
                                 !.trace = Spliced(f, g)]
             own == [index |-> Len(merged.trace), depth |-> Depth - 1,
                     op |-> "recurse", parent |-> None,
                     calls |-> Cost(f, remaining)]
             h == [merged EXCEPT !.trace = Append(@, own), !.place = "head", !.step = @ + 1]
             low == SubSeq(stack, 1, n - 2)
  <1>1. /\ g.place = "done" /\ n > 1
        /\ stack' = Append(low, h)
        /\ okNested' = IF g.status = "ok" THEN okNested + 1 ELSE okNested
        /\ remaining' = remaining /\ elapsed' = elapsed
    BY Zenon DEF Return
  <1>2. /\ n \in Nat /\ n - 1 \in 1 .. n /\ d \in Nat /\ n \in 1 .. n /\ stack \in Seq(FrameType)
        /\ g = stack[n] /\ Depth = d + 1 /\ Depth - 1 = d /\ n - 1 = d + 1 /\ n = d + 2
    BY <1>1, TopFacts, TopType DEF TypeOK, Top, Depth
  <1>3. /\ f \in FrameType /\ g \in FrameType /\ f.place = "nested"
        /\ FrameInv(f, d, remaining, elapsed) /\ FrameInv(g, d + 1, remaining, elapsed)
        /\ remaining \in 0 .. MaxCalls /\ elapsed \in BOOLEAN
    <2>1. f \in FrameType /\ g \in FrameType
      BY <1>2
    <2>2. f.place = "nested"
      BY <1>2 DEF IInv, Stacked
    <2>3. FrameInv(f, (n - 1) - 1, remaining, elapsed) /\ FrameInv(g, n - 1, remaining, elapsed)
      BY <1>2 DEF IInv
    <2>4. (n - 1) - 1 = d
      BY <1>2
    <2>5. QED
      BY <1>2, <2>1, <2>2, <2>3, <2>4, TopFacts
  <1>4. /\ low \in Seq(FrameType) /\ Len(low) = d
        /\ \A k \in 1 .. d : low[k] = stack[k]
    <2>1. n - 2 \in 0 .. n
      BY <1>2
    <2>2. QED
      BY <1>2, <2>1
  <1> HIDE DEF g, f, n, d, low
  <1>5. f.trace \in Trace /\ g.trace \in Trace /\ f.step \in Nat /\ g.recursions \in Nat
        /\ f.recursions \in Nat /\ f.before \in Nat /\ f.start \in Nat
    BY <1>3 DEF FrameType, Trace
  <1>6. Spliced(f, g) = SplicedSteps(f.trace, g.trace, f.step)
    BY DEF Spliced, SplicedSteps
  <1> DEFINE both == SplicedSteps(f.trace, g.trace, f.step)
  <1>7. both \in Trace /\ Len(both) = Len(f.trace) + Len(g.trace) /\ Len(both) \in Nat
    <2>1. Len(f.trace) \in Nat /\ Len(g.trace) \in Nat
      BY <1>5, StepsOf
    <2>2. both \in Trace /\ Len(both) = Len(f.trace) + Len(g.trace)
      BY <1>5, SplicedFacts
    <2> HIDE DEF both
    <2>3. Len(both) \in Nat
      BY <2>2, StepsOf
    <2>4. QED
      BY <2>2, <2>3
  <1>8. Recursions(f, g) \in Nat
        /\ Recursions(f, g) + okNested = f.recursions + g.recursions + okNested'
    <2>1. okNested \in Nat
      BY TopFacts DEF TypeOK
    <2>2. CASE g.status = "ok"
      <3>1. Recursions(f, g) = f.recursions + 1 + g.recursions
        BY <2>2 DEF Recursions
      <3>2. okNested' = okNested + 1
        BY <1>1, <2>2
      <3>3. QED
        BY <1>5, <2>1, <3>1, <3>2
    <2>3. CASE g.status # "ok"
      BY <1>1, <1>5, <2>1, <2>3 DEF Recursions
    <2>4. QED
      BY <2>2, <2>3
  <1> HIDE DEF both
  <1>9. /\ merged \in FrameType
        /\ merged.place = f.place /\ merged.step = f.step /\ merged.ctx = f.ctx
        /\ merged.before = f.before /\ merged.start = f.start /\ merged.status = f.status
        /\ merged.pending = f.pending /\ merged.cites = f.cites /\ merged.forced = f.forced
        /\ merged.observed = f.observed \cup g.observed /\ merged.read = f.read \cup g.read /\ merged.blank = f.blank \cup g.blank
        /\ merged.recursions = Recursions(f, g) /\ merged.trace = both
    <2>1. both \in Seq(TraceStep) /\ Recursions(f, g) \in Nat
      BY <1>7, <1>8 DEF Trace
    <2>2. merged = [f EXCEPT !.observed = @ \cup g.observed, !.read = @ \cup g.read, !.blank = @ \cup g.blank,
                             !.recursions = Recursions(f, g), !.trace = both]
      BY <1>6 DEF both
    <2> HIDE DEF merged
    <2>3. QED
      BY <1>3, <2>1, <2>2 DEF FrameType
  <1> HIDE DEF merged
  <1>10. Calls(remaining) \in Nat /\ f.before <= Calls(remaining) /\ f.start <= Calls(remaining)
         /\ Cost(f, remaining) = Calls(remaining) - f.before /\ Cost(f, remaining) \in Nat
    <2>1. f.before <= Calls(remaining) /\ f.start <= Calls(remaining)
      BY <1>3 DEF FrameInv, Billed
    <2>2. QED
      BY <1>3, <1>5, <2>1, TopFacts DEF Cost
  <1>11. /\ own \in TraceStep /\ own.index = Len(f.trace) + Len(g.trace) /\ own.depth = d
         /\ own.op = "recurse" /\ own.calls = Cost(f, remaining)
    <2>1. Len(merged.trace) \in Nat /\ Len(merged.trace) = Len(f.trace) + Len(g.trace)
      BY <1>7, <1>9
    <2>2. QED
      BY <1>2, <1>10, <2>1 DEF TraceStep, Ops
  <1> HIDE DEF own
  <1>12. /\ h \in FrameType
         /\ h.place = "head" /\ h.step = f.step + 1 /\ h.ctx = f.ctx
         /\ h.before = f.before /\ h.start = f.start /\ h.status = f.status
         /\ h.pending = f.pending /\ h.cites = f.cites /\ h.forced = f.forced
         /\ h.observed = f.observed \cup g.observed /\ h.read = f.read \cup g.read /\ h.blank = f.blank \cup g.blank
         /\ h.recursions = Recursions(f, g) /\ h.trace = Append(both, own)
    <2>1. Append(merged.trace, own) \in Seq(TraceStep) /\ merged.step + 1 \in Nat
      BY <1>5, <1>7, <1>9, <1>11 DEF Trace
    <2>2. QED
      BY <1>9, <2>1 DEF FrameType
  <1> HIDE DEF h
  <1>13. /\ Paced(f, d, remaining, elapsed) /\ Evident(f) /\ Evident(g)
         /\ Billed(f, d, remaining) /\ Nests(f, d) /\ Nests(g, d + 1)
    BY <1>3 DEF FrameInv
  <1>14. f.status = "budget" /\ f.step < StepsAt(d) /\ StepsAt(d) \in Nat /\ ~f.forced
    BY <1>3, <1>13, Numbers DEF Paced, InTurn, StepsAt
  <1>15. Paced(h, d, remaining, elapsed) /\ Earned(h, d)
    BY <1>5, <1>12, <1>14 DEF Paced, Earned, InTurn
  <1>16. Evident(h)
    BY <1>12, <1>13 DEF Evident, Chunks, Grounded
  <1>17. Reads(f.trace, d) /\ Reads(g.trace, d + 1) /\ Cardinality(Own(f.trace, d)) = f.step
    BY <1>3, <1>13 DEF Nests, InTurn
  <1>18. Reads(h.trace, d) /\ Cardinality(Own(h.trace, d)) = f.step + 1
    <2> DEFINE t == Append(SplicedSteps(f.trace, g.trace, f.step), own)
    <2> DEFINE a == f.trace
               b == g.trace
               s == f.step
    <2>1. /\ a \in Trace /\ b \in Trace /\ s \in Nat /\ d \in Nat /\ own \in TraceStep
          /\ Reads(a, d) /\ Reads(b, d + 1) /\ Cardinality(Own(a, d)) = s
          /\ own.index = Len(a) + Len(b) /\ own.depth = d /\ own.op = "recurse"
          /\ t = Append(SplicedSteps(a, b, s), own)
      BY <1>2, <1>5, <1>11, <1>17
    <2> HIDE DEF a, b, s, t
    <2>2. Reads(t, d) /\ Cardinality(Own(t, d)) = s + 1
      BY <2>1, SplicedReads
    <2>3. h.trace = t
      BY <1>12 DEF both, t
    <2>4. QED
      BY <2>2, <2>3 DEF s
  <1>19. Total(CostsAt(h.trace, d)) = Total(CostsAt(f.trace, d)) + Cost(f, remaining)
    BY <1>2, <1>5, <1>11, <1>12, <1>17, SplicedCosts DEF both
  <1>20. Billed(h, d, remaining)
    <2>1. Total(CostsAt(f.trace, d)) = f.before - f.start
      BY <1>3, <1>13 DEF Billed, InTurn
    <2>2. Total(CostsAt(h.trace, d)) = Calls(remaining) - f.start
      BY <1>5, <1>10, <1>19, <2>1
    <2>3. QED
      BY <1>10, <1>12, <2>2 DEF Billed, InTurn
  <1>21. FrameInv(h, d, remaining, elapsed)
    BY <1>12, <1>15, <1>16, <1>18, <1>20 DEF FrameInv, Nests
  <1>22. /\ stack' \in Seq(FrameType) /\ Len(stack') = d + 1 /\ stack'[d + 1] = h
         /\ \A k \in 1 .. d : stack'[k] = stack[k]
    BY <1>1, <1>2, <1>4, <1>12, AppendProperties
  <1>23. okNested' \in Nat
    BY <1>1, TopFacts DEF TypeOK
  <1>24. TypeOK'
    BY <1>1, <1>2, <1>3, <1>22, <1>23 DEF TypeOK
  <1>25. Stacked'
    <2> SUFFICES ASSUME NEW k \in 1 .. d + 1
                 PROVE  stack'[k].place = "nested" <=> k < d + 1
      BY <1>22 DEF Stacked
    <2>1. CASE k = d + 1
      BY <1>2, <1>12, <1>22, <2>1
    <2>2. CASE k \in 1 .. d
      BY <1>2, <1>22, <2>2 DEF IInv, Stacked, n
    <2>3. QED
      BY <1>2, <2>1, <2>2
  <1>26. ASSUME NEW k \in 1 .. d + 1
         PROVE  FrameInv(stack'[k], k - 1, remaining, elapsed)
    <2>1. CASE k = d + 1
      BY <1>2, <1>21, <1>22, <2>1
    <2>2. CASE k \in 1 .. d
      BY <1>2, <1>22, <2>2 DEF IInv, n
    <2>3. QED
      BY <1>2, <2>1, <2>2
  <1>27. Counted'
    <2>1. stack = Append(Append(low, f), g)
      <3>1. low \in Seq(FrameType) /\ f \in FrameType /\ g \in FrameType
        BY <1>3, <1>4
      <3>2. /\ Append(low, f) \in Seq(FrameType) /\ Len(Append(low, f)) = d + 1
            /\ Append(low, f)[d + 1] = f
            /\ \A k \in 1 .. d : Append(low, f)[k] = stack[k]
        BY <1>2, <1>4, <3>1, AppendProperties
      <3> DEFINE t == Append(low, f)
                 u == Append(t, g)
      <3> HIDE DEF t
      <3>3. /\ u \in Seq(FrameType) /\ Len(u) = d + 2 /\ u[d + 2] = g
            /\ \A k \in 1 .. d + 1 : u[k] = t[k]
        BY <1>2, <3>1, <3>2, AppendProperties DEF t
      <3> HIDE DEF u
      <3>4. ASSUME NEW k \in 1 .. d + 2
            PROVE  u[k] = stack[k]
        <4>1. CASE k = d + 2
          BY <1>2, <3>3, <4>1
        <4>2. CASE k = d + 1
          <5>1. u[k] = t[d + 1] /\ t[d + 1] = f
            BY <1>2, <3>2, <3>3, <4>2 DEF t
          <5>2. stack[k] = f
            <6>1. k = n - 1
              BY <1>2, <4>2
            <6>2. QED
              BY <6>1 DEF f
          <5>3. QED
            BY <4>2, <5>1, <5>2
        <4>3. CASE k \in 1 .. d
          BY <1>2, <3>2, <3>3, <4>3 DEF t
        <4>4. QED
          BY <1>2, <4>1, <4>2, <4>3
      <3>5. u = stack
        BY <1>2, <3>3, <3>4, SeqEqual DEF n
      <3>6. QED
        BY <3>5 DEF u, t
    <2>2. Append(low, f) \in Seq(FrameType)
      BY <1>3, <1>4
    <2>3. Total(RecursionsOf(Append(Append(low, f), g))) = Total(RecursionsOf(Append(low, f))) + g.recursions
      BY <1>3, <2>2, OneMoreRun
    <2>4. /\ Total(RecursionsOf(Append(low, f))) = Total(RecursionsOf(low)) + f.recursions
          /\ Total(RecursionsOf(Append(low, h))) = Total(RecursionsOf(low)) + h.recursions
      BY <1>3, <1>4, <1>12, OneMoreRun
    <2>5. Total(RecursionsOf(low)) \in Nat
      BY <1>4, RecursionsType
    <2>6. okNested = Total(RecursionsOf(low)) + f.recursions + g.recursions
      BY <1>5, <2>1, <2>3, <2>4, <2>5 DEF IInv, Counted
    <2>7. okNested' = Total(RecursionsOf(low)) + h.recursions
      <3>1. h.recursions = Recursions(f, g)
        BY <1>12
      <3>2. h.recursions + okNested = f.recursions + g.recursions + okNested' /\ h.recursions \in Nat
        BY <1>8, <3>1
      <3>3. okNested \in Nat
        BY TopFacts DEF TypeOK
      <3> DEFINE lower == Total(RecursionsOf(low))
      <3>4. lower \in Nat /\ okNested = lower + f.recursions + g.recursions
        BY <2>5, <2>6
      <3> HIDE DEF lower
      <3>5. okNested' = lower + h.recursions
        BY <1>5, <1>23, <3>2, <3>3, <3>4
      <3>6. QED
        BY <3>5 DEF lower
    <2>8. QED
      BY <1>1, <2>4, <2>7 DEF Counted
  <1>28. QED
    BY <1>1, <1>22, <1>24, <1>25, <1>26, <1>27 DEF IInv

-----------------------------------------------------------------------------
(* The invariant holds.                                                    *)
LEMMA InitInv == ASSUME Init PROVE IInv
  <1>1. remaining = MaxCalls /\ elapsed = FALSE /\ okNested = 0 /\ stack = <<Frame(Corpus)>>
    BY DEF Init
  <1> DEFINE g == Frame(Corpus)
  <1>2. Corpus \in Seq(Span) /\ MaxCalls \in Nat
    BY EngineAssumption DEF EngineAssumption
  <1>3. Calls(remaining) \in Nat /\ remaining \in 0 .. MaxCalls
    BY <1>1, <1>2 DEF Calls
  <1>4. IsNew(g, Calls(remaining))
    BY <1>2, <1>3, FrameIsNew
  <1> HIDE DEF g
  <1>5. /\ g \in FrameType /\ g.place = "head" /\ g.recursions = 0
        /\ FrameInv(g, 0, remaining, elapsed)
    <2>1. elapsed \in BOOLEAN /\ 0 \in Nat
      BY <1>1
    <2>2. FrameInv(g, 0, remaining, elapsed)
      BY <1>3, <1>4, <2>1, NewRun
    <2>3. QED
      BY <1>4, <2>2 DEF IsNew
  <1>6. /\ stack \in Seq(FrameType) /\ Len(stack) = 1 /\ stack[1] = g /\ stack # <<>>
    BY <1>1, <1>5 DEF g
  <1>7. TypeOK /\ Stacked
    <2>1. TypeOK
      BY <1>1, <1>3, <1>6 DEF TypeOK
    <2>2. Stacked
      BY <1>5, <1>6 DEF Stacked
    <2>3. QED
      BY <2>1, <2>2
  <1>8. ASSUME NEW k \in 1 .. Len(stack)
        PROVE  FrameInv(stack[k], k - 1, remaining, elapsed)
    BY <1>5, <1>6
  <1>9. Counted
    <2>1. stack = Append(<<>>, g) /\ <<>> \in Seq(FrameType) /\ Len(<<>>) = 0
      BY <1>1 DEF g
    <2>2. Total(RecursionsOf(Append(<<>>, g))) = Total(RecursionsOf(<<>>)) + g.recursions
      BY <1>5, <2>1, OneMoreRun
    <2>3. Len(RecursionsOf(<<>>)) = 0
      BY <2>1, RecursionsType
    <2>4. Total(RecursionsOf(<<>>)) = 0
      BY <2>3, TotalOfNone
    <2>5. QED
      BY <1>1, <1>5, <2>1, <2>2, <2>4 DEF Counted
  <1>10. QED
    BY <1>7, <1>8, <1>9 DEF IInv

LEMMA StepInv == ASSUME IInv, [Next]_vars PROVE IInv'
  <1>1. CASE UNCHANGED vars
    BY <1>1 DEF vars, IInv, TypeOK, Stacked, Counted
  <1>2. CASE Run
    BY <1>2, TurnBeginInv, PlannerFailsInv, ReplyInvalidInv, ReplyLookInv, ReplyPeekInv,
       ReplyFinalInv, ReplyMapInv, MapEndsInv, ReplyRecurseRefusedInv, ReplyRecurseInv,
       ReturnInv, LoopExitInv, ForcedNothingInv, ForcedFinalInv, CloseInv DEF Run
  <1>3. CASE Expire
    BY <1>3, ExpireInv
  <1>4. QED
    BY <1>1, <1>2, <1>3 DEF Next

THEOREM Invariance == Spec => []IInv
  <1>1. Init => IInv
    BY InitInv
  <1>2. IInv /\ [Next]_vars => IInv'
    BY StepInv
  <1>3. QED
    BY <1>1, <1>2, PTL DEF Spec

-----------------------------------------------------------------------------
(* What it implies.                                                        *)

(* Every field of every run keeps its type: what a model replies never     *)
(* takes the record of engine.rs out of its shape.                         *)
THEOREM Typing == Spec => []TypeOK
  BY Invariance, PTL DEF IInv

(* No run cites what no leaf of it, or of a run nested in it, answered on  *)
(* and no peek looked into: validate_final grounds every citation.  That a *)
(* peek showed any of it the code does not see to.                         *)
THEOREM CitationsGrounded == Spec => []CitesWereRead
  <1>1. IInv => CitesWereRead
    <2> SUFFICES ASSUME IInv, NEW f \in Frames, NEW c \in f.cites
                 PROVE  \E s \in f.read \cup f.blank : Within(f.ctx[c], s)
      BY DEF CitesWereRead
    <2>1. PICK k \in 1 .. Len(stack) : f = stack[k]
      BY DEF Frames, ToSet, IInv, TypeOK
    <2>2. Evident(f)
      BY <2>1 DEF IInv, FrameInv
    <2>3. QED
      BY <2>2 DEF Evident, Grounded
  <1>2. QED
    BY <1>1, Invariance, PTL

(* The count of a root run that has nothing nested in it.                  *)
LEMMA OneRunCounts == ASSUME IInv, Len(stack) = 1 PROVE Root.recursions = okNested
  <1>1. stack \in Seq(FrameType) /\ Root \in FrameType
    BY DEF IInv, TypeOK, Root
  <1>2. stack = Append(<<>>, Root) /\ <<>> \in Seq(FrameType) /\ Len(<<>>) = 0
    BY <1>1 DEF Root
  <1>3. Total(RecursionsOf(Append(<<>>, Root))) = Total(RecursionsOf(<<>>)) + Root.recursions
    BY <1>1, <1>2, OneMoreRun
  <1>4. Len(RecursionsOf(<<>>)) = 0
    BY <1>2, RecursionsType
  <1>5. Total(RecursionsOf(<<>>)) = 0
    BY <1>4, TotalOfNone
  <1>6. Root.recursions \in Nat
    BY <1>1 DEF FrameType
  <1>7. QED
    BY <1>2, <1>3, <1>5, <1>6 DEF IInv, Counted

(* successful_recursions of the record is the number of nested runs that   *)
(* ended ok, however they were nested and merged.                          *)
THEOREM RecursionsCounted == Spec => []RecursionsAreReal
  <1>1. IInv => RecursionsAreReal
    BY OneRunCounts DEF RecursionsAreReal
  <1>2. QED
    BY <1>1, Invariance, PTL

(* A run returns status ok only with an answer of the planner that meets   *)
(* the evidence policy of the query, and no run cites a source the policy  *)
(* does not allow.                                                         *)
THEOREM PolicyMet == Spec => []OkMeetsPolicy
  <1>1. IInv => OkMeetsPolicy
    <2> SUFFICES ASSUME IInv
                 PROVE  OkMeetsPolicy
      OBVIOUS
    <2>1. 1 \in 1 .. Len(stack) /\ Len(stack) \in Nat
      BY TopType DEF IInv
    <2>2. FrameInv(Root, 0, remaining, elapsed) /\ (1 < Len(stack) => Root.place = "nested")
      BY <2>1 DEF IInv, Root, Stacked
    <2>3. ASSUME Root.status = "ok"
          PROVE  /\ Root.answer = "planned"
                 /\ Cardinality(Root.cites) >= MinCites
                 /\ okNested >= MinRecursions
      <3>1. Root.place # "nested"
        BY <2>2, <2>3 DEF FrameInv, Paced
      <3>2. ~(1 < Len(stack))
        BY <2>2, <3>1
      <3>3. Len(stack) = 1
        <4> DEFINE n == Len(stack)
        <4>1. n \in Nat /\ n # 0
          BY TopType DEF IInv
        <4>2. ~(1 < n)
          BY <3>2
        <4> HIDE DEF n
        <4>3. n = 1
          BY <4>1, <4>2
        <4>4. QED
          BY <4>3 DEF n
      <3>4. Root.recursions = okNested
        BY <3>3, OneRunCounts
      <3>5. QED
        BY <2>2, <2>3, <3>4 DEF FrameInv, Earned
    <2>4. ASSUME NEW f \in Frames, NEW c \in f.cites
          PROVE  f.ctx[c].source \in Allowed
      <3>1. PICK k \in 1 .. Len(stack) : f = stack[k]
        BY DEF Frames, ToSet, IInv, TypeOK
      <3>2. Evident(f)
        BY <3>1 DEF IInv, FrameInv
      <3>3. QED
        BY <3>2 DEF Evident
    <2>5. QED
      BY <2>3, <2>4 DEF OkMeetsPolicy
  <1>2. QED
    BY <1>1, Invariance, PTL

(* "budget_exhausted" names a bound that was reached, and the forced turn  *)
(* comes only when the steps ran out.                                      *)
THEOREM BudgetIsABound == Spec => []BudgetMeansBound
  <1>1. IInv => BudgetMeansBound
    <2> SUFFICES ASSUME IInv
                 PROVE  BudgetMeansBound
      OBVIOUS
    <2>1. Top.place \in {"close", "done"} /\ Top.status = "budget" =>
            Top.step = StepsAt(Depth) \/ remaining = 0 \/ elapsed
      BY TopFacts DEF Paced
    <2>2. ASSUME NEW i \in 1 .. Len(stack), stack[i].forced
          PROVE  stack[i].step = StepsAt(i - 1)
      BY <2>2 DEF IInv, FrameInv, Paced
    <2>3. QED
      BY <2>1, <2>2 DEF BudgetMeansBound
  <1>2. QED
    BY <1>1, Invariance, PTL

(* The steps of a finished run add up to the model calls it reports.       *)
THEOREM CallsAccounted == Spec => []TraceAccountsForCalls
  <1>1. IInv => TraceAccountsForCalls
    <2> SUFFICES ASSUME IInv, Top.place = "done"
                 PROVE  LET gap == Calls(remaining) - Top.start - Total(CostsAt(Top.trace, Depth))
                        IN  gap = 0 \/ (gap = 1 /\ Top.forced)
      BY DEF TraceAccountsForCalls
    <2> DEFINE spent == Total(CostsAt(Top.trace, Depth))
    <2>1. \/ spent = Calls(remaining) - Top.start
          \/ spent = Calls(remaining) - Top.start - 1 /\ Top.forced
      BY TopFacts DEF Billed
    <2>2. Calls(remaining) \in Nat /\ Top.start \in Nat
      BY TopFacts DEF FrameType
    <2> HIDE DEF spent
    <2>3. CASE spent = Calls(remaining) - Top.start
      <3>1. Calls(remaining) - Top.start - spent = 0
        BY <2>2, <2>3
      <3>2. QED
        BY <3>1 DEF spent
    <2>4. CASE spent = Calls(remaining) - Top.start - 1 /\ Top.forced
      <3>1. Calls(remaining) - Top.start - spent = 1
        BY <2>2, <2>4
      <3>2. QED
        BY <2>4, <3>1 DEF spent
    <2>5. QED
      BY <2>1, <2>3, <2>4
  <1>2. QED
    BY <1>1, Invariance, PTL

(* There is one next step of a depth, and NextAt is it.                    *)
LEMMA NextIsNext ==
    ASSUME NEW tr \in Trace, NEW i \in 1 .. Len(tr), NEW e, NEW j \in Nat, IsNext(tr, i, e, j)
    PROVE  NextAt(tr, i, e) = j
  <1>1. Len(tr) \in Nat
    BY StepsOf
  <1> DEFINE P(x) == tr[x].depth = e /\ \A k \in i + 1 .. x - 1 : tr[k].depth # e
  <1>2. j \in i + 1 .. Len(tr) /\ P(j)
    BY DEF IsNext
  <1>3. ASSUME NEW x \in i + 1 .. Len(tr), P(x)
        PROVE  x = j
    <2>1. ~(x < j)
      <3>1. SUFFICES ASSUME x < j
                     PROVE  FALSE
        OBVIOUS
      <3>2. x \in i + 1 .. j - 1
        BY <1>1, <1>2, <3>1
      <3>3. QED
        BY <1>2, <1>3, <3>2
    <2>2. ~(j < x)
      <3>1. SUFFICES ASSUME j < x
                     PROVE  FALSE
        OBVIOUS
      <3>2. j \in i + 1 .. x - 1
        BY <1>1, <1>2, <3>1
      <3>3. QED
        BY <1>2, <1>3, <3>2
    <2>3. QED
      BY <1>1, <1>2, <2>1, <2>2
  <1>4. NextAt(tr, i, e) = CHOOSE x \in i + 1 .. Len(tr) : P(x)
    BY DEF NextAt
  <1> HIDE DEF P
  <1>5. QED
    BY <1>2, <1>3, <1>4

(* The trace of a run reads as one list, spliced from the traces of the    *)
(* runs nested in it, and the parent of a nested step is the turn of the   *)
(* run it came of.                                                         *)
THEOREM TracesNest == Spec => []TraceNests
  <1>1. IInv => TraceNests
    <2> SUFFICES ASSUME IInv, NEW n \in 1 .. Len(stack), NEW i \in 1 .. Len(stack[n].trace)
                 PROVE  LET tr == stack[n].trace
                            own == n - 1
                        IN  /\ tr[i].index = i - 1
                            /\ tr[i].depth > own =>
                                 /\ \A d \in own .. tr[i].depth - 1 :
                                      \E j \in i + 1 .. Len(tr) : tr[j].depth = d
                                 /\ tr[NextAt(tr, i, tr[i].depth - 1)].op = "recurse"
                                 /\ tr[i].parent =
                                      Cardinality({j \in 1 .. NextAt(tr, i, own) - 1 :
                                                     tr[j].depth = own})
      BY DEF TraceNests
    <2> DEFINE tr == stack[n].trace
               own == n - 1
    <2>1. tr \in Trace /\ Reads(tr, own)
      <3>1. stack[n] \in FrameType /\ FrameInv(stack[n], n - 1, remaining, elapsed)
        BY DEF IInv, TypeOK
      <3>2. QED
        BY <3>1 DEF FrameType, Trace, FrameInv, Nests
    <2> HIDE DEF tr, own
    <2>2. i \in 1 .. Len(tr)
      BY DEF tr
    <2>3. tr[i].index = i - 1
      BY <2>1, <2>2 DEF Reads
    <2>4. ASSUME tr[i].depth > own
          PROVE  /\ \A d \in own .. tr[i].depth - 1 :
                      \E j \in i + 1 .. Len(tr) : tr[j].depth = d
                 /\ tr[NextAt(tr, i, tr[i].depth - 1)].op = "recurse"
                 /\ tr[i].parent = Cardinality({j \in 1 .. NextAt(tr, i, own) - 1 :
                                                  tr[j].depth = own})
      <3>1. Belongs(tr, i, own)
        BY <2>1, <2>2, <2>4 DEF Reads
      <3>2. PICK j \in Nat : IsNext(tr, i, tr[i].depth - 1, j) /\ tr[j].op = "recurse"
        BY <3>1 DEF Belongs
      <3>3. NextAt(tr, i, tr[i].depth - 1) = j
        BY <2>1, <2>2, <3>2, NextIsNext
      <3>4. PICK m \in Nat : IsNext(tr, i, own, m) /\ tr[i].parent = Cardinality(OwnBefore(tr, own, m))
        BY <3>1 DEF Belongs
      <3>5. NextAt(tr, i, own) = m
        BY <2>1, <2>2, <3>4, NextIsNext
      <3>6. QED
        BY <3>1, <3>2, <3>3, <3>4, <3>5 DEF Belongs, OwnBefore
    <2>5. QED
      BY <2>3, <2>4 DEF tr, own
  <1>2. QED
    BY <1>1, Invariance, PTL

=============================================================================
