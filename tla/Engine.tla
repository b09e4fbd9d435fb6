-------------------------------- MODULE Engine --------------------------------
(***************************************************************************)
(* The recursion engine of ryu-rlm (src/backend/src/engine.rs): the        *)
(* planning loop of run_inner, the operators it executes, the recursion    *)
(* into a sub-context and the record it returns.                           *)
(*                                                                         *)
(* A run is a frame on a stack; a recurse pushes one.  The replies of the  *)
(* models are arbitrary.  A completion is one step with any outcome that   *)
(* module Host allows: an answer or a provider error, both of which cost a *)
(* call, or the deadline, which may have cost one.  Outline, grep and note *)
(* differ in what they tell the planner alone and are one reply here; a    *)
(* trace gives them, and a peek, one name.                                 *)
(***************************************************************************)
EXTENDS Totals, FiniteSets, SequencesExt

CONSTANTS
    Sources,        \* source names
    MaxLine,        \* number of the last line of a source
    Corpus,         \* the chunks of the context that is queried
    Recut,          \* the chunks that re-cutting one chunk finer gives
    MaxSteps,       \* Budget::max_steps
    NestedSteps,    \* the ceiling on the steps of a nested run
    MaxCalls,       \* Budget::max_model_calls
    MaxDepth,       \* Budget::max_depth
    MaxFanout,      \* MAX_MAP_FANOUT
    MaxPicks,       \* most chunks a recursion names: a bound of the model alone
    MinCites,       \* EvidencePolicy::minimum_citations
    MinRecursions,  \* EvidencePolicy::minimum_successful_recursions
    Allowed,        \* sources that pass EvidencePolicy::allowed_source_prefix
    None            \* no parent

Span == [source : Sources, first : 1 .. MaxLine, last : 1 .. MaxLine]
Lines(s) == {s.source} \X (s.first .. s.last)
Within(s, o) == o.source = s.source /\ o.first <= s.first /\ o.last >= s.last

ASSUME EngineAssumption ==
    /\ MaxLine \in Nat
    /\ Corpus \in Seq(Span) /\ Corpus # <<>>
    /\ Recut \in [Span -> Seq(Span)]
    /\ \A s \in Span : \A r \in ToSet(Recut[s]) : Lines(r) \subseteq Lines(s)
    /\ {MaxSteps, NestedSteps, MaxCalls, MaxFanout, MaxPicks} \subseteq Nat \ {0}
    /\ {MaxDepth, MinCites, MinRecursions} \subseteq Nat
    /\ Allowed \subseteq Sources
    /\ None \notin Nat

VARIABLES
    stack,      \* the runs under way, the root first
    remaining,  \* RunQuota::remaining_calls, shared by all of them
    elapsed     \* the deadline, shared likewise, has passed

(* What really happened, which no code reads.                              *)
VARIABLE okNested   \* nested runs that have ended with status ok

vars == <<stack, remaining, elapsed, okNested>>

Depth == Len(stack) - 1
Top == stack[Len(stack)]
SetTop(f) == stack' = [stack EXCEPT ![Len(stack)] = f]
Calls(left) == MaxCalls - left
StepsAt(d) == IF d = 0 \/ MaxSteps < NestedSteps THEN MaxSteps ELSE NestedSteps

(* A frame: the record that is being made, the loop variables, and in the  *)
(* last three fields what was read (a leaf answered on it or a peek showed *)
(* text of it), what a peek looked into and showed nothing of, and if the  *)
(* forced turn came.                                                       *)
Frame(ctx) ==
    [ctx |-> ctx, place |-> "head", step |-> 0, before |-> 0, pending |-> {}, leaves |-> 0,
     start |-> Calls(remaining), status |-> "budget", answer |-> "none",
     cites |-> {}, trace |-> <<>>, observed |-> {}, recursions |-> 0,
     found |-> FALSE, read |-> {}, blank |-> {}, forced |-> FALSE]

Init ==
    /\ remaining = MaxCalls
    /\ elapsed = FALSE
    /\ stack = <<Frame(Corpus)>>
    /\ okNested = 0

Expire ==
    /\ ~elapsed
    /\ elapsed' = TRUE
    /\ UNCHANGED <<stack, remaining, okNested>>

-----------------------------------------------------------------------------
(* The record.                                                             *)

\* What the step cost, taken from the start of the run.
CostFromStart(f, left) == Calls(left) - f.start

Cost(f, left) == Calls(left) - f.before

Push(f, op, left) ==
    [f EXCEPT !.trace = Append(@, [index |-> Len(@), depth |-> Depth, op |-> op,
                                   parent |-> None, calls |-> Cost(f, left)])]

Continue(f, op, left) ==
    [Push(f, op, left) EXCEPT !.place = "head", !.step = @ + 1]

Grounded(f, c) == \E o \in f.observed : Within(f.ctx[c], o)

\* A validation that looks at the policy in the root run alone.
ValidAtRoot(f, C) ==
    /\ \A c \in C : Grounded(f, c)
    /\ Depth = 0 =>
        /\ \A c \in C : f.ctx[c].source \in Allowed
        /\ Cardinality(C) >= MinCites
        /\ f.recursions >= MinRecursions

Valid(f, C) ==
    /\ \A c \in C : Grounded(f, c) /\ f.ctx[c].source \in Allowed
    /\ Depth = 0 =>
        /\ Cardinality(C) >= MinCites
        /\ f.recursions >= MinRecursions

-----------------------------------------------------------------------------
(* The loop of run_inner.                                                  *)

Bounded(f) == f.step < StepsAt(Depth) /\ ~elapsed /\ remaining > 0

TurnBegin ==
    /\ Top.place = "head"
    /\ Bounded(Top)
    /\ SetTop([Top EXCEPT !.place = "calling", !.before = Calls(remaining)])
    /\ UNCHANGED <<remaining, elapsed, okNested>>

\* Any error counts as the budget's.
StatusAlwaysBudget(outcome) == "budget"

StatusOfError(outcome) == IF outcome = "host" THEN "error" ELSE "budget"

(* An error of complete, and what it leaves of the quota.                  *)
Failure(outcome, left) ==
    \/ outcome = "host" /\ remaining > 0 /\ left = remaining - 1
    \/ outcome = "deadline" /\ elapsed /\ left \in {remaining, remaining - 1} \cap Nat
    \/ outcome = "callBudget" /\ remaining = 0 /\ left = 0

(* The planner's own call fails, and the loop is left.                     *)
PlannerFails ==
    /\ Top.place = "calling"
    /\ \E outcome \in {"host", "deadline", "callBudget"}, left \in 0 .. MaxCalls :
         /\ Failure(outcome, left)
         /\ remaining' = left
         /\ SetTop([Push(Top, "plan", left) EXCEPT
                        !.place = "exit",
                        !.status = StatusOfError(outcome),
                        !.answer = IF outcome = "host" THEN "error" ELSE @])
    /\ UNCHANGED <<elapsed, okNested>>

(* The planner answers with something, for one call.                       *)
PlannerReplies ==
    /\ Top.place = "calling"
    /\ remaining > 0
    /\ remaining' = remaining - 1

Reply(f) ==
    /\ PlannerReplies
    /\ SetTop(f)
    /\ UNCHANGED <<elapsed, okNested>>

Chunks(f) == 1 .. Len(f.ctx)

(* No JSON, no operator, or one whose arguments do not address the corpus; *)
(* and the operators that read nothing.  All go on to the next turn.       *)
ReplyInvalid == Reply(Continue(Top, "invalid", remaining - 1))
ReplyLook == Reply(Continue(Top, "look", remaining - 1))

\* Every chunk that there is.
GroundsAnyChunk(start) == TRUE

(* A peek that starts within its chunk grounds the whole of it, however    *)
(* little it shows ...                                                     *)
Grounds(start) == start = "within"

(* ... and shows nothing of it where it asks for no characters, or where   *)
(* the heading alone fills the observation.                                *)
Shows(start, len) == start = "within" /\ len = "some"

ReplyPeek ==
    \E c \in Chunks(Top), start \in {"within", "past"}, len \in {"some", "none"} :
        LET s == {Top.ctx[c]}
            shown == IF Shows(start, len) THEN s ELSE {}
            blank == IF start = "within" THEN s \ shown ELSE {}
        IN  Reply([Continue(Top, "look", remaining - 1) EXCEPT
                     !.observed = @ \cup (IF Grounds(start) THEN s ELSE {}),
                     !.read = @ \cup shown, !.blank = @ \cup blank])

ReplyFinal ==
    \E C \in SUBSET Chunks(Top) :
        \/ /\ Valid(Top, C)
           /\ Reply([Push(Top, "final", remaining - 1) EXCEPT
                       !.place = "exit", !.status = "ok",
                       !.answer = "planned", !.cites = C])
        \/ /\ ~Valid(Top, C)
           /\ Reply(Continue(Top, "final(rejected)", remaining - 1))

(* A chunk may be named several times, and gets a leaf each time.          *)
ReplyMap ==
    \E C \in SUBSET Chunks(Top) \ {{}}, n \in 1 .. MaxFanout :
        /\ Cardinality(C) <= n
        /\ Reply([Top EXCEPT !.place = "mapping", !.pending = C, !.leaves = n])

\* Every chunk that was asked about counts as observed.
ObservedByAsking(asked, answered) == asked

ObservedByMap(asked, answered) == answered

\* Leaves that spend calls that are not there.
MostCallsUnchecked(n) == n

(* Every leaf draws one call until none is left.                           *)
MostCalls(n) == IF n < remaining THEN n ELSE remaining

\* A map that waits for an answer of every leaf.
MapEndsAnswered ==
    /\ Top.place = "mapping"
    /\ LET n == Top.leaves
           s == {Top.ctx[c] : c \in Top.pending}
       IN  /\ n <= remaining
           /\ remaining' = remaining - n
           /\ SetTop([Continue(Top, "map", remaining - n) EXCEPT
                        !.pending = {}, !.leaves = 0, !.found = TRUE,
                        !.observed = @ \cup s, !.read = @ \cup s])
    /\ UNCHANGED <<elapsed, okNested>>

(* Every leaf has returned: an answer, NOTHING among them, or an error.    *)
(* Before the deadline a leaf fails to be charged only when no call is     *)
(* left.                                                                   *)
MapEnds ==
    /\ Top.place = "mapping"
    /\ \E answered \in SUBSET Top.pending, spent \in 0 .. Top.leaves :
         LET most == MostCalls(Top.leaves)
             observed == {Top.ctx[c] : c \in ObservedByMap(Top.pending, answered)}
         IN  /\ Cardinality(answered) <= spent /\ spent <= most
             /\ elapsed \/ spent = most
             /\ remaining' = remaining - spent
             /\ \E found \in {Top.found, Top.found \/ answered # {}} :
                  SetTop([Continue(Top, "map", remaining - spent) EXCEPT
                            !.pending = {}, !.leaves = 0, !.found = found,
                            !.observed = @ \cup observed,
                            !.read = @ \cup {Top.ctx[c] : c \in answered}])
    /\ UNCHANGED <<elapsed, okNested>>

-----------------------------------------------------------------------------
(* recurse.                                                                *)

ReplyRecurseRefused ==
    /\ Depth + 1 > MaxDepth
    /\ Reply(Continue(Top, "recurse", remaining - 1))

(* The chosen chunks, re-cut in the order and as often as they were named. *)
SubContext(f, picks) ==
    LET upto[k \in 0 .. Len(picks)] ==
          IF k = 0 THEN <<>> ELSE upto[k - 1] \o Recut[f.ctx[picks[k]]]
    IN  upto[Len(picks)]

ReplyRecurse ==
    /\ Depth + 1 <= MaxDepth
    /\ PlannerReplies
    /\ \E picks \in SeqOf(Chunks(Top), MaxPicks) \ {<<>>} :
         stack' = Append([stack EXCEPT ![Len(stack)].place = "nested"],
                         [Frame(SubContext(Top, picks)) EXCEPT
                            !.start = Calls(remaining - 1)])
    /\ UNCHANGED <<elapsed, okNested>>

\* Every recursion counts, whatever came of it.
RecursionsWithFailed(f, g) == f.recursions + 1 + g.recursions

Recursions(f, g) ==
    f.recursions + (IF g.status = "ok" THEN 1 ELSE 0) + g.recursions

\* The nested trace as it is, with the numbers it had.
SplicedVerbatim(f, g) ==
    f.trace \o [i \in 1 .. Len(g.trace) |-> [g.trace[i] EXCEPT !.parent = f.step]]

Spliced(f, g) ==
    f.trace \o [i \in 1 .. Len(g.trace) |->
                  [g.trace[i] EXCEPT !.parent = f.step,
                                     !.index = Len(f.trace) + i - 1]]

(* The nested run has ended: its evidence and its trace go into the record *)
(* of the run above, which pushes its own step after them.                 *)
Return ==
    /\ Top.place = "done"
    /\ Len(stack) > 1
    /\ LET g == Top
           f == stack[Len(stack) - 1]
           merged == [f EXCEPT !.observed = @ \cup g.observed,
                               !.read = @ \cup g.read,
                               !.blank = @ \cup g.blank,
                               !.recursions = Recursions(f, g),
                               !.trace = Spliced(f, g)]
           own == [index |-> Len(merged.trace), depth |-> Depth - 1,
                   op |-> "recurse", parent |-> None,
                   calls |-> Cost(f, remaining)]
       IN  /\ stack' = Append(SubSeq(stack, 1, Len(stack) - 2),
                              [merged EXCEPT !.trace = Append(@, own),
                                             !.place = "head", !.step = @ + 1])
           /\ okNested' = IF g.status = "ok" THEN okNested + 1 ELSE okNested
    /\ UNCHANGED <<remaining, elapsed>>

-----------------------------------------------------------------------------
(* After the loop: the forced turn, the default answer, the record.        *)

ForcedDue(f) == f.status = "budget" /\ remaining > 0 /\ ~elapsed

LoopExit ==
    /\ \/ Top.place = "exit"
       \/ Top.place = "head" /\ ~Bounded(Top)
    /\ SetTop(IF ForcedDue(Top)
              THEN [Top EXCEPT !.place = "forced", !.before = Calls(remaining),
                               !.forced = TRUE]
              ELSE [Top EXCEPT !.place = "close"])
    /\ UNCHANGED <<remaining, elapsed, okNested>>

Forced(f, left) ==
    /\ Top.place = "forced"
    /\ remaining' = left
    /\ SetTop([f EXCEPT !.place = "close"])
    /\ UNCHANGED <<elapsed, okNested>>

(* The call fails, or the reply is no valid final: nothing is recorded.    *)
ForcedNothing ==
    \E left \in {remaining, remaining - 1} \cap Nat :
        /\ left = remaining => elapsed
        /\ Forced(Top, left)

ForcedFinal ==
    /\ remaining > 0
    /\ \E C \in SUBSET Chunks(Top) :
         \/ /\ Valid(Top, C)
            /\ Forced([Push(Top, "final(forced)", remaining - 1) EXCEPT
                         !.answer = "forced", !.cites = C], remaining - 1)
         \/ /\ ~Valid(Top, C)
            /\ Forced(Push(Top, "final(forced,rejected)", remaining - 1),
                      remaining - 1)

Close ==
    /\ Top.place = "close"
    /\ SetTop([Top EXCEPT !.place = "done",
                          !.answer = IF @ # "none" THEN @
                                     ELSE IF Top.found THEN "findings"
                                     ELSE "nothing"])
    /\ UNCHANGED <<remaining, elapsed, okNested>>

-----------------------------------------------------------------------------

Run ==
    \/ TurnBegin \/ PlannerFails
    \/ ReplyInvalid \/ ReplyLook \/ ReplyPeek \/ ReplyFinal
    \/ ReplyMap \/ MapEnds
    \/ ReplyRecurseRefused \/ ReplyRecurse \/ Return
    \/ LoopExit \/ ForcedNothing \/ ForcedFinal \/ Close

Next == Run \/ Expire

Spec == Init /\ [][Next]_vars

(* The runtime polls the one future of the run; every completion returns   *)
(* (Host!EveryRunEnds says when).                                          *)
FairSpec == Spec /\ WF_vars(Run)

-----------------------------------------------------------------------------
(***************************************************************************)
(* Properties.                                                             *)
(***************************************************************************)

Ops == {"plan", "invalid", "look", "map", "recurse", "final",
        "final(rejected)", "final(forced)", "final(forced,rejected)"}
TraceStep == [index : Nat, depth : Nat, op : Ops, parent : Nat \cup {None},
              calls : Nat]
FrameType ==
    [ctx : Seq(Span), step : Nat, before : Nat, pending : SUBSET Nat, leaves : 0 .. MaxFanout,
     place : {"head", "calling", "mapping", "nested", "exit", "forced", "close",
              "done"},
     start : Nat, status : {"budget", "ok", "error"},
     answer : {"none", "planned", "error", "forced", "findings", "nothing"},
     cites : SUBSET Nat, trace : Seq(TraceStep), observed : SUBSET Span,
     recursions : Nat, found : BOOLEAN, read : SUBSET Span, blank : SUBSET Span,
     forced : BOOLEAN]

TypeOK ==
    /\ remaining \in 0 .. MaxCalls
    /\ elapsed \in BOOLEAN
    /\ stack \in Seq(FrameType) /\ stack # <<>>
    /\ okNested \in Nat

Frames == ToSet(stack)
Root == stack[1]

(* Whatever a run cites, at any depth and in a forced answer too, was      *)
(* answered on by a leaf or looked into by a peek, within that run or one  *)
(* nested in it: neither naming a chunk nor a failed leaf nor a peek past  *)
(* the end grounds a citation.  A peek that shows nothing does (blank).    *)
CitesWereRead ==
    \A f \in Frames : \A c \in f.cites : \E s \in f.read \cup f.blank : Within(f.ctx[c], s)

(* An answer with status ok met the policy of its query with recursions    *)
(* that really ended ok, and it is the planner's own and not the forced    *)
(* one.  A source the policy does not allow is cited at no depth.          *)
OkMeetsPolicy ==
    /\ Root.status = "ok" =>
        /\ Root.answer = "planned"
        /\ Cardinality(Root.cites) >= MinCites
        /\ okNested >= MinRecursions
    /\ \A f \in Frames : \A c \in f.cites : f.ctx[c].source \in Allowed

(* successful_recursions counts each nested run that ended ok once,        *)
(* through any number of merges.                                           *)
RecursionsAreReal ==
    Len(stack) = 1 => Root.recursions = okNested

(* "budget_exhausted" is said only of a run that a bound ended: it is out  *)
(* of steps, the quota is out of calls, or the deadline has passed; and of *)
(* these only the steps ever lead to the forced turn, which a provider     *)
(* error, a passed deadline or a spent quota does not.                     *)
BudgetMeansBound ==
    /\ Top.place \in {"close", "done"} /\ Top.status = "budget" =>
         Top.step = StepsAt(Depth) \/ remaining = 0 \/ elapsed
    /\ \A i \in 1 .. Len(stack) :
         stack[i].forced => stack[i].step = StepsAt(i - 1)

(* The first step after step i of a trace that is of depth d.              *)
NextAt(tr, i, d) ==
    CHOOSE j \in i + 1 .. Len(tr) :
        tr[j].depth = d /\ \A k \in i + 1 .. j - 1 : tr[k].depth # d

(* What every step of a trace that is of depth d cost.                     *)
CostsAt(tr, d) == [i \in 1 .. Len(tr) |-> IF tr[i].depth = d THEN tr[i].calls ELSE 0]

(* The trace of a run reads as one list: its numbers count up through all  *)
(* that was spliced in, and every nested step is followed by the recurse   *)
(* step it belongs to, one level up.  Its parent tells, however deep it    *)
(* was, which turn of this very run it came of: how many steps of its own  *)
(* the run had made before.                                                *)
TraceNests ==
    \A n \in 1 .. Len(stack) :
        LET tr == stack[n].trace
            own == n - 1
        IN  \A i \in 1 .. Len(tr) :
              /\ tr[i].index = i - 1
              /\ tr[i].depth > own =>
                   /\ \A d \in own .. tr[i].depth - 1 :
                        \E j \in i + 1 .. Len(tr) : tr[j].depth = d
                   /\ tr[NextAt(tr, i, tr[i].depth - 1)].op = "recurse"
                   /\ tr[i].parent =
                        Cardinality({j \in 1 .. NextAt(tr, i, own) - 1 :
                                       tr[j].depth = own})

(* The steps of a run add up to the model_calls it reports, its nested     *)
(* runs included in the step that made them; a forced turn that brought no *)
(* final is the one call that may be missing.                              *)
TraceAccountsForCalls ==
    Top.place = "done" =>
        LET gap == Calls(remaining) - Top.start - Total(CostsAt(Top.trace, Depth))
        IN  gap = 0 \/ (gap = 1 /\ Top.forced)

(* Where every completion returns, the steps, the calls and the depth end  *)
(* every run, whatever the models reply.                                   *)
RunEnds == <>(Len(stack) = 1 /\ Root.place = "done")
=============================================================================
