-------------------------------- MODULE Notes --------------------------------
(***************************************************************************)
(* The release notes of one build (src/scripts/rolling-notes.mjs, with the *)
(* batches, retries and splits of src/scripts/notes-batches.mjs).  The     *)
(* descriptions of the changes are numbered; a model rewrites them batch   *)
(* by batch and then merges the highlights.  What the model answers, and   *)
(* whether it answers, is open.  Wording is left out, so a description is  *)
(* its size, and highlights are counted.                                   *)
(***************************************************************************)
EXTENDS Integers, SequencesExt, FiniteSetsExt

CONSTANTS
    BatchSize,      \* AI_NOTES_BATCH_SIZE
    BatchBytes,     \* AI_NOTES_BATCH_BYTES
    Attempts,       \* AI_NOTES_ATTEMPTS
    MergeAttempts,  \* answers a merge asks for: 3 in the code
    GroupSize,      \* highlights merged at a time: 8 in the code
    Limit,          \* highlights kept: 3 in the code
    MaxHighlights   \* bound: highlights the model puts in one answer

ASSUME NotesAssumption ==
    /\ {BatchSize, BatchBytes, Attempts, MergeAttempts, GroupSize, Limit}
         \subseteq Nat \ {0}
    /\ MaxHighlights \in Nat

VARIABLES
    stage,      \* what the generator does
    strict,     \* --require-ai
    sizes,      \* the size of each description
    work,       \* batches and parts of batches still to be reviewed, in order
    attempt,    \* failed attempts of the model call under way
    changes,    \* ids of the rewritten descriptions
    highlights, \* how many highlights there are, of this round of merging
    groups,     \* sizes of the groups still to be merged in this round
    merged,     \* highlights that the groups of this round came to
    remerge     \* invalid answers to the merge under way

notes == <<stage, strict, sizes, work, attempt, changes, highlights, groups,
           merged, remerge>>

Running == {"review", "merge"}
Over == {"written", "plain", "none", "failed"}

Ids == [i \in 1 .. Len(sizes) |-> i]

NotesInit ==
    /\ stage = "idle"
    /\ strict = FALSE
    /\ sizes = <<>>
    /\ work = <<>>
    /\ changes = <<>>
    /\ groups = <<>>
    /\ attempt = 0
    /\ highlights = 0
    /\ merged = 0
    /\ remerge = 0

(* The process is gone, and with it all it held.                           *)
NotesStop ==
    /\ stage' = "idle"
    /\ strict' = FALSE
    /\ sizes' = <<>>
    /\ work' = <<>>
    /\ changes' = <<>>
    /\ groups' = <<>>
    /\ attempt' = 0
    /\ highlights' = 0
    /\ merged' = 0
    /\ remerge' = 0

-----------------------------------------------------------------------------

(* Batches of at most BatchSize items and BatchBytes bytes, in order: the  *)
(* next item joins the batch under way or starts another one.              *)
Put(acc, i, size) ==
    IF acc.batch # <<>> /\ (Len(acc.batch) >= BatchSize \/ acc.bytes + size[i] > BatchBytes)
    THEN [full |-> Append(acc.full, acc.batch), batch |-> <<i>>, bytes |-> size[i]]
    ELSE [acc EXCEPT !.batch = Append(@, i), !.bytes = @ + size[i]]

Batches(items, size) ==
    LET after[n \in 0 .. Len(items)] ==
            IF n = 0 THEN [full |-> <<>>, batch |-> <<>>, bytes |-> 0]
            ELSE Put(after[n - 1], items[n], size)
        all == after[Len(items)]
    IN  IF all.batch = <<>> THEN all.full ELSE Append(all.full, all.batch)

(* What validateCoverage lets pass: one entry with a summary for each id.  *)
Covers(entries, expected) ==
    /\ Len(entries) = Len(expected)
    /\ ToSet(entries) = ToSet(expected)

(* How a request fails.  "incomplete" is an answer that was cut off, is no *)
(* JSON or does not cover its batch; "rejected" a status of 4xx other than *)
(* 408 and 429; "transport" all that a retry waits for, and a list of      *)
(* changes with a null in it, which throws a TypeError like fetch does.    *)
Failures == {"rejected", "transport", "incomplete"}

(* The generator gives up, and says so or prints the plain list.           *)
Fallback ==
    /\ stage' = IF strict THEN "failed" ELSE "plain"
    /\ UNCHANGED <<strict, sizes, work, attempt, changes, highlights, groups,
                   merged, remerge>>

(* The generator starts on the commits it has found: an empty range, no    *)
(* key, or a description above the byte limit leave the model out.         *)
NotesStart(found, requireAi, hasKey) ==
    LET whole == Batches([i \in 1 .. Len(found) |-> i], found)
        tooLong == \E i \in 1 .. Len(found) : found[i] > BatchBytes
    IN  /\ strict' = requireAi
        /\ sizes' = found
        /\ work' = IF tooLong THEN <<>> ELSE whole
        /\ stage' = CASE found = <<>> -> "none"
                      [] found # <<>> /\ hasKey /\ ~tooLong -> "review"
                      [] OTHER -> IF requireAi THEN "failed" ELSE "plain"
        /\ attempt' = 0
        /\ changes' = <<>>
        /\ highlights' = 0
        /\ groups' = <<>>
        /\ merged' = 0
        /\ remerge' = 0

-----------------------------------------------------------------------------
(* The review: one batch at a time, through retryModelCall.                *)

(* An entry may name any description, and one may be left out or come      *)
(* twice.  The notes look descriptions up by their id, so that the order   *)
(* of an answer makes no difference and one order stands for all.          *)
Reviewed ==
    /\ stage = "review"
    /\ work # <<>>
    /\ \E entries \in SeqOf(ToSet(Ids), Len(Head(work)) + 1), h \in 0 .. MaxHighlights :
         /\ \A i, j \in DOMAIN entries : i < j => entries[i] <= entries[j]
         /\ Covers(entries, Head(work))
         /\ changes' = changes \o entries
         /\ highlights' = highlights + h
    /\ work' = Tail(work)
    /\ attempt' = 0
    /\ UNCHANGED <<stage, strict, sizes, groups, merged, remerge>>

\* A count of attempts that starts over.
RetryReviewForever ==
    /\ stage = "review"
    /\ work # <<>>
    /\ attempt' = (attempt + 1) % Attempts
    /\ UNCHANGED <<stage, strict, sizes, work, changes, highlights, groups,
                   merged, remerge>>

(* Any failure but a rejection is tried again.                             *)
RetryReview ==
    /\ stage = "review"
    /\ work # <<>>
    /\ attempt + 1 < Attempts
    /\ attempt' = attempt + 1
    /\ UNCHANGED <<stage, strict, sizes, work, changes, highlights, groups,
                   merged, remerge>>

\* Halves that both hold the item in the middle.
HalvesOverlapping(batch) ==
    LET middle == (Len(batch) + 1) \div 2
    IN  <<SubSeq(batch, 1, middle), SubSeq(batch, middle, Len(batch))>>

Halves(batch) ==
    LET middle == (Len(batch) + 1) \div 2
    IN  <<SubSeq(batch, 1, middle), SubSeq(batch, middle + 1, Len(batch))>>

Recoverable(batch, failure) == failure = "incomplete" /\ Len(batch) >= 2

(* The last failure decides what becomes of the batch.                     *)
ReviewFails ==
    /\ stage = "review"
    /\ work # <<>>
    /\ \E failure \in Failures :
         /\ attempt + 1 = Attempts \/ failure = "rejected"
         /\ \/ /\ Recoverable(Head(work), failure)
               /\ work' = Halves(Head(work)) \o Tail(work)
               /\ attempt' = 0
               /\ UNCHANGED <<stage, strict, sizes, changes, highlights,
                              groups, merged, remerge>>
            \/ ~Recoverable(Head(work), failure) /\ Fallback

-----------------------------------------------------------------------------
(* consolidateHighlights: rounds over groups until one group is left, and  *)
(* that one merged too.  Groups are merged beside each other in the code,  *)
(* and none sees another.                                                  *)

GroupsOf(n) ==
    LET parts == (n + GroupSize - 1) \div GroupSize
    IN  [k \in 1 .. parts |->
            IF k < parts THEN GroupSize ELSE n - (parts - 1) * GroupSize]

(* A round over n highlights; none or a single one is left as it is.       *)
Round(n) ==
    /\ highlights' = n
    /\ groups' = IF n < 2 THEN <<>> ELSE GroupsOf(n)
    /\ merged' = 0

ReviewEnds ==
    /\ stage = "review"
    /\ work = <<>>
    /\ stage' = "merge"
    /\ Round(highlights)
    /\ UNCHANGED <<strict, sizes, work, attempt, changes, remerge>>

(* The highlights of the group at hand, when they are replaced by n.       *)
GroupDone(n) ==
    /\ groups' = Tail(groups)
    /\ merged' = merged + n
    /\ attempt' = 0
    /\ remerge' = 0
    /\ UNCHANGED <<stage, strict, sizes, work, changes, highlights>>

Merge ==
    /\ stage = "merge"
    /\ groups # <<>>
    /\ \/ Head(groups) = 1 /\ GroupDone(1)
       \/ Head(groups) > 1 /\ \E n \in 1 .. Limit : GroupDone(n)

(* An answer without highlights, or with too many of them.                 *)
MergeInvalid ==
    /\ stage = "merge"
    /\ groups # <<>>
    /\ Head(groups) > 1
    /\ \/ /\ remerge + 1 < MergeAttempts
          /\ remerge' = remerge + 1
          /\ attempt' = 0
          /\ UNCHANGED <<stage, strict, sizes, work, changes, highlights,
                         groups, merged>>
       \/ remerge + 1 = MergeAttempts /\ Fallback

MergeFails ==
    /\ stage = "merge"
    /\ groups # <<>>
    /\ Head(groups) > 1
    /\ \/ /\ attempt + 1 < Attempts
          /\ attempt' = attempt + 1
          /\ UNCHANGED <<stage, strict, sizes, work, changes, highlights,
                         groups, merged, remerge>>
       \/ Fallback

Progress(before, after) == after < before

RoundEnds ==
    /\ stage = "merge"
    /\ groups = <<>>
    /\ highlights > GroupSize
    /\ \/ /\ Progress(highlights, merged)
          /\ Round(merged)
          /\ UNCHANGED <<stage, strict, sizes, work, attempt, changes, remerge>>
       \/ ~Progress(highlights, merged) /\ Fallback

(* The coverage of the whole is checked again, and the length of the text. *)
Written ==
    /\ stage = "merge"
    /\ groups = <<>>
    /\ highlights <= GroupSize
    /\ \/ /\ Covers(changes, Ids)
          /\ stage' = "written"
          /\ UNCHANGED <<strict, sizes, work, attempt, changes, highlights,
                         groups, merged, remerge>>
       \/ Fallback

NotesStep ==
    \/ Reviewed \/ RetryReview \/ ReviewFails \/ ReviewEnds
    \/ Merge \/ MergeInvalid \/ MergeFails \/ RoundEnds \/ Written

-----------------------------------------------------------------------------
(* Through any batching, retry and split, each description is either       *)
(* rewritten or still waiting, in exactly one place: no answer is counted  *)
(* twice and the check at the end finds all of them.                       *)
EveryChangeOnce ==
    stage \in Running \cup {"written"} =>
        LET held == changes \o FlattenSeq(work)
        IN  /\ Len(held) = Len(sizes)
            /\ ToSet(held) = ToSet(Ids)
=============================================================================
