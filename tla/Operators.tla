------------------------------ MODULE Operators ------------------------------
(***************************************************************************)
(* grep (src/backend/src/ops.rs), the operator that looks for a pattern in *)
(* the chunks of a context and reports lines by number.  A pattern is the  *)
(* set of lines it matches.                                                *)
(***************************************************************************)
EXTENDS Chunk, FiniteSetsExt

CONSTANTS
    Patterns,       \* patterns as the kinds of line they match
    HitCaps,        \* what a planner may ask for as max, MAX_GREP_HITS at most
    ContextLines,   \* what it may ask for as context_lines, 3 at most
    LabelChars,     \* characters before the line in a row: chunk, source, number
    StopChars,      \* characters of the line that tells of the ceiling on hits
    Rooms           \* characters that MAX_OBSERVATION_CHARS leaves after the lead,
                    \* which counts the hits and lists their chunks, 60 at most

ASSUME OperatorsAssumption ==
    /\ HitCaps \subseteq Nat /\ ContextLines \subseteq Nat /\ Rooms \subseteq Nat
    /\ LabelChars \in Nat /\ StopChars \in Nat

Matches(pattern, line) == line.kind \in pattern

(* The matching lines of all chunks, in order: chunk and line in it.       *)
HitsIn(chunks, n, pattern) ==
    LET text == Reread(chunks[n].text)
    IN  FlattenSeq([k \in 1 .. Len(text) |->
            IF Matches(pattern, text[k]) THEN <<[chunk |-> n, line |-> k]>> ELSE <<>>])
HitsOf(chunks, pattern) ==
    FlattenSeq([n \in 1 .. Len(chunks) |-> HitsIn(chunks, n, pattern)])

\* Rows numbered from the hit, not from where its window starts.
RowsFromHit(chunk, hit, around) ==
    LET text == Reread(chunk.text)
        lo == Max({1, hit - around})
        hi == Min({hit + around, Len(text)})
    IN  [k \in 1 .. hi - lo + 1 |->
            [id |-> chunk.id, source |-> chunk.source,
             number |-> chunk.start + hit + k - 2, line |-> text[lo + k - 1]]]

(* The rows of one hit: the line, and those around it in its chunk.        *)
Rows(chunk, hit, around) ==
    LET text == Reread(chunk.text)
        lo == Max({1, hit - around})
        hi == Min({hit + around, Len(text)})
    IN  [k \in 1 .. hi - lo + 1 |->
            [id |-> chunk.id, source |-> chunk.source,
             number |-> chunk.start + lo + k - 2, line |-> text[lo + k - 1]]]

(* A row ends its line where white space ends it, and has a newline.       *)
RowChars(row) == LabelChars + (IF row.line.kind = "blank" THEN 0 ELSE row.line.size) + 1
Written(rows, n) == Total([k \in 1 .. n |-> RowChars(rows[k])])

(* Observation::new: a text that is too long is cut at a character, which  *)
(* the planner is told.  What is shown then is the rows before the cut; it *)
(* may take the newline of the last one.                                   *)
Observed(rows, after, room) ==
    IF Written(rows, Len(rows)) + after <= room
    THEN [truncated |-> FALSE, shown |-> ToSet(rows)]
    ELSE [truncated |-> TRUE,
          shown |-> {rows[n] : n \in {k \in 1 .. Len(rows) : Written(rows, k) <= room + 1}}]

(* The count is looked at after a hit is written, so a cap of zero reports *)
(* one hit.  The ids of the chunks that were hit lead the report, and no   *)
(* cut reaches them.                                                       *)
Grep(chunks, pattern, cap, around, room) ==
    LET all == HitsOf(chunks, pattern)
        kept == SubSeq(all, 1, Min({Len(all), Max({cap, 1})}))
        rows == FlattenSeq([h \in 1 .. Len(kept) |->
                    Rows(chunks[kept[h].chunk], kept[h].line, around)])
        stop == IF kept # <<>> /\ Len(kept) >= cap THEN StopChars ELSE 0
    IN  [hits |-> Len(kept),
         ids |-> {chunks[kept[h].chunk].id : h \in 1 .. Len(kept)},
         text |-> Observed(rows, stop, room)]

(* What grep tells is true at every depth of a recursion.  A row that is   *)
(* shown whole has the line of its source that has its number, under the   *)
(* id of a chunk that holds it.  A grep that its ceiling on hits has not   *)
(* stopped lists, for every line with text in it that matches, a chunk     *)
(* with that line, wherever the splitter has put it, also when its text is *)
(* cut; and when it is not cut it shows every such line.                   *)
GrepIsTrue ==
    Finished =>
        \A pattern \in Patterns, cap \in HitCaps, around \in ContextLines, room \in Rooms :
            LET report == Grep(out, pattern, cap, around, room)
                shown == report.text.shown
            IN  /\ \A r \in shown :
                     /\ r.number = r.line.at
                     /\ r.source = out[r.id + 1].source
                     /\ r.line \in ToSet(out[r.id + 1].text)
                /\ report.hits < cap =>
                     \A n \in 1 .. Len(docs) :
                        \A k \in 1 .. Len(docs[n].lines) :
                            LET line == docs[n].lines[k]
                            IN  line.kind # "blank" /\ Matches(pattern, line) =>
                                  /\ \E m \in 1 .. Len(out) :
                                        /\ out[m].id \in report.ids
                                        /\ out[m].source = docs[n].source
                                        /\ line \in ToSet(out[m].text)
                                  /\ report.text.truncated
                                     \/ \E r \in shown : /\ r.source = docs[n].source
                                                         /\ r.line = line
=============================================================================
