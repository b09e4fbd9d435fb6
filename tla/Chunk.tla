--------------------------------- MODULE Chunk ---------------------------------
(***************************************************************************)
(* The chunker of ryu-rlm (src/backend/src/chunk.rs): documents are split  *)
(* line by line into chunks, which are what every operator and every       *)
(* citation addresses.  A recursion takes the text of some chunks for      *)
(* documents of its own and splits them again, finer                       *)
(* (src/backend/src/engine.rs, recurse), and may do so again.              *)
(*                                                                         *)
(* Of a line the model keeps its kind, its number of characters, and in    *)
(* "at" its true number in its source, which no code reads.                *)
(***************************************************************************)
EXTENDS Totals, FiniteSets, SequencesExt

CONSTANTS
    Sources,        \* names of source documents
    Corpora,        \* the corpora a context may be made of
    Targets,        \* what a caller may ask for as target_chars
    MinTarget,      \* the floor that chunk_documents clamps a target to
    MaxChars,       \* MAX_CHARS
    RecutTarget,    \* DEFAULT_TARGET_CHARS / 3, clamped likewise
    MaxDepth,       \* Budget::max_depth
    MaxPicks        \* most chunks a recursion names: a bound of the model alone

Line == [kind : {"text", "heading", "blank"}, size : Nat, at : Nat]
Document == [source : Sources, first : Nat, lines : Seq(Line)]

(* Lines of a document are numbered from its first one on.                 *)
Numbered(doc) ==
    \A k \in 1 .. Len(doc.lines) : doc.lines[k].at = doc.first + k - 1

ASSUME ChunkAssumption ==
    /\ Corpora \subseteq Seq(Document)
    /\ \A docs \in Corpora : \A k \in 1 .. Len(docs) : Numbered(docs[k])
    /\ Targets \subseteq Nat
    /\ {MinTarget, MaxChars, RecutTarget, MaxDepth, MaxPicks} \subseteq Nat
    /\ MinTarget <= RecutTarget /\ RecutTarget <= MaxChars

VARIABLES
    docs,       \* the documents that are being split
    target,     \* the clamped target size
    d,          \* the document the splitter is in
    i,          \* its next line
    buf,        \* the lines of the chunk being made
    bufChars,   \* buf_chars
    bufStart,   \* buf_start
    out,        \* the chunks made so far
    depth       \* recursions above this split

vars == <<docs, target, d, i, buf, bufChars, bufStart, out, depth>>

\* A clamp that only looks for what is too large.
ClampedAbove(t) == IF t > MaxChars THEN MaxChars ELSE t

Clamped(t) == IF t < MinTarget THEN MinTarget ELSE IF t > MaxChars THEN MaxChars ELSE t

(* chunk_documents begins on new documents.                                *)
Begin(ds, t) ==
    /\ docs' = ds
    /\ target' = t
    /\ d' = 1
    /\ i' = 1
    /\ buf' = <<>>
    /\ bufChars' = 0
    /\ bufStart' = IF ds = <<>> THEN 1 ELSE ds[1].first
    /\ out' = <<>>

Init ==
    /\ docs \in Corpora
    /\ target \in {Clamped(t) : t \in Targets}
    /\ d = 1
    /\ i = 1
    /\ buf = <<>>
    /\ bufChars = 0
    /\ bufStart = IF docs = <<>> THEN 1 ELSE docs[1].first
    /\ out = <<>>
    /\ depth = 0

-----------------------------------------------------------------------------
(* split_one.                                                              *)

Doc == docs[d]
Finished == d > Len(docs)
Chars(line) == line.size + 1
SoftCeiling == IF 2 * target < MaxChars THEN 2 * target ELSE MaxChars

HeadingBreak(line) == line.kind = "heading" /\ bufChars >= target \div 3
ParagraphBreak(line) == line.kind = "blank" /\ bufChars >= target

\* A cut that comes one line too late.
ForcedLate(line) == bufChars > SoftCeiling

Forced(line) == bufChars + Chars(line) > SoftCeiling

Breaks(line) ==
    /\ HeadingBreak(line) \/ ParagraphBreak(line) \/ Forced(line)
    /\ buf # <<>>

AllBlank(text) == \A k \in 1 .. Len(text) : text[k].kind = "blank"

\* A chunk is dropped when it opens with a blank line.
PushChunkTrimmed(last) ==
    IF buf[1].kind = "blank" THEN out
    ELSE Append(out, [id |-> Len(out), source |-> Doc.source, start |-> bufStart,
                      end |-> last, text |-> buf])

(* push_chunk: pure whitespace is dropped rather than numbered.            *)
PushChunk(last) ==
    IF AllBlank(buf) THEN out
    ELSE Append(out, [id |-> Len(out), source |-> Doc.source, start |-> bufStart,
                      end |-> last, text |-> buf])

LineNo == Doc.first + i - 1

LastLine == Doc.first + Len(Doc.lines) - 1

(* The loop body: what was gathered is closed at a break, and the line     *)
(* goes into what is gathered.                                             *)
Cut(line) ==
    /\ out' = PushChunk(LineNo - 1)
    /\ buf' = <<line>>
    /\ bufChars' = Chars(line)
    /\ bufStart' = LineNo

Gather(line) ==
    /\ buf' = Append(buf, line)
    /\ bufChars' = bufChars + Chars(line)
    /\ UNCHANGED <<out, bufStart>>

SplitLine ==
    /\ ~Finished
    /\ i <= Len(Doc.lines)
    /\ LET line == Doc.lines[i]
       IN  IF Breaks(line) THEN Cut(line) ELSE Gather(line)
    /\ i' = i + 1
    /\ UNCHANGED <<docs, target, d, depth>>

(* The loop is over: the rest is a chunk, and the next document begins.    *)
EndDocument ==
    /\ ~Finished
    /\ i > Len(Doc.lines)
    /\ out' = IF buf = <<>> THEN out ELSE PushChunk(LastLine)
    /\ d' = d + 1
    /\ i' = 1
    /\ buf' = <<>>
    /\ bufChars' = 0
    /\ bufStart' = IF d < Len(docs) THEN docs[d + 1].first ELSE 1
    /\ UNCHANGED <<docs, target, depth>>

-----------------------------------------------------------------------------
(* recurse.                                                                *)

\* Whatever comes after the last newline is left out.
RereadWhole(text) ==
    IF Len(text) > 0 THEN SubSeq(text, 1, Len(text) - 1) ELSE text

(* The lines of the text of a chunk: where it ends in an empty line the    *)
(* text ends in a newline, and str::lines makes no line of what is after.  *)
Reread(text) ==
    LET n == Len(text)
    IN  IF n > 0 /\ text[n].kind = "blank" /\ text[n].size = 0
        THEN SubSeq(text, 1, n - 1) ELSE text

\* An excerpt that numbers its lines from one.
ExcerptFromOne(c) == [source |-> c.source, first |-> 1, lines |-> Reread(c.text)]

Excerpt(c) == [source |-> c.source, first |-> c.start, lines |-> Reread(c.text)]

(* Any chunks, in any order and as often as the planner names them.        *)
Recurse ==
    /\ Finished
    /\ depth < MaxDepth
    /\ \E n \in 1 .. MaxPicks : \E picks \in [1 .. n -> 1 .. Len(out)] :
         Begin([k \in 1 .. n |-> Excerpt(out[picks[k]])], RecutTarget)
    /\ depth' = depth + 1

Next == SplitLine \/ EndDocument \/ Recurse

Spec == Init /\ [][Next]_vars

-----------------------------------------------------------------------------
(***************************************************************************)
(* Properties.                                                             *)
(***************************************************************************)

ChunkType ==
    [id : Nat, source : Sources, start : Nat, end : Nat, text : Seq(Line)]

TypeOK ==
    /\ docs \in Seq(Document)
    /\ target \in MinTarget .. MaxChars
    /\ d \in 1 .. Len(docs) + 1
    /\ i \in Nat \ {0}
    /\ buf \in Seq(Line)
    /\ bufChars \in Nat
    /\ bufStart \in Nat
    /\ out \in Seq(ChunkType)
    /\ depth \in 0 .. MaxDepth

(* A span is true: the text of a chunk is the lines of its source from     *)
(* start to end, neither more nor fewer, at every depth of a recursion, so *)
(* that a citation "path:120" lands on line 120.  What a recursion is      *)
(* given stays within the chunks it was asked of, and nothing is numbered  *)
(* out of turn: ids are positions, which is what every operator takes them *)
(* for.                                                                    *)
SpanIsTrue(c) ==
    /\ Len(c.text) = c.end - c.start + 1
    /\ \A k \in 1 .. Len(c.text) : c.text[k].at = c.start + k - 1
LinesAreTrue == \A n \in 1 .. Len(out) : SpanIsTrue(out[n])
WithinDocument(c, doc) ==
    /\ c.source = doc.source
    /\ doc.first <= c.start
    /\ c.end <= doc.first + Len(doc.lines) - 1
ChunksStayWithin ==
    \A n \in 1 .. Len(out) :
        /\ out[n].id = n - 1
        /\ \E k \in 1 .. Len(docs) : WithinDocument(out[n], docs[k])
SpansAreTrue == LinesAreTrue /\ ChunksStayWithin

(* No text is lost and none is told twice: a line with text in it is in    *)
(* one chunk for each document that has it, however the breaks fall and    *)
(* whatever whitespace is dropped.                                         *)
Holders(seqs, src, line) ==
    {n \in 1 .. Len(seqs) : seqs[n].source = src /\ \E k \in 1 .. Len(seqs[n].text) :
                                                       seqs[n].text[k] = line}
DocText == [n \in 1 .. Len(docs) |->
                [source |-> docs[n].source, text |-> docs[n].lines]]
TextIsKept ==
    Finished => \A n \in 1 .. Len(docs) :
        \A k \in 1 .. Len(docs[n].lines) :
            LET line == docs[n].lines[k]
                src == docs[n].source
            IN  line.kind # "blank" =>
                    Cardinality(Holders(out, src, line))
                        = Cardinality(Holders(DocText, src, line))

(* A chunk of several lines keeps to twice the target and to MAX_CHARS.    *)
Weights(text) == [k \in 1 .. Len(text) |-> Chars(text[k])]
TextChars(text) == Total(Weights(text)) - 1
SeveralLinesKeepCeiling ==
    \A n \in 1 .. Len(out) :
        Len(out[n].text) > 1 => TextChars(out[n].text) <= SoftCeiling

(* A recursion is never refused for want of text ("the selected chunks     *)
(* were empty"): what is left of a chunk when it is read again has text.   *)
RecursionHasText == Finished /\ depth > 0 => out # <<>>

=============================================================================
