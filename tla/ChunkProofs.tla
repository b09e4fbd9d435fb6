------------------------------ MODULE ChunkProofs ------------------------------
(***************************************************************************)
(* Proofs about Chunk, for any corpora, targets and depth of recursion.    *)
(*                                                                         *)
(* What is in buf is the stretch of the document that ends before line i,  *)
(* and bufStart is the number of its first line (Gathered).  With that a   *)
(* chunk has a true span when it is pushed, and since spans are true the   *)
(* documents of a recursion are numbered as the first ones were (Sound).   *)
(*                                                                         *)
(* Sizes and counts have an invariant of their own, Counts, over states    *)
(* that satisfy IInv: bufChars is the size of buf (Measured), and a line   *)
(* with text is in as many chunks as documents behind the splitter have    *)
(* it, the one under way included once the line has left buf (Kept).  Grep *)
(* reads finished chunks, so what it tells follows without a step.         *)
(***************************************************************************)
EXTENDS Operators, Induction

Sound == \A k \in 1 .. Len(docs) : Numbered(docs[k])

\* The place in the document of the first line in buf.
From == i - Len(buf)
Gathered ==
    ~Finished =>
        /\ i <= Len(Doc.lines) + 1
        /\ Len(buf) < i
        /\ bufStart = Doc.first + From - 1
        /\ \A k \in 1 .. Len(buf) : buf[k] = Doc.lines[From + k - 1]

HasText(text) == ~AllBlank(text)
ChunksHaveText == \A n \in 1 .. Len(out) : HasText(out[n].text)

\* Text that a recursion was given is not yet split, or it is in a chunk.
TextAhead ==
    depth > 0 =>
        \/ out # <<>>
        \/ /\ d = 1
           /\ docs # <<>>
           /\ \/ HasText(buf)
              \/ \E k \in i .. Len(docs[1].lines) : docs[1].lines[k].kind # "blank"

IInv ==
    /\ TypeOK
    /\ Sound
    /\ Gathered
    /\ LinesAreTrue
    /\ ChunksStayWithin
    /\ ChunksHaveText
    /\ TextAhead

-----------------------------------------------------------------------------
(* Clamping brings a target between the floor and the ceiling.             *)
LEMMA ClampedType == ASSUME NEW t \in Targets PROVE Clamped(t) \in MinTarget .. MaxChars
  BY ChunkAssumption DEF ChunkAssumption, Clamped

(* A chunk that is pushed holds the lines of buf and the number given.     *)
LEMMA PushedChunk ==
  ASSUME TypeOK, ~Finished, NEW last \in Nat
  PROVE  \/ PushChunk(last) = out /\ AllBlank(buf)
         \/ /\ HasText(buf)
            /\ Len(PushChunk(last)) = Len(out) + 1
            /\ \A n \in 1 .. Len(out) : PushChunk(last)[n] = out[n]
            /\ PushChunk(last)[Len(out) + 1] =
                 [id |-> Len(out), source |-> Doc.source, start |-> bufStart,
                  end |-> last, text |-> buf]
  BY DEF TypeOK, PushChunk, HasText, ChunkType

LEMMA PushedType ==
  ASSUME TypeOK, ~Finished, NEW last \in Nat
  PROVE  PushChunk(last) \in Seq(ChunkType)
  <1>1. Doc \in Document
    BY DEF TypeOK, Doc, Finished
  <1>2. [id |-> Len(out), source |-> Doc.source, start |-> bufStart,
         end |-> last, text |-> buf] \in ChunkType
    BY <1>1 DEF TypeOK, ChunkType, Document
  <1>3. QED
    BY <1>2 DEF TypeOK, PushChunk

(* Pushing buf with the line before i for its last keeps what is said of   *)
(* chunks.                                                                 *)
LEMMA PushKeeps ==
  ASSUME TypeOK, Sound, Gathered, LinesAreTrue, ChunksStayWithin, ChunksHaveText,
         ~Finished, buf # <<>>,
         NEW last, last = Doc.first + i - 2,
         out' = PushChunk(last), docs' = docs
  PROVE  (LinesAreTrue /\ ChunksStayWithin /\ ChunksHaveText)'
  <1>1. Doc \in Document /\ Numbered(Doc) /\ d \in 1 .. Len(docs)
    BY DEF TypeOK, Doc, Finished, Sound
  <1>2. /\ Len(buf) \in Nat \ {0} /\ i \in Nat /\ Doc.first \in Nat
        /\ Len(Doc.lines) \in Nat /\ last \in Nat
    BY <1>1, SMTT(30) DEF TypeOK, Document, Gathered
  <1>3. CASE PushChunk(last) = out
    BY <1>3 DEF LinesAreTrue, SpanIsTrue, ChunksStayWithin, WithinDocument, ChunksHaveText
  <1>4. CASE /\ HasText(buf)
             /\ Len(PushChunk(last)) = Len(out) + 1
             /\ \A n \in 1 .. Len(out) : PushChunk(last)[n] = out[n]
             /\ PushChunk(last)[Len(out) + 1] =
                  [id |-> Len(out), source |-> Doc.source, start |-> bufStart,
                   end |-> last, text |-> buf]
    <2> DEFINE c == [id |-> Len(out), source |-> Doc.source, start |-> bufStart,
                     end |-> last, text |-> buf]
    <2>1. SpanIsTrue(c)
      <3>1. Len(buf) = last - bufStart + 1
        BY <1>2 DEF Gathered, From
      <3>2. ASSUME NEW k \in 1 .. Len(buf)
            PROVE  buf[k].at = bufStart + k - 1
        <4>1. /\ buf[k] = Doc.lines[From + k - 1]
              /\ From + k - 1 \in 1 .. Len(Doc.lines)
          BY <1>2, SMTT(30) DEF Gathered, From
        <4>2. Doc.lines[From + k - 1].at = Doc.first + (From + k - 1) - 1
          BY <1>1, <4>1 DEF Numbered
        <4>3. bufStart = Doc.first + From - 1 /\ From \in Int
          BY <1>2 DEF Gathered, From
        <4>4. Doc.first + (From + k - 1) - 1 = bufStart + k - 1
          BY <1>2, <4>3
        <4>5. QED
          BY <4>1, <4>2, <4>4
      <3>3. QED
        BY <3>1, <3>2 DEF SpanIsTrue
    <2>2. WithinDocument(c, docs[d])
      BY <1>2 DEF WithinDocument, Gathered, From, Doc
    <2>3. Len(out') = Len(out) + 1 /\ out'[Len(out) + 1] = c
          /\ \A n \in 1 .. Len(out) : out'[n] = out[n]
      BY <1>4
    <2>4. Len(out) \in Nat
      BY DEF TypeOK
    <2>5. ASSUME NEW n \in 1 .. Len(out')
          PROVE  n \in 1 .. Len(out) \/ n = Len(out) + 1
      BY <2>3, <2>4
    <2> HIDE DEF c
    <2>6. LinesAreTrue'
      BY <2>1, <2>3, <2>5, SMTT(30) DEF LinesAreTrue, SpanIsTrue
    <2>7. ChunksHaveText'
      <3>1. c.text = buf
        BY DEF c
      <3>2. ASSUME NEW n \in 1 .. Len(out')
            PROVE  HasText(out'[n].text)
        <4>1. CASE n \in 1 .. Len(out)
          BY <2>3, <4>1 DEF ChunksHaveText
        <4>2. CASE n = Len(out) + 1
          BY <1>4, <2>3, <3>1, <4>2
        <4>3. QED
          BY <2>5, <4>1, <4>2
      <3>3. QED
        BY <3>2 DEF ChunksHaveText, HasText, AllBlank
    <2>8. ChunksStayWithin'
      <3>1. c.id = Len(out)
        BY DEF c
      <3>2. ASSUME NEW n \in 1 .. Len(out')
            PROVE  /\ out'[n].id = n - 1
                   /\ \E k \in 1 .. Len(docs) : WithinDocument(out'[n], docs[k])
        <4>1. CASE n \in 1 .. Len(out)
          BY <2>3, <4>1 DEF ChunksStayWithin
        <4>2. CASE n = Len(out) + 1
          BY <1>1, <2>2, <2>3, <2>4, <3>1, <4>2
        <4>3. QED
          BY <2>5, <4>1, <4>2
      <3>3. QED
        BY <3>2 DEF ChunksStayWithin, WithinDocument
    <2>9. QED
      BY <2>6, <2>7, <2>8
  <1>5. QED
    BY <1>2, <1>3, <1>4, PushedChunk

-----------------------------------------------------------------------------
(* The invariant holds of a corpus before it is split.                     *)
LEMMA InitIInv == Init => IInv
  <1> SUFFICES ASSUME Init
               PROVE  IInv
    OBVIOUS
  <1>1. docs \in Seq(Document) /\ Sound
    BY ChunkAssumption DEF ChunkAssumption, Init, Sound
  <1>2. target \in MinTarget .. MaxChars
    BY ClampedType DEF Init
  <1>3. docs # <<>> => docs[1] \in Document
    BY <1>1
  <1>4. TypeOK
    BY <1>1, <1>2, <1>3, ChunkAssumption DEF TypeOK, Init, ChunkAssumption, Document
  <1>5. Gathered
    BY <1>1, <1>3 DEF Gathered, From, Init, Finished, Doc, Document
  <1>6. LinesAreTrue /\ ChunksStayWithin /\ ChunksHaveText /\ TextAhead
    BY DEF Init, LinesAreTrue, ChunksStayWithin, ChunksHaveText, TextAhead
  <1>7. QED
    BY <1>1, <1>4, <1>5, <1>6 DEF IInv

(* One turn of the loop over the lines of a document.                      *)
LEMMA SplitLineKeeps == IInv /\ SplitLine => IInv'
  <1> SUFFICES ASSUME IInv, SplitLine
               PROVE  IInv'
    OBVIOUS
  <1> DEFINE line == Doc.lines[i]
  <1>1. /\ TypeOK /\ Sound /\ Gathered /\ LinesAreTrue /\ ChunksStayWithin
        /\ ChunksHaveText /\ TextAhead
    BY DEF IInv
  <1>2. /\ ~Finished /\ i <= Len(Doc.lines) /\ i' = i + 1
        /\ docs' = docs /\ target' = target /\ d' = d /\ depth' = depth
    BY DEF SplitLine
  <1>3. Doc \in Document /\ d \in 1 .. Len(docs)
    BY <1>1, <1>2 DEF TypeOK, Doc, Finished
  <1>4. /\ i \in Nat \ {0} /\ Doc.first \in Nat /\ Doc.lines \in Seq(Line)
        /\ Len(Doc.lines) \in Nat /\ Len(buf) \in Nat
        /\ line \in Line /\ Chars(line) \in Nat
    <2>1. /\ i \in Nat \ {0} /\ Doc.first \in Nat /\ Doc.lines \in Seq(Line)
          /\ buf \in Seq(Line)
      BY <1>1, <1>3 DEF TypeOK, Document
    <2>2. Len(Doc.lines) \in Nat /\ Len(buf) \in Nat /\ line \in Line
      BY <1>2, <2>1
    <2>3. line.size \in Nat
      BY <2>2 DEF Line
    <2>4. QED
      BY <2>1, <2>2, <2>3 DEF Chars
  <1>5. Sound' /\ Doc' = Doc /\ ~Finished'
    BY <1>1, <1>2 DEF Sound, Doc, Finished
  <1>6. CASE Breaks(line)
    <2>1. /\ buf # <<>> /\ Cut(line)
      BY <1>6 DEF SplitLine, Breaks
    <2>2. LineNo - 1 = Doc.first + i - 2 /\ LineNo \in Nat /\ LineNo - 1 \in Nat
      <3>1. buf \in Seq(Line) /\ Len(buf) # 0
        BY <1>1, <2>1 DEF TypeOK
      <3>2. Len(buf) < i
        BY <1>1, <1>2 DEF Gathered
      <3>3. i >= 2
        BY <1>4, <3>1, <3>2
      <3>4. QED
        BY <1>4, <3>3 DEF LineNo
    <2>3. (LinesAreTrue /\ ChunksStayWithin /\ ChunksHaveText)'
      BY <1>1, <1>2, <2>1, <2>2, PushKeeps DEF Cut
    <2>4. TypeOK'
      BY <1>1, <1>2, <1>4, <2>1, <2>2, PushedType DEF TypeOK, Cut
    <2>5. Gathered'
      BY <1>2, <1>4, <1>5, <2>1, <2>2 DEF Gathered, From, Cut, LineNo
    <2>6. TextAhead'
      <3>1. out' = PushChunk(LineNo - 1) /\ buf' = <<line>>
        BY <2>1 DEF Cut
      <3>2. CASE AllBlank(buf)
        <4>1. out' = out
          BY <3>1, <3>2 DEF PushChunk
        <4>2. line.kind # "blank" => HasText(buf')
          BY <3>1 DEF HasText, AllBlank
        <4>3. d = 1 => line = docs[1].lines[i]
          BY DEF Doc
        <4>4. QED
          BY <1>1, <1>2, <1>4, <3>2, <4>1, <4>2, <4>3 DEF TextAhead, HasText
      <3>3. CASE ~AllBlank(buf)
        <4>1. Len(PushChunk(LineNo - 1)) = Len(out) + 1
          BY <1>1, <1>2, <2>2, <3>3, PushedChunk
        <4>2. Len(out) \in Nat
          BY <1>1 DEF TypeOK
        <4>3. out' # <<>>
          BY <3>1, <4>1, <4>2
        <4>4. QED
          BY <4>3 DEF TextAhead
      <3>4. QED
        BY <3>2, <3>3
    <2>7. QED
      BY <1>5, <2>3, <2>4, <2>5, <2>6 DEF IInv
  <1>7. CASE ~Breaks(line)
    <2>1. Gather(line)
      BY <1>7 DEF SplitLine
    <2>2. /\ buf' = Append(buf, line) /\ out' = out /\ bufStart' = bufStart
          /\ bufChars' = bufChars + Chars(line)
      BY <2>1 DEF Gather
    <2>3. TypeOK'
      BY <1>1, <1>2, <1>4, <2>2 DEF TypeOK
    <2>4. Gathered'
      <3>1. /\ Len(buf') = Len(buf) + 1 /\ buf'[Len(buf) + 1] = line
            /\ \A k \in 1 .. Len(buf) : buf'[k] = buf[k]
        BY <1>1, <1>4, <2>2 DEF TypeOK
      <3>2. From' = From
        BY <1>2, <1>4, <3>1 DEF From
      <3>3. From + (Len(buf) + 1) - 1 = i
        BY <1>4 DEF From
      <3>4. ASSUME NEW k \in 1 .. Len(buf')
            PROVE  buf'[k] = Doc.lines[From + k - 1]
        <4>1. CASE k \in 1 .. Len(buf)
          BY <1>1, <1>2, <3>1, <4>1 DEF Gathered
        <4>2. CASE k = Len(buf) + 1
          BY <3>1, <3>3, <4>2
        <4>3. QED
          BY <1>4, <3>1, <4>1, <4>2
      <3>5. QED
        BY <1>1, <1>2, <1>4, <1>5, <2>2, <3>1, <3>2, <3>4 DEF Gathered
    <2>5. (LinesAreTrue /\ ChunksStayWithin /\ ChunksHaveText)'
      BY <1>1, <1>2, <2>2 DEF LinesAreTrue, SpanIsTrue, ChunksStayWithin, WithinDocument,
         ChunksHaveText, HasText, AllBlank
    <2>6. TextAhead'
      <3>1. HasText(buf) \/ line.kind # "blank" => HasText(buf')
        BY <1>1, <1>4, <2>2, SMTT(30) DEF TypeOK, HasText, AllBlank
      <3>2. d = 1 => line = docs[1].lines[i]
        BY DEF Doc
      <3>3. QED
        BY <1>1, <1>2, <1>4, <2>2, <3>1, <3>2 DEF TextAhead
    <2>7. QED
      BY <1>5, <2>3, <2>4, <2>5, <2>6 DEF IInv
  <1>8. QED
    BY <1>6, <1>7

(* The end of a document: what is gathered becomes its last chunk.         *)
LEMMA EndDocumentKeeps == IInv /\ EndDocument => IInv'
  <1> SUFFICES ASSUME IInv, EndDocument
               PROVE  IInv'
    OBVIOUS
  <1>1. /\ TypeOK /\ Sound /\ Gathered /\ LinesAreTrue /\ ChunksStayWithin
        /\ ChunksHaveText /\ TextAhead
    BY DEF IInv
  <1>2. /\ ~Finished /\ i > Len(Doc.lines) /\ i' = 1 /\ d' = d + 1
        /\ buf' = <<>> /\ bufChars' = 0
        /\ bufStart' = IF d < Len(docs) THEN docs[d + 1].first ELSE 1
        /\ docs' = docs /\ target' = target /\ depth' = depth
        /\ out' = IF buf = <<>> THEN out ELSE PushChunk(LastLine)
    BY DEF EndDocument
  <1>3. /\ Doc \in Document /\ d \in 1 .. Len(docs) /\ docs \in Seq(Document)
        /\ Len(docs) \in Nat
    BY <1>1, <1>2 DEF TypeOK, Doc, Finished
  <1>4. /\ i \in Nat \ {0} /\ Doc.first \in Nat /\ Doc.lines \in Seq(Line)
        /\ buf \in Seq(Line)
    BY <1>1, <1>3 DEF TypeOK, Document
  <1>5. /\ Len(Doc.lines) \in Nat /\ Len(buf) \in Nat
        /\ i = Len(Doc.lines) + 1
    BY <1>1, <1>2, <1>4 DEF Gathered
  <1>6. LastLine = Doc.first + i - 2
    BY <1>4, <1>5 DEF LastLine
  <1>7. buf # <<>> => LastLine \in Nat
    <2>1. buf # <<>> => Len(buf) # 0
      BY <1>4
    <2>2. Len(buf) < i
      BY <1>1, <1>2 DEF Gathered
    <2>3. QED
      BY <1>4, <1>5, <1>6, <2>1, <2>2
  <1>8. Sound'
    BY <1>1, <1>2 DEF Sound
  <1>9. (LinesAreTrue /\ ChunksStayWithin /\ ChunksHaveText)'
    <2>1. CASE buf = <<>>
      BY <1>1, <1>2, <2>1 DEF LinesAreTrue, SpanIsTrue, ChunksStayWithin, WithinDocument,
         ChunksHaveText, HasText, AllBlank
    <2>2. CASE buf # <<>>
      BY <1>1, <1>2, <1>6, <2>2, PushKeeps
    <2>3. QED
      BY <2>1, <2>2
  <1>10. bufStart' \in Nat
    <2>1. CASE d < Len(docs)
      <3>1. docs[d + 1] \in Document
        BY <1>3, <2>1
      <3>2. QED
        BY <1>2, <2>1, <3>1 DEF Document
    <2>2. CASE ~(d < Len(docs))
      BY <1>2, <2>2
    <2>3. QED
      BY <2>1, <2>2
  <1>11. out' \in Seq(ChunkType)
    BY <1>1, <1>2, <1>7, PushedType DEF TypeOK
  <1>12. TypeOK'
    BY <1>1, <1>2, <1>3, <1>10, <1>11 DEF TypeOK
  <1>13. Gathered'
    <2> SUFFICES ASSUME ~Finished'
                 PROVE  /\ i' <= Len(Doc'.lines) + 1
                        /\ Len(buf') < i'
                        /\ bufStart' = Doc'.first + From' - 1
                        /\ \A k \in 1 .. Len(buf') : buf'[k] = Doc'.lines[From' + k - 1]
      BY DEF Gathered
    <2>1. d < Len(docs) /\ Doc' = docs[d + 1] /\ docs[d + 1] \in Document
      BY <1>2, <1>3 DEF Finished, Doc
    <2>2. Len(Doc'.lines) \in Nat /\ Doc'.first \in Nat
      BY <2>1 DEF Document
    <2>3. Len(buf') = 0 /\ From' = 1
      BY <1>2 DEF From
    <2>4. QED
      BY <1>2, <2>1, <2>2, <2>3
  <1>14. TextAhead'
    <2>1. CASE HasText(buf)
      <3>1. buf # <<>>
        BY <1>4, <2>1 DEF HasText, AllBlank
      <3>2. Len(PushChunk(LastLine)) = Len(out) + 1 /\ Len(out) \in Nat
        <4>1. LastLine \in Nat /\ ~AllBlank(buf)
          BY <1>7, <2>1, <3>1 DEF HasText
        <4>2. Len(PushChunk(LastLine)) = Len(out) + 1
          BY <1>1, <1>2, <4>1, PushedChunk
        <4>3. QED
          BY <1>1, <4>2 DEF TypeOK
      <3>3. out' # <<>>
        BY <1>2, <3>1, <3>2
      <3>4. QED
        BY <3>3 DEF TextAhead
    <2>2. CASE ~HasText(buf)
      <3>1. out' = out
        BY <1>2, <2>2 DEF PushChunk, HasText
      <3>2. depth > 0 => out # <<>>
        <4>1. d = 1 => Doc = docs[1]
          BY DEF Doc
        <4>2. QED
          BY <1>1, <1>5, <2>2, <4>1 DEF TextAhead
      <3>3. QED
        BY <1>2, <3>1, <3>2 DEF TextAhead
    <2>3. QED
      BY <2>1, <2>2
  <1>15. QED
    BY <1>8, <1>9, <1>12, <1>13, <1>14 DEF IInv

-----------------------------------------------------------------------------
(* What is left of the text of a chunk is a stretch of it from its start   *)
(* on, with the text that was in it.                                       *)
LEMMA RereadKeeps ==
  ASSUME NEW text \in Seq(Line)
  PROVE  /\ Reread(text) \in Seq(Line)
         /\ Len(Reread(text)) <= Len(text)
         /\ \A k \in 1 .. Len(Reread(text)) : Reread(text)[k] = text[k]
         /\ HasText(text) => HasText(Reread(text))
  <1> DEFINE n == Len(text)
  <1>1. CASE n > 0 /\ text[n].kind = "blank" /\ text[n].size = 0
    <2>1. Reread(text) = SubSeq(text, 1, n - 1)
      BY <1>1 DEF Reread
    <2>2. /\ Reread(text) \in Seq(Line) /\ Len(Reread(text)) = n - 1
          /\ \A k \in 1 .. n - 1 : Reread(text)[k] = text[k]
      <3>1. n \in Nat /\ n - 1 \in 0 .. n
        BY <1>1
      <3>2. /\ SubSeq(text, 1, n - 1) \in Seq(Line)
            /\ Len(SubSeq(text, 1, n - 1)) = n - 1
            /\ \A k \in 1 .. n - 1 : SubSeq(text, 1, n - 1)[k] = text[k]
        BY <3>1
      <3>3. QED
        BY <2>1, <3>2
    <2>3. ASSUME HasText(text)
          PROVE  HasText(Reread(text))
      <3>1. PICK k \in 1 .. n : text[k].kind # "blank"
        BY <2>3 DEF HasText, AllBlank
      <3>2. k \in 1 .. n - 1
        BY <1>1, <3>1
      <3>3. QED
        BY <2>2, <3>1, <3>2 DEF HasText, AllBlank
    <2>4. QED
      BY <2>2, <2>3
  <1>2. CASE ~(n > 0 /\ text[n].kind = "blank" /\ text[n].size = 0)
    BY <1>2 DEF Reread
  <1>3. QED
    BY <1>1, <1>2

(* An excerpt of a chunk is a document, numbered as the chunk is.          *)
LEMMA ExcerptIsSound ==
  ASSUME NEW c \in ChunkType, SpanIsTrue(c)
  PROVE  /\ Excerpt(c) \in Document
         /\ Numbered(Excerpt(c))
         /\ HasText(c.text) => HasText(Excerpt(c).lines)
  <1>1. c.text \in Seq(Line) /\ c.source \in Sources /\ c.start \in Nat
    BY DEF ChunkType
  <1>2. /\ Excerpt(c).source = c.source /\ Excerpt(c).first = c.start
        /\ Excerpt(c).lines = Reread(c.text)
    BY DEF Excerpt
  <1>3. Excerpt(c) \in Document
    BY <1>1, RereadKeeps DEF Excerpt, Document
  <1>4. Numbered(Excerpt(c))
    <2>1. ASSUME NEW k \in 1 .. Len(Reread(c.text))
          PROVE  Reread(c.text)[k].at = c.start + k - 1
      <3>1. /\ Len(Reread(c.text)) \in Nat /\ Len(c.text) \in Nat
            /\ Len(Reread(c.text)) <= Len(c.text)
            /\ Reread(c.text)[k] = c.text[k]
        BY <1>1, RereadKeeps
      <3>2. k \in 1 .. Len(c.text)
        BY <3>1
      <3>3. QED
        BY <3>1, <3>2 DEF SpanIsTrue
    <2>2. QED
      BY <1>2, <2>1 DEF Numbered
  <1>5. QED
    BY <1>1, <1>2, <1>3, <1>4, RereadKeeps

(* A recursion begins on documents that are as sound as the corpus.        *)
LEMMA RecurseKeeps == IInv /\ Recurse => IInv'
  <1> SUFFICES ASSUME IInv, Recurse
               PROVE  IInv'
    OBVIOUS
  <1>1. TypeOK /\ LinesAreTrue /\ ChunksHaveText
    BY DEF IInv
  <1>2. PICK n \in 1 .. MaxPicks : \E picks \in [1 .. n -> 1 .. Len(out)] :
          Begin([k \in 1 .. n |-> Excerpt(out[picks[k]])], RecutTarget)
    BY Zenon DEF Recurse
  <1>3. PICK picks \in [1 .. n -> 1 .. Len(out)] :
          Begin([k \in 1 .. n |-> Excerpt(out[picks[k]])], RecutTarget)
    BY <1>2, Zenon
  <1> DEFINE ds == [k \in 1 .. n |-> Excerpt(out[picks[k]])]
  <1>4. n \in Nat \ {0} /\ RecutTarget \in MinTarget .. MaxChars /\ MaxPicks \in Nat
    BY ChunkAssumption DEF ChunkAssumption
  <1>5. ASSUME NEW k \in 1 .. n
        PROVE  /\ ds[k] \in Document /\ Numbered(ds[k]) /\ HasText(ds[k].lines)
    <2>1. picks[k] \in 1 .. Len(out)
      BY <1>3
    <2>2. out[picks[k]] \in ChunkType
      BY <1>1, <2>1 DEF TypeOK
    <2>3. SpanIsTrue(out[picks[k]]) /\ HasText(out[picks[k]].text)
      BY <1>1, <2>1 DEF LinesAreTrue, ChunksHaveText
    <2>4. QED
      BY <2>2, <2>3, ExcerptIsSound
  <1>6. ds \in Seq(Document) /\ Len(ds) = n /\ ds # <<>>
    BY <1>4, <1>5
  <1>7. ds[1] \in Document /\ HasText(ds[1].lines)
    BY <1>4, <1>5
  <1> HIDE DEF ds
  <1>8. /\ docs' = ds /\ target' = RecutTarget /\ d' = 1 /\ i' = 1 /\ buf' = <<>>
        /\ bufChars' = 0 /\ bufStart' = ds[1].first /\ out' = <<>>
    BY <1>3, <1>6 DEF Begin, ds
  <1>9. depth' = depth + 1 /\ depth < MaxDepth
    BY DEF Recurse
  <1>10. depth' \in 0 .. MaxDepth /\ depth' > 0
    BY <1>1, <1>9, ChunkAssumption DEF TypeOK, ChunkAssumption
  <1>11. ds[1].first \in Nat /\ Len(ds[1].lines) \in Nat
    BY <1>7 DEF Document
  <1>12. TypeOK'
    BY <1>4, <1>6, <1>8, <1>10, <1>11 DEF TypeOK
  <1>13. Sound'
    BY <1>5, <1>6, <1>8 DEF Sound
  <1>14. Gathered'
    BY <1>8, <1>11 DEF Gathered, From, Doc
  <1>15. (LinesAreTrue /\ ChunksStayWithin /\ ChunksHaveText)'
    BY <1>8 DEF LinesAreTrue, ChunksStayWithin, ChunksHaveText
  <1>16. TextAhead'
    BY <1>6, <1>7, <1>8 DEF TextAhead, HasText, AllBlank
  <1>17. QED
    BY <1>12, <1>13, <1>14, <1>15, <1>16 DEF IInv

LEMMA Inductive == Spec => []IInv
  <1>1. IInv /\ UNCHANGED vars => IInv'
    BY DEF vars, IInv, TypeOK, Sound, Gathered, From, Finished, Doc, LinesAreTrue, SpanIsTrue,
       ChunksStayWithin, WithinDocument, ChunksHaveText, TextAhead, HasText, AllBlank
  <1>2. IInv /\ [Next]_vars => IInv'
    BY <1>1, SplitLineKeeps, EndDocumentKeeps, RecurseKeeps DEF Next
  <1>3. QED
    BY <1>2, InitIInv, PTL DEF Spec

-----------------------------------------------------------------------------
(* Every variable of the splitter keeps its type, and a target stays       *)
(* between its floor and MAX_CHARS.                                        *)
THEOREM Typing == Spec => []TypeOK
  <1>1. IInv => TypeOK
    BY DEF IInv
  <1>2. QED
    BY <1>1, Inductive, PTL

(* The span of every chunk is true, at any depth of a recursion: a         *)
(* citation names the lines that were read; the chunk lies within one      *)
(* document it was made from, which is what module Engine assumes of       *)
(* Recut, and its id is its position.                                      *)
THEOREM TrueSpans == Spec => []SpansAreTrue
  <1>1. IInv => SpansAreTrue
    BY DEF IInv, SpansAreTrue
  <1>2. QED
    BY <1>1, Inductive, PTL

(* A recursion over chunks always has a chunk to look at.                  *)
THEOREM NeverEmpty == Spec => []RecursionHasText
  <1>1. IInv => RecursionHasText
    BY DEF IInv, TextAhead, RecursionHasText, Finished
  <1>2. QED
    BY <1>1, Inductive, PTL

-----------------------------------------------------------------------------
(* What is counted: characters against the ceiling, and the chunks that    *)
(* hold a line.  This invariant rests on the one above.                    *)

(* buf is measured, and is over the ceiling only as long as it is a line.  *)
Measured ==
    /\ bufChars = Total(Weights(buf))
    /\ Len(buf) > 1 => bufChars <= SoftCeiling

(* Of what has been split, each line with text in it is in a chunk of its  *)
(* own for every document before this one, and for this one if it has left *)
(* buf.                                                                    *)
Left(src, line) ==
    ~Finished /\ Doc.source = src /\ \E k \in 1 .. From - 1 : Doc.lines[k] = line
Before(src, line) == {n \in Holders(DocText, src, line) : n < d}
CountedOnce(src, line) ==
    Cardinality(Holders(out, src, line)) =
        Cardinality(Before(src, line)) + (IF Left(src, line) THEN 1 ELSE 0)
Kept == \A src \in Sources, line \in Line : line.kind # "blank" => CountedOnce(src, line)

Counts == Measured /\ SeveralLinesKeepCeiling /\ Kept

LEMMA WeightsOfNone == Total(Weights(<<>>)) = 0
  <1>1. Len(Weights(<<>>)) = 0
    BY DEF Weights
  <1>2. QED
    BY <1>1, TotalOfNone

(* A line more weighs what it has.                                         *)
LEMMA WeightsGrow ==
  ASSUME NEW text \in Seq(Line), NEW line \in Line
  PROVE  /\ Total(Weights(text)) \in Nat
         /\ Total(Weights(Append(text, line))) = Total(Weights(text)) + Chars(line)
         /\ Total(Weights(<<>>)) = 0
         /\ Total(Weights(<<line>>)) = Chars(line)
  <1>1. ASSUME NEW t \in Seq(Line)
        PROVE  /\ Weights(t) \in Seq(Nat) /\ Len(Weights(t)) = Len(t)
               /\ Weights(Append(t, line)) = Append(Weights(t), Chars(line))
    <2>1. ASSUME NEW k \in 1 .. Len(t)
          PROVE  Chars(t[k]) \in Nat
      <3>1. t[k] \in Line
        OBVIOUS
      <3>2. QED
        BY <3>1 DEF Line, Chars
    <2>2. Weights(t) \in Seq(Nat) /\ Len(Weights(t)) = Len(t) /\ DOMAIN Weights(t) = 1 .. Len(t)
      BY <2>1 DEF Weights
    <2>3. /\ Append(t, line) \in Seq(Line) /\ Len(Append(t, line)) = Len(t) + 1
          /\ Append(t, line)[Len(t) + 1] = line
          /\ \A k \in 1 .. Len(t) : Append(t, line)[k] = t[k]
      OBVIOUS
    <2>4. Weights(Append(t, line)) = Append(Weights(t), Chars(line))
      <3>1. Len(t) \in Nat /\ Chars(line) \in Nat
        BY DEF Line, Chars
      <3>2. /\ Append(Weights(t), Chars(line)) \in Seq(Nat)
            /\ Len(Append(Weights(t), Chars(line))) = Len(t) + 1
            /\ Append(Weights(t), Chars(line))[Len(t) + 1] = Chars(line)
            /\ \A k \in 1 .. Len(t) : Append(Weights(t), Chars(line))[k] = Weights(t)[k]
        BY <2>2, <3>1
      <3>3. Append(Weights(t), Chars(line)) =
              [k \in 1 .. Len(t) + 1 |-> Append(Weights(t), Chars(line))[k]]
        <4> DEFINE w == Append(Weights(t), Chars(line))
        <4>0. w \in Seq(Nat) /\ Len(w) = Len(t) + 1
          BY <3>2
        <4> HIDE DEF w
        <4>1. w \in [1 .. Len(w) -> Nat]
          BY <4>0, LenProperties
        <4>2. w = [k \in 1 .. Len(t) + 1 |-> w[k]]
          BY <4>0, <4>1
        <4>3. QED
          BY <4>2 DEF w
      <3>4. ASSUME NEW k \in 1 .. Len(t) + 1
            PROVE  Append(Weights(t), Chars(line))[k] = Chars(Append(t, line)[k])
        <4>1. k \in 1 .. Len(t) \/ k = Len(t) + 1
          BY <3>1
        <4>2. QED
          BY <2>3, <3>2, <4>1 DEF Weights
      <3>5. QED
        BY <2>3, <3>3, <3>4 DEF Weights
    <2>5. QED
      BY <2>2, <2>4
  <1>2. Chars(line) \in Nat
    BY DEF Line, Chars
  <1>3. <<>> \in Seq(Line) /\ Len(<<>>) = 0
    OBVIOUS
  <1>4. Total(Weights(<<>>)) = 0
    BY <1>1, <1>3, TotalOfNone
  <1>5. \A t \in Seq(Line) : Total(Weights(Append(t, line))) = Total(Weights(t)) + Chars(line)
    BY <1>1, <1>2, TotalOfAppend
  <1>6. Append(<<>>, line) = <<line>>
    OBVIOUS
  <1>7. Total(Weights(<<line>>)) = Chars(line)
    <2>1. Total(Weights(Append(<<>>, line))) = Total(Weights(<<>>)) + Chars(line)
      BY <1>3, <1>5
    <2>2. QED
      BY <1>2, <1>4, <1>6, <2>1
  <1>8. Total(Weights(text)) \in Nat
    BY <1>1, TotalType
  <1>9. QED
    BY <1>4, <1>5, <1>7, <1>8

LEMMA PushedParts ==
  ASSUME TypeOK, ~Finished, NEW last \in Nat
  PROVE  \/ PushChunk(last) = out /\ AllBlank(buf)
         \/ /\ ~AllBlank(buf)
            /\ Len(PushChunk(last)) = Len(out) + 1
            /\ \A n \in 1 .. Len(out) : PushChunk(last)[n] = out[n]
            /\ PushChunk(last)[Len(out) + 1].text = buf
            /\ PushChunk(last)[Len(out) + 1].source = Doc.source
  <1> DEFINE c == [id |-> Len(out), source |-> Doc.source, start |-> bufStart,
                   end |-> last, text |-> buf]
  <1>1. c.text = buf /\ c.source = Doc.source
    OBVIOUS
  <1> HIDE DEF c
  <1>2. QED
    BY <1>1, PushedChunk DEF HasText, c

(* What is pushed keeps to the ceiling.                                    *)
LEMMA PushKeepsCeiling ==
  ASSUME TypeOK, Measured, SeveralLinesKeepCeiling, ~Finished, NEW last \in Nat,
         out' = PushChunk(last), target' = target
  PROVE  SeveralLinesKeepCeiling'
  <1>1. SoftCeiling' = SoftCeiling
    BY DEF SoftCeiling
  <1>2. ASSUME Len(buf) > 1
        PROVE  TextChars(buf) <= SoftCeiling
    <2>1. SoftCeiling \in Nat /\ bufChars \in Nat
      BY ChunkAssumption DEF ChunkAssumption, SoftCeiling, TypeOK
    <2>2. QED
      BY <1>2, <2>1 DEF Measured, TextChars
  <1>3. CASE PushChunk(last) = out
    BY <1>1, <1>3 DEF SeveralLinesKeepCeiling
  <1>4. CASE /\ Len(out') = Len(out) + 1
             /\ \A n \in 1 .. Len(out) : out'[n] = out[n]
             /\ out'[Len(out) + 1].text = buf
    <2>1. ASSUME NEW n \in 1 .. Len(out')
          PROVE  n \in 1 .. Len(out) \/ n = Len(out) + 1
      BY <1>4 DEF TypeOK
    <2>2. QED
      BY <1>1, <1>2, <1>4, <2>1 DEF SeveralLinesKeepCeiling
  <1>5. QED
    BY <1>3, <1>4, PushedParts

(* Lines of a document are told apart by their numbers.                    *)
LEMMA LinesDiffer ==
  ASSUME NEW doc \in Document, Numbered(doc), NEW j \in 1 .. Len(doc.lines),
         NEW k \in 1 .. Len(doc.lines), doc.lines[j] = doc.lines[k]
  PROVE  j = k
  <1>1. doc.first \in Nat /\ Len(doc.lines) \in Nat
    BY DEF Document
  <1>2. doc.first + j - 1 = doc.first + k - 1
    BY DEF Numbered
  <1>3. QED
    BY <1>1, <1>2

(* When buf has been pushed, every line before line i has been counted.    *)
LEMMA PushCounts ==
  ASSUME IInv, Kept, ~Finished, NEW last \in Nat,
         out' = IF buf = <<>> THEN out ELSE PushChunk(last),
         NEW src \in Sources, NEW line \in Line, line.kind # "blank"
  PROVE  Cardinality(Holders(out', src, line)) =
           Cardinality(Before(src, line))
             + (IF Doc.source = src /\ \E k \in 1 .. i - 1 : Doc.lines[k] = line THEN 1 ELSE 0)
  <1> DEFINE InBuf == \E k \in 1 .. Len(buf) : buf[k] = line
             Done == \E k \in 1 .. From - 1 : Doc.lines[k] = line
             H == Holders(out, src, line)
             B == Cardinality(Before(src, line))
  <1>1. Doc \in Document /\ Numbered(Doc) /\ TypeOK /\ Gathered
    BY DEF IInv, TypeOK, Doc, Finished, Sound
  <1>2. /\ Len(buf) \in Nat /\ i \in Nat /\ Len(Doc.lines) \in Nat /\ Len(out) \in Nat
        /\ Len(buf) < i /\ i - 1 <= Len(Doc.lines) /\ From = i - Len(buf)
    BY <1>1 DEF Document, TypeOK, Gathered, From
  <1>3. (\E k \in 1 .. i - 1 : Doc.lines[k] = line) <=> InBuf \/ Done
    <2>1. ASSUME NEW k \in 1 .. i - 1, Doc.lines[k] = line
          PROVE  InBuf \/ Done
      <3>1. CASE k <= From - 1
        <4>1. k \in 1 .. From - 1
          BY <1>2, <3>1
        <4>2. QED
          BY <2>1, <4>1
      <3>2. CASE ~(k <= From - 1)
        <4>1. k - From + 1 \in 1 .. Len(buf) /\ From + (k - From + 1) - 1 = k
          BY <1>2, <3>2
        <4>2. buf[k - From + 1] = Doc.lines[k]
          BY <1>1, <4>1 DEF Gathered
        <4>3. QED
          BY <2>1, <4>1, <4>2
      <3>3. QED
        BY <3>1, <3>2
    <2>2. ASSUME NEW k \in 1 .. Len(buf), buf[k] = line
          PROVE  \E j \in 1 .. i - 1 : Doc.lines[j] = line
      <3>1. From + k - 1 \in 1 .. i - 1
        BY <1>2
      <3>2. QED
        BY <1>1, <2>2, <3>1 DEF Gathered
    <2>3. ASSUME NEW k \in 1 .. From - 1
          PROVE  k \in 1 .. i - 1
      BY <1>2
    <2>4. QED
      BY <2>1, <2>2, <2>3
  <1>4. ~(InBuf /\ Done)
    <2> SUFFICES ASSUME NEW k \in 1 .. Len(buf), buf[k] = line,
                        NEW j \in 1 .. From - 1, Doc.lines[j] = line
                 PROVE  FALSE
      OBVIOUS
    <2>1. buf[k] = Doc.lines[From + k - 1]
      BY <1>1 DEF Gathered
    <2>2. From + k - 1 \in 1 .. Len(Doc.lines) /\ j \in 1 .. Len(Doc.lines) /\ j # From + k - 1
      BY <1>2
    <2>3. QED
      BY <1>1, <2>1, <2>2, LinesDiffer
  <1>5. /\ B \in Nat /\ IsFiniteSet(H)
        /\ Cardinality(H) = B + (IF Doc.source = src /\ Done THEN 1 ELSE 0)
    <2>1. IsFiniteSet(1 .. Len(docs)) /\ IsFiniteSet(1 .. Len(out))
      BY <1>1, <1>2, FS_Interval DEF TypeOK
    <2>2. Len(DocText) = Len(docs)
      BY <1>1 DEF DocText, TypeOK
    <2>3. Before(src, line) \subseteq 1 .. Len(docs) /\ H \subseteq 1 .. Len(out)
      BY <2>2 DEF Before, Holders
    <2>4. IsFiniteSet(H) /\ B \in Nat
      BY <2>1, <2>3, FS_Subset, FS_CardinalityType
    <2>5. CountedOnce(src, line)
      BY DEF Kept
    <2>6. QED
      BY <2>4, <2>5 DEF CountedOnce, Left
  <1>6. CASE ~(InBuf /\ Doc.source = src)
    <2>1. Holders(out', src, line) = H
      <3>1. CASE out' = out
        BY <3>1
      <3>2. CASE /\ Len(out') = Len(out) + 1
                 /\ \A n \in 1 .. Len(out) : out'[n] = out[n]
                 /\ out'[Len(out) + 1].text = buf /\ out'[Len(out) + 1].source = Doc.source
        <4>1. 1 .. Len(out') = (1 .. Len(out)) \cup {Len(out) + 1}
          BY <1>2, <3>2
        <4>2. QED
          BY <1>6, <3>2, <4>1 DEF Holders
      <3>3. QED
        BY <1>1, <3>1, <3>2, PushedParts
    <2>2. QED
      BY <1>3, <1>5, <1>6, <2>1
  <1>7. CASE InBuf /\ Doc.source = src
    <2>1. HasText(buf) /\ buf # <<>>
      BY <1>7 DEF HasText, AllBlank
    <2>2. /\ Len(out') = Len(out) + 1
          /\ \A n \in 1 .. Len(out) : out'[n] = out[n]
          /\ out'[Len(out) + 1].text = buf /\ out'[Len(out) + 1].source = Doc.source
      BY <1>1, <2>1, PushedParts DEF HasText
    <2>3. 1 .. Len(out') = (1 .. Len(out)) \cup {Len(out) + 1} /\ Len(out) + 1 \notin 1 .. Len(out)
      BY <1>2, <2>2
    <2>4. Holders(out', src, line) = H \cup {Len(out) + 1} /\ Len(out) + 1 \notin H
      BY <1>7, <2>2, <2>3 DEF Holders
    <2>5. Cardinality(Holders(out', src, line)) = Cardinality(H) + 1
      BY <1>5, <2>4, FS_AddElement
    <2>6. QED
      BY <1>3, <1>4, <1>5, <1>7, <2>5
  <1>8. QED
    BY <1>6, <1>7

LEMMA SplitLineCounts == ASSUME IInv, Counts, SplitLine PROVE Counts'
  <1> DEFINE line == Doc.lines[i]
  <1>1. TypeOK /\ Gathered /\ Measured /\ SeveralLinesKeepCeiling /\ Kept
    BY DEF IInv, Counts
  <1>2. /\ ~Finished /\ i <= Len(Doc.lines) /\ i' = i + 1
        /\ docs' = docs /\ target' = target /\ d' = d /\ Doc' = Doc /\ ~Finished'
    BY DEF SplitLine, Doc, Finished
  <1>3. Doc \in Document /\ d \in 1 .. Len(docs)
    BY <1>1, <1>2 DEF TypeOK, Doc, Finished
  <1>4. /\ i \in Nat \ {0} /\ buf \in Seq(Line) /\ Len(buf) \in Nat /\ line \in Line
        /\ Doc.first \in Nat /\ Chars(line) \in Nat /\ SoftCeiling \in Nat
        /\ bufChars \in Nat
    <2>1. /\ i \in Nat \ {0} /\ Doc.lines \in Seq(Line) /\ buf \in Seq(Line)
          /\ Doc.first \in Nat /\ bufChars \in Nat
      BY <1>1, <1>3 DEF TypeOK, Document
    <2>2. line \in Line /\ Len(buf) \in Nat
      BY <1>2, <2>1
    <2>3. SoftCeiling \in Nat
      BY <1>1, ChunkAssumption DEF ChunkAssumption, SoftCeiling, TypeOK
    <2>4. QED
      BY <2>1, <2>2, <2>3 DEF Line, Chars
  <1>5. SoftCeiling' = SoftCeiling
    BY <1>2 DEF SoftCeiling
  <1>6. \A src, l : Before(src, l)' = Before(src, l)
    BY <1>2 DEF Before, Holders, DocText
  <1> HIDE DEF line
  <1>7. CASE Breaks(line)
    <2>1. /\ buf # <<>> /\ out' = PushChunk(LineNo - 1) /\ buf' = <<line>>
          /\ bufChars' = Chars(line)
      BY <1>7 DEF SplitLine, Breaks, Cut, line
    <2>2. LineNo - 1 \in Nat
      <3>1. Len(buf) # 0 /\ Len(buf) < i
        BY <1>1, <1>2, <1>4, <2>1 DEF Gathered
      <3>2. i >= 2
        BY <1>4, <3>1
      <3>3. QED
        BY <1>4, <3>2 DEF LineNo
    <2>3. Measured'
      BY <1>4, <2>1, WeightsGrow DEF Measured
    <2>4. SeveralLinesKeepCeiling'
      BY <1>1, <1>2, <2>1, <2>2, PushKeepsCeiling
    <2>5. Kept'
      <3> SUFFICES ASSUME NEW src \in Sources, NEW l \in Line, l.kind # "blank"
                   PROVE  CountedOnce(src, l)'
        BY DEF Kept
      <3>1. Left(src, l)' <=> Doc.source = src /\ \E k \in 1 .. i - 1 : Doc.lines[k] = l
        <4>1. From' = i
          BY <1>2, <1>4, <2>1 DEF From
        <4>2. QED
          BY <1>2, <4>1 DEF Left
      <3>2. Cardinality(Holders(out', src, l)) =
              Cardinality(Before(src, l))
                + (IF Doc.source = src /\ \E k \in 1 .. i - 1 : Doc.lines[k] = l THEN 1 ELSE 0)
        BY <1>1, <1>2, <2>1, <2>2, PushCounts
      <3>3. QED
        BY <1>6, <3>1, <3>2 DEF CountedOnce
    <2>6. QED
      BY <2>3, <2>4, <2>5 DEF Counts
  <1>8. CASE ~Breaks(line)
    <2>1. buf' = Append(buf, line) /\ bufChars' = bufChars + Chars(line) /\ out' = out
      BY <1>8 DEF SplitLine, Gather, line
    <2>2. Len(buf') = Len(buf) + 1
      BY <1>4, <2>1
    <2>3. Measured'
      <3>1. bufChars' = Total(Weights(buf'))
        BY <1>1, <1>4, <2>1, WeightsGrow DEF Measured
      <3>2. ASSUME Len(buf') > 1
            PROVE  bufChars' <= SoftCeiling
        <4>1. buf # <<>>
          BY <1>4, <2>2, <3>2
        <4>2. ~Forced(line)
          BY <1>8, <4>1 DEF Breaks
        <4>3. QED
          BY <1>4, <2>1, <4>2 DEF Forced
      <3>3. QED
        BY <1>5, <3>1, <3>2 DEF Measured
    <2>4. SeveralLinesKeepCeiling'
      BY <1>1, <1>5, <2>1 DEF SeveralLinesKeepCeiling
    <2>5. Kept'
      <3>1. From' = From
        BY <1>2, <1>4, <2>2 DEF From
      <3>2. \A src, l : Left(src, l)' = Left(src, l)
        BY <1>2, <3>1 DEF Left
      <3>3. QED
        BY <1>1, <1>6, <2>1, <3>2 DEF Kept, CountedOnce
    <2>6. QED
      BY <2>3, <2>4, <2>5 DEF Counts
  <1>9. QED
    BY <1>7, <1>8

LEMMA EndDocumentCounts == ASSUME IInv, Counts, EndDocument PROVE Counts'
  <1>1. TypeOK /\ Gathered /\ Measured /\ SeveralLinesKeepCeiling /\ Kept
    BY DEF IInv, Counts
  <1>2. /\ ~Finished /\ i > Len(Doc.lines) /\ i' = 1 /\ d' = d + 1
        /\ buf' = <<>> /\ bufChars' = 0 /\ docs' = docs /\ target' = target
        /\ out' = IF buf = <<>> THEN out ELSE PushChunk(LastLine)
    BY DEF EndDocument
  <1>3. /\ Doc \in Document /\ d \in 1 .. Len(docs) /\ Len(docs) \in Nat
        /\ Doc.lines \in Seq(Line) /\ Doc.first \in Nat /\ buf \in Seq(Line)
    <2>1. Doc \in Document /\ d \in 1 .. Len(docs) /\ Len(docs) \in Nat /\ buf \in Seq(Line)
      BY <1>1, <1>2 DEF TypeOK, Doc, Finished
    <2>2. QED
      BY <2>1 DEF Document
  <1>4. Len(Doc.lines) \in Nat /\ i = Len(Doc.lines) + 1 /\ Len(buf) \in Nat
    BY <1>1, <1>2, <1>3 DEF Gathered, TypeOK
  <1>5. PICK last \in Nat : out' = IF buf = <<>> THEN out ELSE PushChunk(last)
    <2>1. CASE buf = <<>>
      BY <1>2, <2>1
    <2>2. CASE buf # <<>>
      <3>1. Len(buf) # 0 /\ Len(buf) < i
        BY <1>1, <1>2, <1>3, <2>2 DEF Gathered
      <3>2. LastLine \in Nat
        BY <1>3, <1>4, <3>1 DEF LastLine
      <3>3. QED
        BY <1>2, <3>2
    <2>3. QED
      BY <2>1, <2>2
  <1>6. Measured'
    BY <1>2, WeightsOfNone DEF Measured
  <1>7. SeveralLinesKeepCeiling'
    <2>1. SoftCeiling' = SoftCeiling
      BY <1>2 DEF SoftCeiling
    <2>2. CASE buf = <<>>
      BY <1>1, <1>5, <2>1, <2>2 DEF SeveralLinesKeepCeiling
    <2>3. CASE buf # <<>>
      BY <1>1, <1>2, <1>5, <2>3, PushKeepsCeiling
    <2>4. QED
      BY <2>2, <2>3
  <1>8. Kept'
    <2> SUFFICES ASSUME NEW src \in Sources, NEW l \in Line, l.kind # "blank"
                 PROVE  CountedOnce(src, l)'
      BY DEF Kept
    <2> DEFINE Here == Doc.source = src /\ \E k \in 1 .. Len(Doc.lines) : Doc.lines[k] = l
    <2>1. Cardinality(Holders(out', src, l)) =
            Cardinality(Before(src, l)) + (IF Here THEN 1 ELSE 0)
      <3>1. i - 1 = Len(Doc.lines)
        BY <1>4
      <3>2. Cardinality(Holders(out', src, l)) =
              Cardinality(Before(src, l))
                + (IF Doc.source = src /\ \E k \in 1 .. i - 1 : Doc.lines[k] = l THEN 1 ELSE 0)
        BY <1>1, <1>2, <1>5, PushCounts
      <3>3. QED
        BY <3>1, <3>2
    <2>2. ~Left(src, l)'
      <3>1. From' = 1
        BY <1>2 DEF From
      <3>2. 1 .. 1 - 1 = {}
        OBVIOUS
      <3>3. QED
        BY <3>1, <3>2 DEF Left
    <2>3. Len(DocText) = Len(docs) /\ DocText' = DocText
      BY <1>2, <1>3 DEF DocText
    <2>4. IsFiniteSet(Before(src, l)) /\ d \notin Before(src, l) /\ Cardinality(Before(src, l)) \in Nat
      <3>1. Before(src, l) \subseteq 1 .. Len(docs)
        BY <2>3 DEF Before, Holders
      <3>2. IsFiniteSet(Before(src, l))
        <4>1. IsFiniteSet(1 .. Len(docs))
          BY <1>3, FS_Interval
        <4>2. QED
          BY <3>1, <4>1, FS_Subset
      <3>3. QED
        BY <1>3, <3>2, FS_CardinalityType DEF Before
    <2>5. DocText[d].source = Doc.source /\ DocText[d].text = Doc.lines
      BY <1>3 DEF DocText, Doc
    <2>6. Before(src, l)' = IF Here THEN Before(src, l) \cup {d} ELSE Before(src, l)
      <3>1. d \in Holders(DocText, src, l) <=> Here
        BY <1>3, <2>3, <2>5 DEF Holders
      <3>2. \A n \in 1 .. Len(docs) : n < d + 1 <=> n < d \/ n = d
        BY <1>3
      <3>3. Holders(DocText, src, l) \subseteq 1 .. Len(docs)
        BY <2>3 DEF Holders
      <3>4. Before(src, l)' = {n \in Holders(DocText, src, l) : n < d + 1}
        BY <1>2, <2>3 DEF Before, Holders
      <3> HIDE DEF Here
      <3>5. QED
        BY <3>1, <3>2, <3>3, <3>4 DEF Before
    <2> HIDE DEF Here
    <2>7. Cardinality(Before(src, l)') = Cardinality(Before(src, l)) + (IF Here THEN 1 ELSE 0)
      BY <2>4, <2>6, FS_AddElement
    <2>8. Cardinality(Before(src, l)') \in Nat
      BY <2>4, <2>7
    <2>9. QED
      BY <2>1, <2>2, <2>7, <2>8 DEF CountedOnce
  <1>9. QED
    BY <1>6, <1>7, <1>8 DEF Counts

(* Nothing is split yet when a split begins.                               *)
AtStart == d = 1 /\ i = 1 /\ buf = <<>> /\ bufChars = 0 /\ out = <<>>

LEMMA BeginCounts == ASSUME AtStart PROVE Counts
  <1>0. d = 1 /\ i = 1 /\ buf = <<>> /\ bufChars = 0 /\ out = <<>>
    BY DEF AtStart
  <1>1. Measured
    BY <1>0, WeightsOfNone DEF Measured
  <1>2. SeveralLinesKeepCeiling
    BY <1>0 DEF SeveralLinesKeepCeiling
  <1>3. ASSUME NEW src, NEW l
        PROVE  CountedOnce(src, l)
    <2>1. Holders(out, src, l) = {}
      BY <1>0 DEF Holders
    <2>2. Before(src, l) = {}
      BY <1>0 DEF Before, Holders
    <2>3. ~Left(src, l)
      <3>1. From = 1
        BY <1>0 DEF From
      <3>2. 1 .. 1 - 1 = {}
        OBVIOUS
      <3>3. QED
        BY <3>1, <3>2 DEF Left
    <2>4. QED
      BY <2>1, <2>2, <2>3, FS_EmptySet DEF CountedOnce
  <1>4. QED
    BY <1>1, <1>2, <1>3 DEF Counts, Kept

LEMMA RecurseCounts == Recurse => Counts'
  <1>1. Recurse => AtStart'
    <2> SUFFICES ASSUME Recurse
                 PROVE  AtStart'
      OBVIOUS
    <2>1. \E ds : Begin(ds, RecutTarget)
      BY Zenon DEF Recurse
    <2>2. QED
      BY <2>1 DEF Begin, AtStart
  <1>2. AtStart => Counts
    BY BeginCounts
  <1>3. QED
    BY <1>1, <1>2, PTL

LEMMA CountsInductive == Spec => []Counts
  <1>1. Init => Counts
    BY BeginCounts DEF Init, AtStart
  <1>2. ASSUME Counts, UNCHANGED vars
        PROVE  Counts'
    <2>1. /\ docs' = docs /\ target' = target /\ d' = d /\ i' = i /\ buf' = buf
          /\ bufChars' = bufChars /\ out' = out
      BY <1>2 DEF vars
    <2>2. Measured' /\ SeveralLinesKeepCeiling'
      BY <1>2, <2>1 DEF Counts, Measured, SoftCeiling, SeveralLinesKeepCeiling
    <2>3. \A src, l : Left(src, l)' = Left(src, l) /\ Before(src, l)' = Before(src, l)
      BY <2>1 DEF Left, Finished, Doc, From, Before, Holders, DocText
    <2>4. Kept'
      BY <1>2, <2>1, <2>3 DEF Counts, Kept, CountedOnce
    <2>5. QED
      BY <2>2, <2>4 DEF Counts
  <1>3. IInv /\ Counts /\ [Next]_vars => Counts'
    BY <1>2, SplitLineCounts, EndDocumentCounts, RecurseCounts DEF Next
  <1>4. QED
    BY <1>1, <1>3, Inductive, PTL DEF Spec

-----------------------------------------------------------------------------
(* A chunk of several lines keeps to twice the target and to MAX_CHARS.    *)
THEOREM KeepsCeiling == Spec => []SeveralLinesKeepCeiling
  <1>1. Counts => SeveralLinesKeepCeiling
    BY DEF Counts
  <1>2. QED
    BY <1>1, CountsInductive, PTL

(* A line with text in it is in exactly one chunk for each document that   *)
(* has it, wherever the breaks fall and at any depth of a recursion.       *)
THEOREM KeepsText == Spec => []TextIsKept
  <1>1. IInv /\ Counts => TextIsKept
    <2> SUFFICES ASSUME IInv, Counts, Finished, NEW n \in 1 .. Len(docs),
                        NEW k \in 1 .. Len(docs[n].lines), docs[n].lines[k].kind # "blank"
                 PROVE  Cardinality(Holders(out, docs[n].source, docs[n].lines[k]))
                          = Cardinality(Holders(DocText, docs[n].source, docs[n].lines[k]))
      BY DEF TextIsKept
    <2>1. docs[n] \in Document /\ Len(docs) \in Nat /\ d = Len(docs) + 1
      <3>1. docs \in Seq(Document) /\ Len(docs) \in Nat
        BY DEF IInv, TypeOK
      <3>2. docs[n] \in Document
        BY <3>1
      <3>3. d = Len(docs) + 1
        BY <3>1 DEF IInv, TypeOK, Finished
      <3>4. QED
        BY <3>1, <3>2, <3>3
    <2>2. docs[n].source \in Sources /\ docs[n].lines[k] \in Line
      BY <2>1 DEF Document
    <2> DEFINE src == docs[n].source
               l == docs[n].lines[k]
    <2>3. CountedOnce(src, l) /\ ~Left(src, l)
      BY <2>2 DEF Counts, Kept, Left
    <2>4. Before(src, l) = Holders(DocText, src, l)
      <3>1. Len(DocText) = Len(docs)
        BY <2>1 DEF DocText
      <3>2. \A m \in 1 .. Len(docs) : m < d
        BY <2>1
      <3>3. Holders(DocText, src, l) \subseteq 1 .. Len(docs)
        BY <3>1 DEF Holders
      <3>4. QED
        BY <3>2, <3>3 DEF Before
    <2>5. IsFiniteSet(Holders(DocText, src, l))
      <3>1. Holders(DocText, src, l) \subseteq 1 .. Len(docs)
        BY <2>1 DEF Holders, DocText
      <3>2. QED
        <4>1. 1 \in Int /\ Len(docs) \in Int /\ IsFiniteSet(1 .. Len(docs))
          <5>1. Len(docs) \in Int
            BY <2>1
          <5>2. QED
            BY <5>1, FS_Interval
        <4>2. QED
          BY <3>1, <4>1, FS_Subset
    <2>6. Cardinality(Holders(DocText, src, l)) \in Nat
      BY <2>5, FS_CardinalityType
    <2>7. QED
      BY <2>3, <2>4, <2>6 DEF CountedOnce
  <1>2. QED
    BY <1>1, Inductive, CountsInductive, PTL

-----------------------------------------------------------------------------
(* grep.                                                                   *)

LEMMA OfTwo ==
  ASSUME NEW a \in Int, NEW b \in Int
  PROVE  Max({a, b}) = (IF a >= b THEN a ELSE b) /\ Min({a, b}) = (IF a <= b THEN a ELSE b)
  <1>1. Max({a, b}) = IF a >= b THEN a ELSE b
    <2>1. \E x \in {a, b} : \A y \in {a, b} : x >= y
      OBVIOUS
    <2>2. Max({a, b}) \in {a, b} /\ \A y \in {a, b} : Max({a, b}) >= y
      BY <2>1 DEF Max
    <2>3. QED
      BY <2>2
  <1>2. Min({a, b}) = IF a <= b THEN a ELSE b
    <2>1. \E x \in {a, b} : \A y \in {a, b} : x <= y
      OBVIOUS
    <2>2. Min({a, b}) \in {a, b} /\ \A y \in {a, b} : Min({a, b}) <= y
      BY <2>1 DEF Min
    <2>3. QED
      BY <2>2
  <1>3. QED
    BY <1>1, <1>2

(* The rows of a hit show lines of the chunk under their numbers, and the  *)
(* line that was hit is among them.                                        *)
RowType == [id : Nat, source : Sources, number : Nat, line : Line]
RowIsTrue(r, c) ==
    /\ r.number = r.line.at
    /\ r.source = c.source
    /\ r.id = c.id
    /\ r.line \in ToSet(c.text)

LEMMA RowsAreTrue ==
  ASSUME NEW c \in ChunkType, SpanIsTrue(c), NEW hit \in 1 .. Len(Reread(c.text)),
         NEW around \in Nat
  PROVE  /\ Rows(c, hit, around) \in Seq(RowType)
         /\ \A r \in ToSet(Rows(c, hit, around)) : RowIsTrue(r, c)
         /\ \E r \in ToSet(Rows(c, hit, around)) : r.line = Reread(c.text)[hit]
  <1> DEFINE text == Reread(c.text)
             lo == Max({1, hit - around})
             hi == Min({hit + around, Len(text)})
             row(k) == [id |-> c.id, source |-> c.source,
                        number |-> c.start + lo + k - 2, line |-> text[lo + k - 1]]
  <1>1. /\ c.text \in Seq(Line) /\ c.start \in Nat /\ c.id \in Nat /\ c.source \in Sources
    BY DEF ChunkType
  <1>2. /\ text \in Seq(Line) /\ Len(text) \in Nat /\ Len(c.text) \in Nat /\ Len(text) <= Len(c.text)
        /\ \A k \in 1 .. Len(text) : text[k] = c.text[k]
    BY <1>1, RereadKeeps
  <1>3. /\ lo \in Nat /\ 1 <= lo /\ lo <= hit /\ hi \in Nat /\ hit <= hi /\ hi <= Len(text)
    <2>1. hit - around \in Int /\ hit + around \in Int /\ 1 \in Int /\ Len(text) \in Int
      BY <1>2
    <2>2. lo = (IF 1 >= hit - around THEN 1 ELSE hit - around)
      BY <2>1, OfTwo
    <2>3. hi = IF hit + around <= Len(text) THEN hit + around ELSE Len(text)
      BY <2>1, OfTwo
    <2> HIDE DEF lo, hi
    <2>4. QED
      BY <1>2, <2>2, <2>3
  <1>4. Rows(c, hit, around) = [k \in 1 .. hi - lo + 1 |-> row(k)]
    BY DEF Rows
  <1> HIDE DEF lo, hi
  <1>5. ASSUME NEW k \in 1 .. hi - lo + 1
        PROVE  row(k) \in RowType /\ RowIsTrue(row(k), c)
    <2>1. lo + k - 1 \in 1 .. Len(text) /\ lo + k - 1 \in 1 .. Len(c.text)
          /\ c.start + lo + k - 2 \in Nat /\ c.start + (lo + k - 1) - 1 = c.start + lo + k - 2
      <3> HIDE DEF text
      <3>1. k \in Nat /\ 1 <= k /\ k <= hi - lo + 1
        BY <1>3
      <3>2. lo + k - 1 \in Nat /\ 1 <= lo + k - 1 /\ lo + k - 1 <= hi
        BY <1>3, <3>1
      <3>3. lo + k - 1 \in 1 .. Len(text) /\ lo + k - 1 \in 1 .. Len(c.text)
        BY <1>2, <1>3, <3>2
      <3>4. c.start + lo + k - 2 \in Nat /\ c.start + (lo + k - 1) - 1 = c.start + lo + k - 2
        BY <1>1, <1>3, <3>1
      <3>5. QED
        BY <3>3, <3>4
    <2>2. text[lo + k - 1] = c.text[lo + k - 1] /\ text[lo + k - 1] \in Line
      BY <1>2, <2>1
    <2>3. c.text[lo + k - 1].at = c.start + (lo + k - 1) - 1
      BY <2>1 DEF SpanIsTrue
    <2>4. c.text[lo + k - 1] \in ToSet(c.text)
      BY <1>1, <2>1 DEF ToSet
    <2> HIDE DEF text
    <2>5. row(k) \in RowType
      BY <1>1, <2>1, <2>2 DEF RowType
    <2>6. QED
      BY <2>1, <2>2, <2>3, <2>4, <2>5 DEF RowIsTrue
  <1>6. hi - lo + 1 \in Nat /\ hit - lo + 1 \in 1 .. hi - lo + 1 /\ lo + (hit - lo + 1) - 1 = hit
    <2> HIDE DEF text
    <2>1. QED
      BY <1>3
  <1>7. row(hit - lo + 1).line = text[hit]
    BY <1>6
  <1> HIDE DEF row, text
  <1>8. /\ Rows(c, hit, around) \in Seq(RowType)
        /\ ToSet(Rows(c, hit, around)) = {row(k) : k \in 1 .. hi - lo + 1}
    BY <1>4, <1>5, <1>6 DEF ToSet
  <1>9. QED
    BY <1>5, <1>6, <1>7, <1>8 DEF text

(* Where a hit may be.                                                     *)
Hit == {h \in [chunk : 1 .. Len(out), line : Nat] : h.line \in 1 .. Len(Reread(out[h.chunk].text))}

LEMMA HitsFound ==
  ASSUME TypeOK, NEW pattern
  PROVE  /\ HitsOf(out, pattern) \in Seq(Hit)
         /\ \A n \in 1 .. Len(out) : \A k \in 1 .. Len(Reread(out[n].text)) :
               Matches(pattern, Reread(out[n].text)[k]) =>
                 [chunk |-> n, line |-> k] \in ToSet(HitsOf(out, pattern))
  <1>1. ASSUME NEW n \in 1 .. Len(out)
        PROVE  /\ HitsIn(out, n, pattern) \in Seq(Hit)
               /\ \A k \in 1 .. Len(Reread(out[n].text)) :
                     Matches(pattern, Reread(out[n].text)[k]) =>
                       [chunk |-> n, line |-> k] \in ToSet(HitsIn(out, n, pattern))
    <2> DEFINE text == Reread(out[n].text)
               one(k) == IF Matches(pattern, text[k]) THEN <<[chunk |-> n, line |-> k]>> ELSE <<>>
               ones == [k \in 1 .. Len(text) |-> one(k)]
    <2>1. Len(text) \in Nat
      <3>1. out[n] \in ChunkType
        BY DEF TypeOK
      <3>2. out[n].text \in Seq(Line)
        BY <3>1 DEF ChunkType
      <3>3. text \in Seq(Line)
        BY <3>2, RereadKeeps
      <3>4. QED
        BY <3>3
    <2>2. ASSUME NEW k \in 1 .. Len(text)
          PROVE  /\ one(k) \in Seq(Hit)
                 /\ Matches(pattern, text[k]) => [chunk |-> n, line |-> k] \in ToSet(one(k))
      <3>1. [chunk |-> n, line |-> k] \in Hit
        BY <2>1 DEF Hit
      <3>2. \A x : x \in ToSet(<<x>>)
        BY DEF ToSet
      <3>3. \A x \in Hit : <<x>> \in Seq(Hit)
        OBVIOUS
      <3>4. QED
        BY <3>1, <3>2, <3>3
    <2>3. HitsIn(out, n, pattern) = FlattenSeq(ones)
      BY DEF HitsIn
    <2> HIDE DEF one
    <2>4. ones \in Seq(Seq(Hit)) /\ Len(ones) = Len(text) /\ \A k \in 1 .. Len(text) : ones[k] = one(k)
      <3> HIDE DEF text
      <3>1. ones \in [1 .. Len(text) -> Seq(Hit)] /\ \A k \in 1 .. Len(text) : ones[k] = one(k)
        BY <2>2
      <3> HIDE DEF ones
      <3>2. QED
        BY <2>1, <3>1
    <2> HIDE DEF ones, text
    <2>5. /\ FlattenSeq(ones) \in Seq(Hit)
          /\ ToSet(FlattenSeq(ones)) = UNION {ToSet(ones[k]) : k \in 1 .. Len(ones)}
      BY <2>4, Flattened
    <2>6. \A k \in 1 .. Len(text) : Matches(pattern, text[k]) =>
             [chunk |-> n, line |-> k] \in ToSet(FlattenSeq(ones))
      BY <2>2, <2>4, <2>5
    <2>7. QED
      BY <2>3, <2>5, <2>6 DEF text
  <1> DEFINE all == [n \in 1 .. Len(out) |-> HitsIn(out, n, pattern)]
  <1>2. HitsOf(out, pattern) = FlattenSeq(all)
    BY DEF HitsOf
  <1>3. /\ all \in Seq(Seq(Hit)) /\ Len(all) = Len(out)
        /\ \A n \in 1 .. Len(out) : all[n] = HitsIn(out, n, pattern)
    <2>1. Len(out) \in Nat
      BY DEF TypeOK
    <2>2. QED
      BY <1>1, <2>1
  <1> HIDE DEF all
  <1>4. /\ FlattenSeq(all) \in Seq(Hit)
        /\ ToSet(FlattenSeq(all)) = UNION {ToSet(all[k]) : k \in 1 .. Len(all)}
    BY <1>3, Flattened
  <1>5. QED
    BY <1>1, <1>2, <1>3, <1>4

(* What a chunk is read again as leaves out no line with text in it.       *)
LEMMA TextIsReread ==
  ASSUME NEW text \in Seq(Line), NEW j \in 1 .. Len(text), text[j].kind # "blank"
  PROVE  j \in 1 .. Len(Reread(text)) /\ Reread(text)[j] = text[j]
  <1> DEFINE n == Len(text)
  <1>1. CASE n > 0 /\ text[n].kind = "blank" /\ text[n].size = 0
    <2>1. Reread(text) = SubSeq(text, 1, n - 1) /\ n - 1 \in 0 .. n /\ j \in 1 .. n - 1
      BY <1>1 DEF Reread
    <2>2. /\ Len(SubSeq(text, 1, n - 1)) = n - 1
          /\ \A k \in 1 .. n - 1 : SubSeq(text, 1, n - 1)[k] = text[k]
      BY <2>1
    <2>3. QED
      BY <2>1, <2>2
  <1>2. CASE ~(n > 0 /\ text[n].kind = "blank" /\ text[n].size = 0)
    BY <1>2 DEF Reread
  <1>3. QED
    BY <1>1, <1>2

(* A line with text in it is in some chunk once its document is split.     *)
LEMMA InSomeChunk ==
  ASSUME IInv, TextIsKept, Finished, NEW n \in 1 .. Len(docs), NEW k \in 1 .. Len(docs[n].lines),
         docs[n].lines[k].kind # "blank"
  PROVE  \E m \in 1 .. Len(out) : /\ out[m].source = docs[n].source
                                   /\ \E j \in 1 .. Len(out[m].text) : out[m].text[j] = docs[n].lines[k]
  <1> DEFINE l == docs[n].lines[k]
             src == docs[n].source
  <1>1. Cardinality(Holders(out, src, l)) = Cardinality(Holders(DocText, src, l))
    BY DEF TextIsKept
  <1>2. n \in Holders(DocText, src, l) /\ Len(docs) \in Int /\ Holders(DocText, src, l) \subseteq 1 .. Len(docs)
    BY DEF Holders, DocText, IInv, TypeOK
  <1> HIDE DEF l, src
  <1>3. IsFiniteSet(Holders(DocText, src, l))
    <2>1. IsFiniteSet(1 .. Len(docs))
      BY <1>2, FS_Interval
    <2>2. QED
      BY <1>2, <2>1, FS_Subset
  <1>4. Holders(out, src, l) # {}
    <2>1. Cardinality(Holders(DocText, src, l)) # 0
      BY <1>2, <1>3, FS_EmptySet
    <2>2. QED
      BY <1>1, <2>1, FS_EmptySet
  <1>5. QED
    BY <1>4 DEF Holders, l, src

(* What is shown of a text is rows of it, all of them when it is not cut.   *)
LEMMA ObservedRows ==
  ASSUME NEW rows \in Seq(RowType), NEW after, NEW room
  PROVE  LET text == Observed(rows, after, room)
         IN  /\ text.shown \subseteq ToSet(rows)
             /\ text.truncated \/ text.shown = ToSet(rows)
  <1>1. ToSet(rows) = {rows[n] : n \in 1 .. Len(rows)}
    BY DEF ToSet
  <1>2. QED
    BY <1>1 DEF Observed

(* What grep tells is true at every depth of a recursion: a row shown has  *)
(* the line of its source that has its number; a grep that its ceiling on  *)
(* hits has not stopped lists a chunk with every line with text in it that *)
(* matches, and shows the line when its text is not cut.                   *)
THEOREM GrepTells == Spec => []GrepIsTrue
  <1>1. IInv /\ TextIsKept => GrepIsTrue
    <2> SUFFICES ASSUME IInv, TextIsKept, Finished, NEW pattern \in Patterns, NEW cap \in HitCaps,
                        NEW around \in ContextLines, NEW room \in Rooms
                 PROVE  LET report == Grep(out, pattern, cap, around, room)
                            shown == report.text.shown
                        IN  /\ \A r \in shown :
                                 /\ r.number = r.line.at
                                 /\ r.source = out[r.id + 1].source
                                 /\ r.line \in ToSet(out[r.id + 1].text)
                            /\ report.hits < cap =>
                                 \A n \in 1 .. Len(docs) :
                                    \A k \in 1 .. Len(docs[n].lines) :
                                        LET line == docs[n].lines[k]
                                        IN  line.kind # "blank" /\ Matches(pattern, line) =>
                                              /\ \E m \in 1 .. Len(out) :
                                                    /\ out[m].id \in report.ids
                                                    /\ out[m].source = docs[n].source
                                                    /\ line \in ToSet(out[m].text)
                                              /\ report.text.truncated
                                                 \/ \E r \in shown : /\ r.source = docs[n].source
                                                                     /\ r.line = line
      BY DEF GrepIsTrue
    <2> DEFINE all == HitsOf(out, pattern)
               most == Min({Len(all), Max({cap, 1})})
               kept == SubSeq(all, 1, most)
               rows(h) == Rows(out[kept[h].chunk], kept[h].line, around)
               lists == [h \in 1 .. Len(kept) |-> rows(h)]
               whole == ToSet(FlattenSeq(lists))
               ids == {out[kept[h].chunk].id : h \in 1 .. Len(kept)}
               stop == IF kept # <<>> /\ Len(kept) >= cap THEN StopChars ELSE 0
               text == Observed(FlattenSeq(lists), stop, room)
    <2>1. TypeOK /\ LinesAreTrue /\ ChunksStayWithin
      BY DEF IInv
    <2>2. cap \in Nat /\ around \in Nat
      BY OperatorsAssumption DEF OperatorsAssumption
    <2>3. all \in Seq(Hit) /\ Len(all) \in Nat
      <3>1. all \in Seq(Hit)
        BY <2>1, HitsFound
      <3> HIDE DEF all
      <3>2. QED
        BY <3>1
    <2>4. Grep(out, pattern, cap, around, room) = [hits |-> Len(kept), ids |-> ids, text |-> text]
      BY DEF Grep
    <2>5. most \in 0 .. Len(all) /\ (most < cap => most = Len(all))
      <3> HIDE DEF all
      <3>1. Max({cap, 1}) = IF cap >= 1 THEN cap ELSE 1
        BY <2>2, OfTwo
      <3>2. PICK m \in Nat : m = Max({cap, 1}) /\ m >= cap
        BY <2>2, <3>1
      <3>3. Min({Len(all), m}) = IF Len(all) <= m THEN Len(all) ELSE m
        <4>1. Len(all) \in Int /\ m \in Int
          BY <2>3
        <4>2. QED
          BY <4>1, OfTwo
      <3>4. QED
        BY <2>2, <2>3, <3>2, <3>3
    <2> HIDE DEF most, all, ids, stop, text, whole
    <2>6. /\ kept \in Seq(Hit) /\ Len(kept) = most /\ \A h \in 1 .. most : kept[h] = all[h]
          /\ \A h \in 1 .. most : h \in 1 .. Len(all)
      BY <2>3, <2>5
    <2> HIDE DEF kept
    <2>7. ASSUME NEW h \in 1 .. Len(kept)
          PROVE  /\ kept[h].chunk \in 1 .. Len(out)
                 /\ rows(h) \in Seq(RowType)
                 /\ \A r \in ToSet(rows(h)) : RowIsTrue(r, out[kept[h].chunk])
                 /\ \E r \in ToSet(rows(h)) :
                       r.line = Reread(out[kept[h].chunk].text)[kept[h].line]
      <3>1. kept[h] \in Hit
        BY <2>6
      <3>2. kept[h].chunk \in 1 .. Len(out) /\ kept[h].line \in 1 .. Len(Reread(out[kept[h].chunk].text))
        BY <3>1 DEF Hit
      <3>3. out[kept[h].chunk] \in ChunkType /\ SpanIsTrue(out[kept[h].chunk])
        BY <2>1, <3>2 DEF TypeOK, LinesAreTrue
      <3> DEFINE c == out[kept[h].chunk]
      <3>4. /\ Rows(c, kept[h].line, around) \in Seq(RowType)
            /\ \A r \in ToSet(Rows(c, kept[h].line, around)) : RowIsTrue(r, c)
            /\ \E r \in ToSet(Rows(c, kept[h].line, around)) : r.line = Reread(c.text)[kept[h].line]
        <4> DEFINE hit == kept[h].line
        <4>1. c \in ChunkType /\ SpanIsTrue(c) /\ hit \in 1 .. Len(Reread(c.text))
          BY <3>2, <3>3
        <4> HIDE DEF c, hit, rows
        <4>2. /\ Rows(c, hit, around) \in Seq(RowType)
              /\ \A r \in ToSet(Rows(c, hit, around)) : RowIsTrue(r, c)
              /\ \E r \in ToSet(Rows(c, hit, around)) : r.line = Reread(c.text)[hit]
          BY <2>2, <4>1, RowsAreTrue
        <4>3. QED
          BY <4>2 DEF hit
      <3>5. QED
        BY <3>2, <3>4
    <2> HIDE DEF rows
    <2>8. /\ lists \in Seq(Seq(RowType)) /\ Len(lists) = Len(kept)
          /\ \A h \in 1 .. Len(kept) : lists[h] = rows(h)
      <3>1. Len(kept) \in Nat
        BY <2>6
      <3>2. lists \in [1 .. Len(kept) -> Seq(RowType)] /\ \A h \in 1 .. Len(kept) : lists[h] = rows(h)
        BY <2>7
      <3> HIDE DEF lists
      <3>3. QED
        BY <3>1, <3>2
    <2> HIDE DEF lists
    <2>9. /\ FlattenSeq(lists) \in Seq(RowType)
          /\ whole = UNION {ToSet(rows(h)) : h \in 1 .. Len(kept)}
      BY <2>8, Flattened DEF whole
    <2>t. text.shown \subseteq whole /\ (text.truncated \/ text.shown = whole)
      BY <2>9, ObservedRows DEF text, whole
    <2>10. ASSUME NEW r \in whole
           PROVE  /\ r.number = r.line.at
                  /\ r.source = out[r.id + 1].source
                  /\ r.line \in ToSet(out[r.id + 1].text)
      <3>1. PICK h \in 1 .. Len(kept) : r \in ToSet(rows(h))
        BY <2>9
      <3>2. RowIsTrue(r, out[kept[h].chunk]) /\ kept[h].chunk \in 1 .. Len(out)
        BY <2>7, <3>1
      <3>3. out[kept[h].chunk].id = kept[h].chunk - 1
        BY <2>1, <3>2 DEF ChunksStayWithin
      <3>4. r.id + 1 = kept[h].chunk
        BY <3>2, <3>3 DEF RowIsTrue
      <3>5. QED
        BY <3>2, <3>4 DEF RowIsTrue
    <2>11. ASSUME Len(kept) < cap, NEW n \in 1 .. Len(docs), NEW k \in 1 .. Len(docs[n].lines),
                  docs[n].lines[k].kind # "blank", Matches(pattern, docs[n].lines[k])
           PROVE  /\ \E m \in 1 .. Len(out) : /\ out[m].id \in ids
                                               /\ out[m].source = docs[n].source
                                               /\ docs[n].lines[k] \in ToSet(out[m].text)
                  /\ \E r \in whole : r.source = docs[n].source /\ r.line = docs[n].lines[k]
      <3>1. PICK m \in 1 .. Len(out) : /\ out[m].source = docs[n].source
                                       /\ \E j \in 1 .. Len(out[m].text) : out[m].text[j] = docs[n].lines[k]
        BY <2>11, InSomeChunk
      <3>2. PICK j \in 1 .. Len(out[m].text) : out[m].text[j] = docs[n].lines[k]
        BY <3>1
      <3>3. j \in 1 .. Len(Reread(out[m].text)) /\ Reread(out[m].text)[j] = docs[n].lines[k]
        <4>1. out[m] \in ChunkType
          BY <2>1 DEF TypeOK
        <4>2. out[m].text \in Seq(Line)
          BY <4>1 DEF ChunkType
        <4>3. QED
          BY <2>11, <3>2, <4>2, TextIsReread
      <3>4. [chunk |-> m, line |-> j] \in ToSet(all)
        BY <2>1, <2>11, <3>3, HitsFound DEF all
      <3>5. PICK h \in 1 .. Len(kept) : kept[h] = [chunk |-> m, line |-> j]
        <4>1. Len(all) = Len(kept) /\ DOMAIN all = 1 .. Len(all)
          BY <2>3, <2>5, <2>6, <2>11
        <4>2. QED
          BY <2>6, <3>4, <4>1 DEF ToSet
      <3>6. PICK r \in ToSet(rows(h)) : r.line = Reread(out[m].text)[j]
        <4>1. \E r \in ToSet(rows(h)) :
                 r.line = Reread(out[kept[h].chunk].text)[kept[h].line]
          BY <2>7, Zenon
        <4>2. kept[h].chunk = m /\ kept[h].line = j
          BY <3>5
        <4>3. QED
          BY <4>1, <4>2, Zenon
      <3>7. r \in whole /\ RowIsTrue(r, out[m])
        BY <2>7, <2>9, <3>5, <3>6
      <3>8. out[m].id \in ids
        BY <3>5 DEF ids
      <3>9. docs[n].lines[k] \in ToSet(out[m].text)
        BY <3>2 DEF ToSet
      <3>10. QED
        BY <3>1, <3>3, <3>6, <3>7, <3>8, <3>9 DEF RowIsTrue
    <2>12. QED
      BY <2>4, <2>10, <2>11, <2>t
  <1>2. QED
    BY <1>1, Inductive, KeepsText, PTL
=============================================================================
