-------------------------------- MODULE MCChunk --------------------------------
(* Instances of Chunk, and of grep over its chunks, for TLC.               *)
EXTENDS Operators, TLC

CONSTANT MaxLines   \* most lines of the first document

L(kind, size) == [kind |-> kind, size |-> size]
Kinds == {L("text", 1), L("text", 3), L("text", 7), L("heading", 1),
          L("blank", 0), L("blank", 2)}

\* Lines as they stand in a file.
File(src, ls) ==
    [source |-> src, first |-> 1,
     lines |-> [k \in 1 .. Len(ls) |->
                   [kind |-> ls[k].kind, size |-> ls[k].size, at |-> k]]]

\* Any document of a few lines, and one of two lines after it.
MCCorpora ==
    {<<File("a", ls), File("b", <<L("blank", 0), L("text", 3)>>)>> :
        ls \in SeqOf(Kinds, MaxLines)}

\* A pattern for headings, and one for every line with text in it.
MCPatterns == {{"heading"}, {"text", "heading"}}
=============================================================================
