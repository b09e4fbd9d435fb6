------------------------------- MODULE MCEngine -------------------------------
(* Instances of Engine for TLC.                                            *)
EXTENDS Engine, TLC

S(src, a, b) == [source |-> src, first |-> a, last |-> b]

\* Two sources; the first chunk is large enough to be cut in two.
MCCorpus == <<S("a", 1, 2), S("b", 1, 1)>>
MCRecut ==
    [s \in Span |-> IF s = S("a", 1, 2) THEN <<S("a", 1, 1), S("a", 2, 2)>>
                    ELSE <<s>>]
=============================================================================
