------------------------------ MODULE MCRelease ------------------------------
(* Instances of Release for TLC.                                           *)
EXTENDS Release

\* A version, and one two patches ahead of it.
MCInTree == {Version(0, 1, <<>>), Version(0, 3, <<>>)}

\* A commit of three descriptions, and one with a description above the
\* byte limit.
MCBodies == {<<1, 1, 1>>, <<1, 4>>}
=============================================================================
