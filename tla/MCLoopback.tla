----------------------------- MODULE MCLoopback -----------------------------
(* Two runs of a sidecar, the secret rotated between them.                 *)
EXTENDS Loopback, TLC

CONSTANTS old, new, a1, a2
CallerSymmetry == Permutations(Callers)
Rotated == [g \in RunIds |-> IF g = 1 THEN old ELSE new]
=============================================================================
