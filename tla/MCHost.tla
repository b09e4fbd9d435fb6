-------------------------------- MODULE MCHost --------------------------------
(* Instances of Host for TLC.                                              *)
EXTENDS Host, TLC

CONSTANTS q1, q2, p1, p2, a1, a2

\* One query whose map has two leaves.
OneQueryOf == p1 :> q1 @@ a1 :> q1 @@ a2 :> q1
OnePlanner == q1 :> p1
OneMaxCalls == q1 :> 4

\* A second query at the same gate.
TwoQueryOf == OneQueryOf @@ p2 :> q2
TwoPlanner == q1 :> p1 @@ q2 :> p2
TwoMaxCalls == q1 :> 3 @@ q2 :> 2
=============================================================================
