------------------------- MODULE MCRequestPipeline -------------------------
(* RequestPipeline with named channels and loops, for TLC.                 *)
EXTENDS RequestPipeline, TLC
CONSTANTS c1, c2, l1, l2

\* Each channel on a loop of its own, as the round robin of onAccept does.
TwoLoops == c1 :> l1 @@ c2 :> l2
=============================================================================
