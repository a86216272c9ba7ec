----------------------------- MODULE MCTimerHeap -----------------------------
(* TimerHeap with one repeating timer and interchangeable others, for TLC. *)
EXTENDS TimerHeap, TLC
CONSTANTS t1, t2, t3, t4, t5, t6
OnlyFirst == [t \in Timers |-> IF t = t1 THEN {1} ELSE {0}]
AnyTimer == Permutations(Timers \ {t1})
=============================================================================
