---------------------------- MODULE MCEventLoop ----------------------------
(* EventLoop with named producer threads, for TLC.                         *)
EXTENDS EventLoop
CONSTANTS p1, p2
=============================================================================
