---------------------------- MODULE MCObjectPool ----------------------------
(* ObjectPool with named threads, for TLC.                                 *)
EXTENDS ObjectPool
CONSTANTS t1, t2
=============================================================================
