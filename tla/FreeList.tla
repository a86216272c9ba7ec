------------------------------- MODULE FreeList -------------------------------
(***************************************************************************)
(* What ObjectPool promises: a stack of free objects and a set of objects  *)
(* in use.  An object is made only when none is free; one that is returned *)
(* is pushed, or given up for good.                                        *)
(***************************************************************************)
EXTENDS Naturals, Sequences

VARIABLES
  free,     \* the free objects, the last one returned first
  used      \* the objects in use

vars == <<free, used>>

Free == {free[i] : i \in DOMAIN free}

Init == /\ used = {}
        /\ \A i, j \in DOMAIN free : free[i] = free[j] => i = j

\* acquire, from the pool: the object returned last.
Take == /\ free # <<>>
        /\ free' = Tail(free)
        /\ used' = used \cup {Head(free)}
        /\ Head(free) \notin used

\* acquire, on a miss: an object nobody has.
Make == /\ free = <<>> /\ free' = free
        /\ \E o \in used' : used' \ used = {o} /\ used \subseteq used'

\* release, into the pool.
Give == \E o \in used \ Free :
          /\ free' = <<o>> \o free
          /\ used' = used \ {o}

\* release, when the pool does not want it.
Drop == /\ free' = free
        /\ \E o \in used : used' = used \ {o}

Next == Take \/ Make \/ Give \/ Drop

Spec == Init /\ [][Next]_vars
=============================================================================
