--------------------------- MODULE MCRingByteBuf ---------------------------
(***************************************************************************)
(* Instances of RingByteBuf for TLC: who calls what.                       *)
(***************************************************************************)
EXTENDS RingByteBuf, TLC

CONSTANTS w1, w2, r1, r2

\* Two writers and two readers that copy.
CopyRole == w1 :> {"tryWrite"} @@ w2 :> {"tryWrite"}
              @@ r1 :> {"read", "peek"} @@ r2 :> {"read"}

\* One writer, which also writes at an index and moves tail_ by hand, and the
\* one thread that drains the ring as Channel does and resets it, while a
\* third looks on.
DrainRole == w1 :> {"tryWrite", "writeAt", "increase"}
               @@ r1 :> {"linear", "size", "read", "clear"}
               @@ r2 :> {"peek"}

\* What every guard reads: the bytes themselves, in the ring and handed out,
\* decide nothing.
Control == <<head, tail, locks, local, accepted, filled, threw>>
=============================================================================
