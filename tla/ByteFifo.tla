------------------------------- MODULE ByteFifo -------------------------------
(***************************************************************************)
(* What RingByteBuf promises its users: a FIFO of at most Cap - 1 unread   *)
(* bytes.  A write that brings the unread bytes to exactly Cap is accepted *)
(* by the code, which then cannot tell the full ring from the empty one;   *)
(* nothing is promised from there on.                                      *)
(***************************************************************************)
EXTENDS Naturals, Sequences

CONSTANT Cap       \* the capacity

VARIABLES
  sent,   \* the bytes accepted so far, in order
  rcvd,   \* the bytes handed out so far, in order
  ok      \* the ring has never been brimful

vars == <<sent, rcvd, ok>>

IsPrefix(s, t) == Len(s) <= Len(t) /\ \A k \in 1..Len(s) : s[k] = t[k]

Init == sent = <<>> /\ rcvd = <<>> /\ ok = TRUE

\* A write: all of its bytes or none, and never into the last free byte.
Put == /\ ok /\ ok'
       /\ rcvd' = rcvd
       /\ IsPrefix(sent, sent')
       /\ Len(sent') - Len(rcvd) < Cap

\* A read or a consume: the oldest unread bytes, any number of them.
Get == /\ ok /\ ok'
       /\ sent' = sent
       /\ IsPrefix(rcvd, rcvd')
       /\ IsPrefix(rcvd', sent)

\* A write that uses the last free byte.
Brim == /\ ok /\ ~ok'
        /\ rcvd' = rcvd
        /\ IsPrefix(sent, sent')
        /\ Len(sent') - Len(rcvd) = Cap

AfterBrim == ~ok /\ ~ok'

Next == Put \/ Get \/ Brim \/ AfterBrim

Spec == Init /\ [][Next]_vars
=============================================================================
