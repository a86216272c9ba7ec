-------------------------- MODULE MCChannelStream --------------------------
(***************************************************************************)
(* Instances of ChannelStream for TLC.                                     *)
(***************************************************************************)
EXTENDS ChannelStream

\* The length that bytes which are not a length field spell: too small to
\* be one, plausible, or larger than the ring.
Junk(i) == CASE i % 3 = 0 -> 0
             [] i % 3 = 1 -> Cap
             [] i % 3 = 2 -> Word
=============================================================================
