---------------------------- MODULE ChannelStream ----------------------------
(***************************************************************************)
(* One direction of a connection between two Channels: a message is framed *)
(* into the sender's ring, the ring's memory is handed to uv_write, TCP    *)
(* cuts the bytes anywhere, and the receiver's event loop collects them in *)
(* its own ring and takes complete packets out of it.                      *)
(*                                                                         *)
(* Each side is one event-loop thread, so its rings are used by one thread *)
(* only.  The sender's ring is empty between two sends (the loop in        *)
(* eventLoopDoSend drains it), so one position stands for both its         *)
(* indices; its memory is kept, because libuv reads it later.  The         *)
(* receiver's ring is the sequence of bytes it holds.                      *)
(*                                                                         *)
(* A byte is <<m, i>>: byte i of the packet of the m-th message.           *)
(***************************************************************************)
EXTENDS Naturals, Sequences

CONSTANTS
  Cap,         \* bytes of a ring (512 in ByteBuffer::createBuffer)
  Word,        \* bytes of an int32 field (4)
  Bodies,      \* the body lengths of the messages
  MaxMsgs,     \* bound: messages sent
  SockBuf,     \* bytes the two kernels and the network hold
  MaxChunk,    \* bytes one read callback brings (libuv offers 65536)
  JunkLen(_)   \* the length an int32 read at byte i of a packet gives

Header == 2 * Word     \* length and msgId

ASSUME StreamAssumption ==
  /\ Word \in Nat \ {0} /\ Cap \in Nat /\ Header < Cap
  /\ Bodies \subseteq Nat
  /\ MaxMsgs \in Nat /\ SockBuf \in Nat \ {0} /\ MaxChunk \in Nat \ {0}
  /\ \A i \in 1..Cap : JunkLen(i) \in Nat

VARIABLES
  mem,        \* memory of the sender's send_buff
  pos,        \* its read and write index
  pending,    \* the slots uv_write was given and has not written yet
  promised,   \* history: the bytes those slots held when it was given them
  sopen,      \* the sender's handle is open
  wire,       \* bytes the kernels and the network hold
  rring,      \* bytes in the receiver's recv_buffer
  closed,     \* the receiver has been through on_closed and uv_close
  phase,      \* the receiver's loop: "poll", or "drain" in uv_read_cb
  bodies,     \* history: the body length of each message sent
  received,   \* history: the packets given to on_read
  harm        \* history: what has gone wrong with the bytes

sender   == <<mem, pos, pending, promised, sopen, bodies>>
receiver == <<rring, closed, phase, received>>
vars     == <<sender, wire, receiver, harm>>

Slot == 0..(Cap - 1)

PacketLen(m)  == Header + bodies[m]
Packet(m)     == [i \in 1..PacketLen(m) |-> <<m, i>>]

Min2(a, b) == IF a <= b THEN a ELSE b

Init ==
  /\ mem = [s \in Slot |-> <<0, 0>>] /\ pos = 0
  /\ pending = <<>> /\ promised = <<>> /\ sopen = TRUE
  /\ wire = <<>>
  /\ rring = <<>> /\ closed = FALSE /\ phase = "poll"
  /\ bodies = <<>> /\ received = <<>>
  /\ harm = {}

-----------------------------------------------------------------------------
(* The sender.                                                             *)

\* The three writes of a message of body length b: the header always fits
\* the empty ring; a body that does not is not written, and nobody looks.
Framed(b) == IF Header + b <= Cap THEN Header + b ELSE Header

\* Mutant: from the start of the memory, not from the read index.
SlotsFromStart(n) == [i \in 1..n |-> i - 1]

\* The slots of n bytes from pos: one region, or two when the ring wraps.
SlotsFrom(n) == [i \in 1..n |-> (pos + i - 1) % Cap]

\* n bytes of message m in the ring's memory.
Written(m, n) ==
  [s \in Slot |->
     LET i == IF s >= pos THEN s - pos + 1 ELSE s + Cap - pos + 1
     IN  IF i <= n THEN <<m, i>> ELSE mem[s]]

\* libuv copies the next k bytes of what it was given into the socket.
Transmit(k, m, slots, bytes) ==
  /\ wire' = wire \o [i \in 1..k |-> m[slots[i]]]
  /\ pending' = SubSeq(slots, k + 1, Len(slots))
  /\ promised' = SubSeq(bytes, k + 1, Len(bytes))

\* eventLoopDoSend: frame, give the regions to uv_write, consume them at
\* once.  A ring filled to the last byte looks empty and nothing is sent.
\* uv_write fails on a closed handle; else it writes what the socket takes
\* unless earlier writes are waiting.
Send(b) ==
  LET m     == Len(bodies) + 1
      n     == Framed(b)
      given == IF n = Cap \/ ~sopen THEN 0 ELSE n
      slots == pending \o SubSeq(SlotsFrom(n), 1, given)
      bytes == promised \o [i \in 1..given |-> <<m, i>>]
      now   == IF pending = <<>> THEN Min2(given, SockBuf - Len(wire)) ELSE 0
  IN  /\ Len(bodies) < MaxMsgs
      /\ bodies' = Append(bodies, b)
      /\ mem' = Written(m, n)
      /\ pos' = (pos + n) % Cap
      /\ Transmit(now, mem', slots, bytes)
      /\ harm' = harm \cup (IF n # Header + b THEN {"cut"} ELSE {})
                      \cup (IF n = Cap THEN {"brim"} ELSE {})
                      \cup (IF \E i \in DOMAIN pending :
                                 mem'[pending[i]] # mem[pending[i]]
                            THEN {"clobber"} ELSE {})
      /\ UNCHANGED <<sopen, receiver>>

\* The socket is writable again.
Flush ==
  /\ sopen /\ pending # <<>>
  /\ \E k \in 1..Min2(Len(pending), SockBuf - Len(wire)) :
       Transmit(k, mem, pending, promised)
  /\ UNCHANGED <<mem, pos, sopen, bodies, receiver, harm>>

\* The sender's own read callback or Channel::close closes the handle:
\* libuv cancels the writes that wait.
SenderCloses ==
  /\ sopen /\ sopen' = FALSE
  /\ pending' = <<>> /\ promised' = <<>>
  /\ UNCHANGED <<mem, pos, bodies, wire, receiver, harm>>

-----------------------------------------------------------------------------
(* The receiver: uv_read_cb.                                               *)

\* Mutant: a chunk that fits exactly is kept.
ReadChunkExact ==
  /\ phase = "poll" /\ ~closed
  /\ \E n \in 1..Min2(Len(wire), MaxChunk) :
       /\ wire' = SubSeq(wire, n + 1, Len(wire))
       /\ rring' = IF n > Cap - Len(rring) THEN rring
                   ELSE rring \o SubSeq(wire, 1, n)
  /\ phase' = "drain"
  /\ UNCHANGED <<sender, closed, received, harm>>

\* onRead with nread > 0.  A chunk that does not fit the ring is dropped,
\* and one that fits exactly makes the ring look empty: nobody looks.
ReadChunk ==
  /\ phase = "poll" /\ ~closed
  /\ \E n \in 1..Min2(Len(wire), MaxChunk) :
       LET room == Cap - Len(rring)
       IN  /\ wire' = SubSeq(wire, n + 1, Len(wire))
           /\ rring' = IF n > room THEN rring
                       ELSE IF n = room THEN <<>>
                       ELSE rring \o SubSeq(wire, 1, n)
           /\ harm' = harm \cup (IF n > room THEN {"drop"} ELSE {})
                           \cup (IF n = room THEN {"wipe"} ELSE {})
  /\ phase' = "drain"
  /\ UNCHANGED <<sender, closed, received>>

\* onRead with nread <= 0: end of stream, an error, or nothing to read.
ReadEnd ==
  /\ phase = "poll" /\ ~closed
  /\ closed' = TRUE
  /\ phase' = "drain"
  /\ UNCHANGED <<sender, wire, rring, received, harm>>

\* The length field at the head of the ring; a stream out of step yields
\* the length some other bytes happen to spell.
HeadLen ==
  LET b == rring[1]
  IN  IF \A i \in 1..Word : rring[i] = <<b[1], i>>
      THEN Word + bodies[b[1]]
      ELSE JunkLen(b[2])

\* Mutant: a bare header is not a packet.
HasBodiedPacket == Len(rring) > Header /\ HeadLen <= Len(rring) - Word

\* getNextPackLen: at least a header, and as many bytes as it says.
HasPacket == Len(rring) >= Header /\ HeadLen <= Len(rring) - Word

\* Mutant: the length field is not counted.
GetShortPack ==
  /\ phase = "drain" /\ HasPacket
  /\ received' = Append(received, SubSeq(rring, 1, HeadLen))
  /\ rring' = SubSeq(rring, HeadLen + 1, Len(rring))
  /\ UNCHANGED <<sender, wire, closed, phase, harm>>

\* Mutant: the ring is cleared once a packet has been read from it.
GetPackClears ==
  /\ phase = "drain" /\ HasPacket
  /\ received' = Append(received, SubSeq(rring, 1, HeadLen + Word))
  /\ rring' = <<>>
  /\ UNCHANGED <<sender, wire, closed, phase, harm>>

\* getPack, then on_read.
GetPack ==
  /\ phase = "drain" /\ HasPacket
  /\ received' = Append(received, SubSeq(rring, 1, HeadLen + Word))
  /\ rring' = SubSeq(rring, HeadLen + Word + 1, Len(rring))
  /\ UNCHANGED <<sender, wire, closed, phase, harm>>

\* Mutant: the loop may stop before the ring is drained.
DrainStops ==
  /\ phase = "drain"
  /\ phase' = "poll"
  /\ UNCHANGED <<sender, wire, rring, closed, received, harm>>

DrainDone ==
  /\ phase = "drain" /\ ~HasPacket
  /\ phase' = "poll"
  /\ UNCHANGED <<sender, wire, rring, closed, received, harm>>

-----------------------------------------------------------------------------
Next ==
  \/ \E b \in Bodies : Send(b)
  \/ Flush \/ SenderCloses
  \/ ReadChunk \/ ReadEnd \/ GetPack \/ DrainDone

Spec == Init /\ [][Next]_vars

\* The loops keep running and TCP keeps delivering.
Fairness == WF_vars(Flush) /\ WF_vars(ReadChunk)
              /\ WF_vars(GetPack) /\ WF_vars(DrainDone)

FairSpec == Spec /\ Fairness

-----------------------------------------------------------------------------
Byte == {<<0, 0>>} \cup
          UNION {{<<m, i>> : i \in 1..PacketLen(m)} : m \in DOMAIN bodies}

TypeOK ==
  /\ \A s \in Slot : mem[s] \in Byte
  /\ pos \in Slot
  /\ \A i \in DOMAIN pending : pending[i] \in Slot
  /\ Len(promised) = Len(pending)
  /\ \A i \in DOMAIN wire : wire[i] \in Byte
  /\ Len(wire) <= SockBuf
  /\ \A i \in DOMAIN rring : rring[i] \in Byte
  /\ Len(rring) < Cap
  /\ phase \in {"poll", "drain"}
  /\ harm \subseteq {"cut", "brim", "clobber", "drop", "wipe"}

(* However TCP cuts the bytes, the handler sees the messages in the order  *)
(* they were sent, each whole and each once (EventLoop.cpp:47, Channel.h   *)
(* 75-81).  It takes that no message was too long for a ring, no chunk for *)
(* the room left, and no waiting write was overwritten.                    *)
PacketsInOrder ==
  harm = {} => /\ Len(received) <= Len(bodies)
               /\ \A k \in DOMAIN received : received[k] = Packet(k)

(* Every packet given to the handler is one that was sent, whole: what     *)
(* "get one complete packet" (EventLoop.cpp:52) says with no condition.    *)
OnlyCompletePackets ==
  \A k \in DOMAIN received : \E m \in DOMAIN bodies : received[k] = Packet(m)

(* A message too long for a ring spoils none before it, although they may  *)
(* still be pending, on the wire or half collected when its body is        *)
(* refused (Channel.cpp:56-58): each arrives whole, in its place and once. *)
EarlierMessagesUnspoilt ==
  harm \subseteq {"cut", "brim"} =>
    \A k \in DOMAIN received :
      (\A m \in 1..Min2(k, Len(bodies)) : PacketLen(m) < Cap)
        => k <= Len(bodies) /\ received[k] = Packet(k)

(* After on_closed the handler hears no more of the channel, although      *)
(* uv_read_cb goes on to getPack once onRead has closed it.                *)
SilentAfterClose == [][closed => received' = received]_vars

(* The memory uv_write still has to read is what it was given, for the     *)
(* last Cap bytes given: the slack the early consume leaves.               *)
RecentWritesIntact ==
  harm \cap {"cut", "brim"} = {} =>
    \A i \in DOMAIN pending :
      Len(pending) - i < Cap => mem[pending[i]] = promised[i]

(* The memory uv_write still has to read is what it was given              *)
(* (RingByteBuf.h:78-79, "After using the region, call consume()").        *)
RegionUntouched ==
  \A i \in DOMAIN pending : mem[pending[i]] = promised[i]

(* A message sent on an open connection is handled, unless the connection  *)
(* closes or a length was exceeded on the way.                             *)
EventuallyHandled ==
  \A k \in 1..MaxMsgs :
    Len(bodies) >= k ~> Len(received) >= k \/ closed \/ ~sopen \/ harm # {}
=============================================================================
