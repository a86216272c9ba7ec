--------------------------- MODULE RingFifoProofs ---------------------------
(***************************************************************************)
(* The bytes that come out of a RingByteBuf used as a FIFO are the bytes   *)
(* that went in, and every step of it is a step of ByteFifo, for every     *)
(* capacity and any number of writing and reading threads.                 *)
(***************************************************************************)
EXTENDS RingByteBufProofs, SequenceTheorems

USE RingAssumption, ZeroIsIndex

-----------------------------------------------------------------------------
(* Where the bytes are.                                                    *)

(* Two moves of an index within one turn of the ring are one move.         *)
LEMMA AdvanceTwice ==
  ASSUME NEW i \in Index, NEW n \in Nat, NEW k \in Nat, n + k <= Cap
  PROVE  Advance(Advance(i, n), k) = Advance(i, n + k)
<1>1. n \in 0..Cap /\ k \in 0..Cap /\ n + k \in 0..Cap
  OBVIOUS
<1>2. Advance(i, n) \in Index
  BY AdvanceType
<1>3. /\ Advance(i, n) = IF i + n >= Cap THEN i + n - Cap ELSE i + n
      /\ Advance(i, n + k) = IF i + (n + k) >= Cap THEN i + (n + k) - Cap
                             ELSE i + (n + k)
  BY <1>1, AdvanceWraps
<1>4. Advance(Advance(i, n), k) =
        IF Advance(i, n) + k >= Cap THEN Advance(i, n) + k - Cap
        ELSE Advance(i, n) + k
  BY <1>1, <1>2, AdvanceWraps
<1> QED BY <1>1, <1>3, <1>4 DEF Index

(* The readable bytes end where the next write begins.                     *)
LEMMA TailAfterReadable ==
  ASSUME NEW h \in Index, NEW t \in Index
  PROVE  Advance(h, Readable(h, t)) = t
<1>1. Readable(h, t) \in 0..Cap
  BY ReadableRange
<1>2. Advance(h, Readable(h, t)) =
        IF h + Readable(h, t) >= Cap THEN h + Readable(h, t) - Cap
        ELSE h + Readable(h, t)
  BY <1>1, AdvanceWraps
<1> QED BY <1>2 DEF Readable, Index

(* What a copy of n bytes from slot i leaves there, and elsewhere.         *)
LEMMA FilledThere ==
  ASSUME NEW i \in Index, NEW n \in 0..Cap, NEW k \in 0..(n - 1)
  PROVE  Filled(i, n)[Advance(i, k)] = accepted + 1 + k
<1>1. Advance(i, k) \in Index /\ Advance(i, k) \in Region(i, n)
  BY AdvanceType DEF Region
<1>2. Advance(i, k) = IF i + k >= Cap THEN i + k - Cap ELSE i + k
  BY AdvanceWraps
<1>3. k = IF Advance(i, k) >= i THEN Advance(i, k) - i
          ELSE Advance(i, k) + Cap - i
  BY <1>2 DEF Index
<1> QED BY <1>1, <1>3 DEF Filled

LEMMA FilledElsewhere ==
  ASSUME NEW i \in Index, NEW n \in 0..Cap, NEW s \in Index,
         s \notin Region(i, n)
  PROVE  Filled(i, n)[s] = buf[s]
BY DEF Filled

-----------------------------------------------------------------------------
(* The inductive invariant on the contents.                                *)

\* The bytes accepted and not yet handed out lie between the two indices.
Stored == \A k \in 0..(Readable(head, tail) - 1) :
            buf[Advance(head, k)] = Len(out) + k + 1

\* The bytes of a write that has still to be published lie behind them.
Pending == \A p \in Threads : pc[p] = "w_store" =>
             \A k \in 0..(len[p] - 1) :
               buf[Advance(lt[p], k)] = accepted + 1 + k

InOrder == /\ Len(out) + Readable(head, tail) = accepted
           /\ \A k \in 1..Len(out) : out[k] = k

Contained == InOrder /\ Stored /\ Pending

ContentInv == ~filled => Contained

\* A write has bytes to write, and keeps the index it copies to, also after
\* the ring has been brimful.
WriterAt(p) == /\ pc[p] \in InWrite => len[p] > 0
               /\ pc[p] \in {"w_copy", "w_store"} => lt[p] = tail

Writers == \A p \in Threads : WriterAt(p)

\* A step that moves no byte and finishes no copy.
Quiet == /\ UNCHANGED <<buf, head, tail, accepted, out, filled>>
         /\ \A q \in Threads : pc'[q] = "w_store" =>
              pc[q] = "w_store" /\ len'[q] = len[q] /\ lt'[q] = lt[q]

LEMMA QuietContent ==
  ASSUME Quiet, Contained
  PROVE  Contained'
<1>1. InOrder' /\ Stored'
  BY DEF Quiet, Contained, InOrder, Stored
<1>2. Pending'
  <2> SUFFICES ASSUME NEW p \in Threads, pc'[p] = "w_store",
                      NEW k \in 0..(len'[p] - 1)
               PROVE  buf'[Advance(lt'[p], k)] = accepted' + 1 + k
    BY DEF Pending
  <2> QED BY DEF Quiet, Contained, Pending
<1> QED BY <1>1, <1>2 DEF Contained

(* What the steps are that move bytes.                                     *)
LEMMA QuietSteps ==
  ASSUME RingType, FifoUse, RoleInv, NEW p \in Threads,
         WriteStep(p) \/ ReadStep(p) \/ OtherStep(p)
  PROVE  Quiet \/ WriteCopy(p) \/ WritePublish(p) \/ ReadPublish(p) \/ Consume(p)
<1> USE DEF RingType, Quiet, At, Leave, shared, locks, history
<1>1. ASSUME NEW n \in Lens, WriteCall(p, "tryWrite", n, 0) PROVE Quiet
  BY <1>1 DEF WriteCall
<1>2. ASSUME NEW n \in Lens, NEW i \in Index, WriteCall(p, "writeAt", n, i)
      PROVE  Quiet
  BY <1>2 DEF WriteCall
<1>3. CASE WriteLoadHead(p) \/ WriteNoRoom(p) \/ WriteHasRoom(p) \/ WriteReload(p)
  BY <1>3 DEF WriteLoadHead, WriteNoRoom, WriteHasRoom, WriteReload
<1>4. ~WriteAtCopy(p) /\ ~IncreaseStore(p) /\ ~ClearHead(p) /\ ~ClearTail(p)
  BY DEF WriteAtCopy, IncreaseStore, ClearHead, ClearTail, RoleInv, RoleAt,
         InClear, FifoUse
<1>5. CASE \E n \in Lens, op \in {"read", "peek"} : ReadCall(p, op, n)
  BY <1>5 DEF ReadCall
<1>6. CASE ReadLoadHead(p) \/ ReadNothing(p) \/ ReadSome(p) \/ PeekReturn(p)
  BY <1>6 DEF ReadLoadHead, ReadNothing, ReadSome, PeekReturn
<1>7. CASE LinearReadable(p) \/ ConsumeThrows(p)
  BY <1>7 DEF LinearReadable, ConsumeThrows
<1>8. CASE ClearLock(p) \/ SizeLoadHead(p) \/ SizeLoadTail(p) \/ SizeUsed(p)
  BY <1>8 DEF ClearLock, SizeLoadHead, SizeLoadTail, SizeUsed
<1>9. ASSUME NEW n \in Lens, IncreaseLoad(p, n) PROVE Quiet
  BY <1>9 DEF IncreaseLoad
<1> QED BY <1>1, <1>2, <1>3, <1>4, <1>5, <1>6, <1>7, <1>8, <1>9
        DEF WriteStep, ReadStep, OtherStep

(* A writer's index stays the write index while it copies, because every   *)
(* other writer waits for write_mtx_.                                      *)
LEMMA WriterStep ==
  ASSUME RingType, OneOwnerPerSide, FifoUse, RoleInv, Writers,
         NEW p \in Threads, WriteStep(p) \/ ReadStep(p) \/ OtherStep(p),
         NEW q \in Threads
  PROVE  WriterAt(q)'
<1> USE DEF RingType, Writers, WriterAt, At, Leave, shared, locks, history, InWrite
<1>1. ASSUME NEW n \in Lens, WriteCall(p, "tryWrite", n, 0) PROVE WriterAt(q)'
  BY <1>1 DEF WriteCall
<1>2. ASSUME NEW n \in Lens, NEW i \in Index, WriteCall(p, "writeAt", n, i)
      PROVE  WriterAt(q)'
  BY <1>2 DEF WriteCall
<1>3. CASE WriteLoadHead(p)
  BY <1>3 DEF WriteLoadHead
<1>4. CASE WriteNoRoom(p) \/ WriteHasRoom(p)
  BY <1>4 DEF WriteNoRoom, WriteHasRoom
<1>5. CASE WriteReload(p)
  BY <1>5 DEF WriteReload
<1>6. CASE WriteCopy(p)
  BY <1>6 DEF WriteCopy
<1>7. CASE WritePublish(p)
  <2>1. CASE q = p
    BY <1>7, <2>1 DEF WritePublish
  <2>2. CASE q # p
    <3>1. pc[q] \notin InWrite
      BY <1>7, <2>2 DEF WritePublish, OneOwnerPerSide, HoldsWrite
    <3> QED BY <1>7, <2>2, <3>1 DEF WritePublish
  <2> QED BY <2>1, <2>2
<1>8. ~WriteAtCopy(p) /\ ~IncreaseStore(p) /\ ~ClearHead(p) /\ ~ClearTail(p)
  BY DEF WriteAtCopy, IncreaseStore, ClearHead, ClearTail, RoleInv, RoleAt,
         InClear, FifoUse
<1>9. CASE ReadStep(p)
  <2>1. ASSUME NEW n \in Lens, NEW op \in {"read", "peek"}, ReadCall(p, op, n)
        PROVE  WriterAt(q)'
    BY <2>1 DEF ReadCall
  <2>2. CASE ReadLoadHead(p) \/ ReadNothing(p)
    BY <2>2 DEF ReadLoadHead, ReadNothing
  <2>3. CASE ReadSome(p)
    BY <2>3 DEF ReadSome
  <2>4. CASE ReadPublish(p) \/ PeekReturn(p)
    BY <2>4 DEF ReadPublish, PeekReturn
  <2>5. CASE LinearReadable(p)
    BY <2>5 DEF LinearReadable
  <2>6. CASE Consume(p) \/ ConsumeThrows(p)
    BY <2>6 DEF Consume, ConsumeThrows
  <2> QED BY <1>9, <2>1, <2>2, <2>3, <2>4, <2>5, <2>6 DEF ReadStep
<1>10. CASE OtherStep(p)
  <2>1. ASSUME NEW n \in Lens, IncreaseLoad(p, n) PROVE WriterAt(q)'
    BY <2>1 DEF IncreaseLoad
  <2>2. CASE ClearLock(p) \/ SizeLoadHead(p) \/ SizeLoadTail(p) \/ SizeUsed(p)
    BY <2>2 DEF ClearLock, SizeLoadHead, SizeLoadTail, SizeUsed
  <2> QED BY <1>8, <1>10, <2>1, <2>2 DEF OtherStep
<1> QED BY <1>1, <1>2, <1>3, <1>4, <1>5, <1>6, <1>7, <1>8, <1>9, <1>10
        DEF WriteStep

-----------------------------------------------------------------------------
(* The three kinds of steps that move bytes.                               *)

(* A copy into the free slots leaves the readable ones as they were.       *)
LEMMA CopyContent ==
  ASSUME RingType, OneOwnerPerSide, Room, Contained,
         NEW p \in Threads, WriteCopy(p)
  PROVE  Contained'
<1> USE DEF RingType, WriteCopy, At, history
<1>1. /\ lt[p] = tail /\ len[p] \in Nat
      /\ len[p] + Readable(head, tail) <= Cap
      /\ Readable(head, tail) \in 0..(Cap - 1)
  BY ReadableRange DEF Room, RoomAt
<1>2. len[p] \in 0..Cap /\ buf' = Filled(tail, len[p])
  BY <1>1
<1>3. InOrder'
  BY DEF Contained, InOrder
<1>4. Stored'
  <2> SUFFICES ASSUME NEW k \in 0..(Readable(head, tail) - 1)
               PROVE  buf'[Advance(head, k)] = Len(out) + k + 1
    BY DEF Stored
  <2>1. Advance(head, k) \in Index
    BY AdvanceType
  <2>2. Advance(head, k) \in Region(head, Readable(head, tail))
    BY DEF Region
  <2>3. Region(head, Readable(head, tail)) \cap Region(tail, len[p]) = {}
    <3>1. Readable(head, tail) \in Nat /\ Readable(head, tail) <= Readable(head, tail)
      BY <1>1
    <3> QED BY <1>1, <3>1, RegionsApart
  <2>4. buf'[Advance(head, k)] = buf[Advance(head, k)]
    BY <1>2, <2>1, <2>2, <2>3, FilledElsewhere
  <2> QED BY <2>4 DEF Contained, Stored
<1>5. Pending'
  <2> SUFFICES ASSUME NEW q \in Threads, pc'[q] = "w_store",
                      NEW k \in 0..(len[q] - 1)
               PROVE  buf'[Advance(lt[q], k)] = accepted + 1 + k
    BY DEF Pending
  <2>1. q = p
    BY DEF OneOwnerPerSide, HoldsWrite, InWrite
  <2> QED BY <1>1, <1>2, <2>1, FilledThere
<1> QED BY <1>3, <1>4, <1>5 DEF Contained

(* Publishing makes the pending bytes readable, behind the others.         *)
LEMMA PublishContent ==
  ASSUME RingType, OneOwnerPerSide, Room, Contained,
         NEW p \in Threads, WritePublish(p), ~filled'
  PROVE  Contained'
<1> USE DEF RingType, WritePublish, At, Leave
<1>1. /\ lt[p] = tail /\ len[p] \in Nat
      /\ len[p] + Readable(head, tail) <= Cap
      /\ Readable(head, tail) \in 0..(Cap - 1)
  BY ReadableRange DEF Room, RoomAt
<1>2. /\ tail' = Advance(tail, len[p]) /\ head' = head /\ buf' = buf
      /\ accepted' = accepted + len[p] /\ out' = out /\ tail' # head
  BY <1>1
<1>3. len[p] \in 0..Writable(head, tail)
  BY <1>1 DEF Writable
<1>4. Readable(head', tail') = Readable(head, tail) + len[p]
  BY <1>2, <1>3, WriteMoves
<1>5. InOrder'
  BY <1>1, <1>2, <1>4 DEF Contained, InOrder
<1>6. Stored'
  <2>a. Readable(head', tail') - 1 = Readable(head, tail) + len[p] - 1
    <3>1. /\ Readable(head, tail) \in Int /\ len[p] \in Int
          /\ Readable(head', tail') \in Int
      BY <1>1, <1>4
    <3> HIDE DEF RingType, WritePublish, At, Leave
    <3> QED BY <1>4, <3>1
  <2> SUFFICES ASSUME NEW k \in 0..(Readable(head, tail) + len[p] - 1)
               PROVE  buf'[Advance(head', k)] = Len(out') + k + 1
    BY <2>a, Zenon DEF Stored
  <2>0. k \in Nat /\ k < Readable(head, tail) + len[p]
    BY <1>1
  <2>1. CASE k < Readable(head, tail)
    BY <1>1, <1>2, <2>1 DEF Contained, Stored
  <2>2. CASE k >= Readable(head, tail)
    <3>1. PICK j \in 0..(len[p] - 1) : k = Readable(head, tail) + j
      <4>1. k - Readable(head, tail) \in 0..(len[p] - 1)
            /\ k = Readable(head, tail) + (k - Readable(head, tail))
        BY <1>1, <2>0, <2>2
      <4> QED BY <4>1
    <3>2. Advance(head, k) = Advance(tail, j)
      BY <1>1, <3>1, AdvanceTwice, TailAfterReadable, SMTT(30)
    <3>3. buf[Advance(tail, j)] = accepted + 1 + j
      BY <1>1, <3>1 DEF Contained, Pending
    <3>4. accepted = Len(out) + Readable(head, tail)
      BY DEF Contained, InOrder
    <3>5. /\ Len(out) \in Nat /\ Readable(head, tail) \in Nat
          /\ j \in Nat /\ k \in Nat
      BY <1>1, <2>0
    <3>6. accepted + 1 + j = Len(out) + k + 1
      <4> HIDE DEF RingType, WritePublish, At, Leave
      <4> QED BY <3>1, <3>4, <3>5
    <3> QED BY <1>2, <3>2, <3>3, <3>6
  <2> QED BY <1>1, <2>0, <2>1, <2>2
<1>7. Pending'
  <2> SUFFICES ASSUME NEW q \in Threads, pc'[q] = "w_store" PROVE FALSE
    BY DEF Pending
  <2> QED BY DEF OneOwnerPerSide, HoldsWrite, InWrite
<1> QED BY <1>5, <1>6, <1>7 DEF Contained

(* Bytes handed out come behind those handed out before.                   *)
LEMMA Handed ==
  ASSUME NEW s \in Seq(Nat), NEW t \in Seq(Nat)
  PROVE  /\ Len(s \o t) = Len(s) + Len(t)
         /\ \A k \in 1..(Len(s) + Len(t)) :
              (s \o t)[k] = IF k <= Len(s) THEN s[k] ELSE t[k - Len(s)]
BY ConcatProperties

(* A read or a consume hands out the oldest bytes and leaves the rest.     *)
LEMMA TakeContent ==
  ASSUME RingType, Contained, NEW n \in Nat, n <= Readable(head, tail),
         out' = out \o Contents(head, n), head' = Advance(head, n),
         UNCHANGED <<buf, tail, accepted>>,
         \A q \in Threads : pc'[q] = "w_store" =>
           pc[q] = "w_store" /\ len'[q] = len[q] /\ lt'[q] = lt[q]
  PROVE  Contained' /\ Len(out') = Len(out) + n
<1> USE DEF RingType
<1>1. /\ n \in 0..Readable(head, tail)
      /\ Readable(head, tail) \in 0..(Cap - 1)
  BY ReadableRange
<1>2. Readable(head', tail') = Readable(head, tail) - n
  BY <1>1, ReadMoves
<1>3. Contents(head, n) \in Seq(Nat) /\ Len(Contents(head, n)) = n
  BY ContentsType
<1>4. /\ Len(out') = Len(out) + n /\ Len(out) \in Nat
      /\ \A k \in 1..(Len(out) + n) :
           out'[k] = IF k <= Len(out) THEN out[k]
                     ELSE Contents(head, n)[k - Len(out)]
  <2>1. out \in Seq(Nat) /\ Len(out) \in Nat
    OBVIOUS
  <2>2. /\ Len(out \o Contents(head, n)) = Len(out) + Len(Contents(head, n))
        /\ \A k \in 1..(Len(out) + Len(Contents(head, n))) :
             (out \o Contents(head, n))[k] =
               IF k <= Len(out) THEN out[k] ELSE Contents(head, n)[k - Len(out)]
    BY <1>3, <2>1, Handed, Zenon
  <2> HIDE DEF RingType
  <2> QED BY <1>3, <2>1, <2>2
<1>5. ASSUME NEW k \in 1..n PROVE Contents(head, n)[k] = Len(out) + k
  <2>1. buf[Advance(head, k - 1)] = Len(out) + (k - 1) + 1
    BY <1>1 DEF Contained, Stored
  <2> QED BY <2>1 DEF Contents
<1>6. InOrder'
  <2>1. ASSUME NEW k \in 1..(Len(out) + n) PROVE out'[k] = k
    <3>1. CASE k <= Len(out)
      BY <1>4, <3>1 DEF Contained, InOrder
    <3>2. CASE k > Len(out)
      <4>1. k - Len(out) \in 1..n /\ Len(out) + (k - Len(out)) = k
        BY <1>4, <3>2
      <4> QED BY <1>4, <1>5, <3>2, <4>1
    <3> QED BY <1>4, <3>1, <3>2
  <2> QED BY <1>1, <1>2, <1>4, <2>1, SMTT(30) DEF Contained, InOrder
<1>7. Stored'
  <2> SUFFICES ASSUME NEW k \in 0..(Readable(head, tail) - n - 1)
               PROVE  buf[Advance(head', k)] = Len(out) + n + k + 1
    BY <1>2, <1>4 DEF Stored
  <2>1. Advance(head', k) = Advance(head, n + k)
    BY <1>1, AdvanceTwice
  <2>2. buf[Advance(head, n + k)] = Len(out) + (n + k) + 1
    BY <1>1 DEF Contained, Stored
  <2> QED BY <2>1, <2>2
<1>8. Pending'
  BY ZenonT(60) DEF Contained, Pending
<1> QED BY <1>4, <1>6, <1>7, <1>8 DEF Contained

(* A read and a consume take the bytes from the read index on.             *)
LEMMA TakeStep ==
  ASSUME RingType, Room, Contained, NEW p \in Threads,
         ReadPublish(p) \/ Consume(p)
  PROVE  /\ Contained'
         /\ Len(out') = Len(out) + len[p]
         /\ UNCHANGED <<accepted, filled>>
<1>1. /\ lh[p] = head /\ len[p] \in Nat /\ len[p] <= Readable(head, tail)
      /\ out' = out \o Contents(head, len[p]) /\ head' = Advance(head, len[p])
      /\ UNCHANGED <<buf, tail, accepted, filled>>
  BY DEF RingType, Room, RoomAt, ReadPublish, Consume, At, Leave
<1>2. \A q \in Threads : pc'[q] = "w_store" =>
        pc[q] = "w_store" /\ len'[q] = len[q] /\ lt'[q] = lt[q]
  BY DEF RingType, ReadPublish, Consume, At, Leave
<1> QED BY <1>1, <1>2, TakeContent

LEMMA ContentStep ==
  ASSUME IInv, FifoUse, ContentInv, NEW p \in Threads,
         WriteStep(p) \/ ReadStep(p) \/ OtherStep(p)
  PROVE  ContentInv'
<1>1. RingType /\ OneOwnerPerSide /\ RoleInv
  BY DEF IInv, TypeOK
<1> SUFFICES ASSUME ~filled' PROVE Contained'
  BY DEF ContentInv
<1>2. Room /\ Contained
  BY FilledStays DEF IInv, TypeOK, RoomInv, ContentInv
<1>3. Quiet \/ WriteCopy(p) \/ WritePublish(p) \/ ReadPublish(p) \/ Consume(p)
  BY <1>1, QuietSteps
<1> QED BY <1>1, <1>2, <1>3, QuietContent, CopyContent, PublishContent, TakeStep

FifoInv == IInv /\ ContentInv /\ Writers

(* With the content of the ring added, it still holds in every execution   *)
(* of such a ring (RingByteBuf.cpp:59-123, 163-171).                       *)
THEOREM FifoInvariant ==
  ASSUME FifoUse
  PROVE  Spec => []FifoInv
<1>1. Init => ContentInv /\ Writers
  <2> SUFFICES ASSUME Init PROVE Contained /\ Writers
    BY DEF ContentInv
  <2>1. Readable(head, tail) = 0 /\ Len(out) = 0
    BY DEF Init, Readable
  <2> QED BY <2>1 DEF Init, Contained, InOrder, Stored, Pending, Writers,
                     WriterAt, InWrite
<1>2. IInv /\ ContentInv /\ Writers /\ [Next]_vars => ContentInv' /\ Writers'
  <2> SUFFICES ASSUME IInv, ContentInv, Writers, [Next]_vars
               PROVE  ContentInv' /\ Writers'
    OBVIOUS
  <2>1. CASE UNCHANGED vars
    BY <2>1 DEF vars, shared, locks, local, history, ContentInv, Contained,
                InOrder, Stored, Pending, Writers, WriterAt
  <2>2. ASSUME NEW p \in Threads, WriteStep(p) \/ ReadStep(p) \/ OtherStep(p)
        PROVE  ContentInv' /\ Writers'
    <3>1. ContentInv'
      BY <2>2, FifoUse, ContentStep
    <3>2. \A q \in Threads : WriterAt(q)'
      BY <2>2, FifoUse, WriterStep DEF IInv, TypeOK
    <3> QED BY <3>1, <3>2 DEF Writers
  <2> QED BY <2>1, <2>2 DEF Next
<1> QED BY <1>1, <1>2, RoomInvariant, FifoUse, PTL DEF Spec, FifoInv

(* For every capacity and any number of writers and readers: while no      *)
(* write has used the last free byte, the bytes read and consumed are the  *)
(* bytes accepted by tryWrite, in that order, none lost and none twice     *)
(* (RingByteBuf.cpp:59-81, 101-123, 163-171).                              *)
THEOREM BytesInOrder ==
  ASSUME FifoUse
  PROVE  Spec => []DeliveredInOrder
<1>1. FifoInv => DeliveredInOrder
  BY DEF FifoInv, ContentInv, Contained, InOrder, DeliveredInOrder
<1> QED BY <1>1, FifoInvariant, FifoUse, PTL

(* The write index a writer loaded is still the one it replaces, and the   *)
(* room it found is still there: no published write is lost                *)
(* (RingByteBuf.cpp:60-79).                                                *)
THEOREM WriteIndexStable ==
  ASSUME FifoUse
  PROVE  Spec => []TailStable
<1>1. FifoInv => TailStable
  <2> SUFFICES ASSUME FifoInv, NEW p \in Threads,
                      pc[p] \in {"w_reload", "w_copy", "w_store"}
               PROVE  /\ ~filled => len[p] <= Writable(head, tail)
                      /\ pc[p] # "w_reload" => lt[p] = tail
    BY DEF TailStable
  <2>1. ~filled => len[p] + Readable(head, tail) <= Cap
    BY DEF FifoInv, IInv, RoomInv, Room, RoomAt
  <2>2. len[p] \in Nat /\ Readable(head, tail) \in 0..(Cap - 1)
    BY ReadableRange DEF FifoInv, IInv, TypeOK, RingType
  <2> QED BY <2>1, <2>2 DEF FifoInv, Writers, WriterAt, Writable
<1> QED BY <1>1, FifoInvariant, FifoUse, PTL

-----------------------------------------------------------------------------
(* Refinement.                                                             *)

Sent == [k \in 1..accepted |-> k]

LEMMA SentPrefix ==
  ASSUME NEW a \in Nat, NEW n \in Nat
  PROVE  /\ Len([k \in 1..a |-> k]) = a
         /\ Fifo!IsPrefix([k \in 1..a |-> k], [k \in 1..(a + n) |-> k])
BY DEF Fifo!IsPrefix

LEMMA PublishRefines ==
  ASSUME FifoInv, ~filled, NEW p \in Threads, WritePublish(p)
  PROVE  Fifo!Put \/ Fifo!Brim
<1>1. RingType /\ RoomAt(p) /\ WriterAt(p) /\ InOrder
  BY DEF FifoInv, IInv, TypeOK, RoomInv, Room, Writers, ContentInv, Contained
<1>2. /\ lt[p] = tail /\ len[p] \in Nat /\ len[p] > 0
      /\ len[p] + Readable(head, tail) <= Cap
      /\ Readable(head, tail) \in 0..(Cap - 1)
  BY <1>1, ReadableRange DEF RingType, RoomAt, WriterAt, WritePublish, Leave, At,
                             InWrite
<1>3. /\ tail' = Advance(tail, len[p]) /\ accepted' = accepted + len[p]
      /\ out' = out /\ filled' = (tail' = head)
  BY <1>2 DEF WritePublish
<1>4. accepted \in Nat /\ Len(out) \in Nat
      /\ accepted = Len(out) + Readable(head, tail)
  BY <1>1 DEF RingType, InOrder
<1>5. Fifo!IsPrefix(Sent, Sent') /\ Len(Sent') = accepted + len[p]
  <2>1. Sent' = [k \in 1..(accepted + len[p]) |-> k] /\ accepted + len[p] \in Nat
    BY <1>2, <1>3, <1>4 DEF Sent
  <2>2. Len(Sent') = accepted + len[p]
    BY <2>1, SentPrefix
  <2> QED BY <1>2, <1>4, <2>1, <2>2, SentPrefix DEF Sent
<1>6. CASE tail' = head
  <2>1. len[p] + Readable(head, tail) = Cap
    <3>1. len[p] \in 0..Writable(head, tail) /\ head \in Index /\ tail \in Index
      BY <1>1, <1>2 DEF Writable, RingType
    <3>2. Readable(head, head) = 0
      BY <3>1 DEF Readable, Index
    <3>3. \/ len[p] = Writable(head, tail)
          \/ Readable(head, head) = Readable(head, tail) + len[p]
      <4>1. \/ len[p] = Writable(head, tail)
            \/ Readable(head, Advance(tail, len[p])) = Readable(head, tail) + len[p]
        BY <3>1, WriteMoves
      <4>2. Advance(tail, len[p]) = head
        BY <1>3, <1>6
      <4> QED BY <4>1, <4>2, Zenon
    <3> QED BY <1>2, <3>2, <3>3 DEF Writable
  <2>2. Len(Sent') - Len(out) = Cap
    BY <1>2, <1>4, <1>5, <2>1
  <2>3. out' = out /\ filled' = TRUE
    BY <1>3, <1>6
  <2> QED BY <1>5, <2>2, <2>3 DEF Fifo!Brim, Sent
<1>7. CASE tail' # head
  <2>1. len[p] + Readable(head, tail) < Cap
    <3>1. len[p] \in 0..Writable(head, tail) /\ head \in Index /\ tail \in Index
      BY <1>1, <1>2 DEF Writable, RingType
    <3> QED BY <1>2, <1>3, <1>7, <3>1, WriteMoves DEF Writable
  <2>2. Len(Sent') - Len(out) < Cap
    BY <1>2, <1>4, <1>5, <2>1
  <2>3. out' = out /\ filled' = FALSE
    BY <1>3, <1>7
  <2> QED BY <1>5, <2>2, <2>3 DEF Fifo!Put, Sent
<1> QED BY <1>6, <1>7

LEMMA TakeRefines ==
  ASSUME FifoInv, ~filled, NEW p \in Threads, ReadPublish(p) \/ Consume(p)
  PROVE  Fifo!Get
<1>1. RingType /\ Room /\ Contained
  BY DEF FifoInv, IInv, TypeOK, RoomInv, ContentInv
<1>2. Contained' /\ Len(out') = Len(out) + len[p] /\ UNCHANGED <<accepted, filled>>
  BY <1>1, TakeStep
<1>3. /\ Len(out) \in Nat /\ len[p] \in Nat /\ accepted \in Nat
      /\ \A k \in 1..Len(out) : out[k] = k
      /\ \A k \in 1..Len(out') : out'[k] = k
  BY <1>1, <1>2 DEF RingType, Contained, InOrder
<1>4. Len(out') <= accepted
  <2>1. Len(out') + Readable(head, tail)' = accepted
    BY <1>2 DEF Contained, InOrder
  <2>2. Readable(head, tail)' \in 0..(Cap - 1)
    <3>1. head \in Index /\ tail \in Index /\ lh[p] \in Index
      BY <1>1 DEF RingType
    <3>2. tail' = tail /\ head' \in {Advance(lh[p], len[p]), Advance(head, len[p])}
      BY DEF ReadPublish, Consume
    <3>3. head' \in Index
      BY <1>3, <3>1, <3>2, AdvanceType
    <3> QED BY <3>1, <3>2, <3>3, ReadableRange
  <2> QED BY <1>2, <1>3, <2>1, <2>2
<1>5. Fifo!IsPrefix(out, out')
  BY <1>2, <1>3 DEF Fifo!IsPrefix
<1>6. Fifo!IsPrefix(out', Sent) /\ Sent' = Sent
  <2>1. Len(Sent) = accepted
    BY <1>3, SentPrefix DEF Sent
  <2> QED BY <1>2, <1>3, <1>4, <2>1 DEF Fifo!IsPrefix, Sent
<1> QED BY <1>2, <1>5, <1>6 DEF Fifo!Get, Sent

(* Every execution of a RingByteBuf used as a FIFO is one of the bounded   *)
(* FIFO of bytes: writes are all or nothing, reads take the oldest bytes,  *)
(* and the promise ends with the write that uses the last free byte.       *)
THEOREM RingImplementsFifo ==
  ASSUME FifoUse
  PROVE  Spec => FifoSpec
<1>1. Init => Fifo!Init
  BY DEF Init, Fifo!Init
<1>2. FifoInv /\ FifoInv' /\ [Next]_vars => [Fifo!Next]_(Fifo!vars)
  <2> SUFFICES ASSUME FifoInv, FifoInv', [Next]_vars
               PROVE  [Fifo!Next]_(Fifo!vars)
    OBVIOUS
  <2>1. CASE UNCHANGED vars
    BY <2>1 DEF vars, history, Fifo!vars
  <2>2. ASSUME NEW p \in Threads, WriteStep(p) \/ ReadStep(p) \/ OtherStep(p)
        PROVE  [Fifo!Next]_(Fifo!vars)
    <3>1. CASE filled
      BY <2>2, <3>1, FilledStays DEF FifoInv, IInv, TypeOK, Fifo!AfterBrim, Fifo!Next
    <3>2. CASE ~filled
      <4>1. Quiet \/ WriteCopy(p) \/ WritePublish(p) \/ ReadPublish(p) \/ Consume(p)
        BY <2>2, FifoUse, QuietSteps DEF FifoInv, IInv, TypeOK
      <4>2. CASE Quiet \/ WriteCopy(p)
        BY <4>2 DEF Quiet, WriteCopy, history, Fifo!vars
      <4>3. CASE WritePublish(p)
        BY <3>2, <4>3, PublishRefines DEF Fifo!Next
      <4>4. CASE ReadPublish(p) \/ Consume(p)
        BY <3>2, <4>4, TakeRefines DEF Fifo!Next
      <4> QED BY <4>1, <4>2, <4>3, <4>4
    <3> QED BY <3>1, <3>2
  <2> QED BY <2>1, <2>2 DEF Next
<1> QED BY <1>1, <1>2, FifoInvariant, FifoUse, PTL DEF Spec, FifoSpec, Fifo!Spec
=============================================================================
