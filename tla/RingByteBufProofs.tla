-------------------------- MODULE RingByteBufProofs --------------------------
(***************************************************************************)
(* Theorems about RingByteBuf for every capacity, every set of threads and *)
(* every assignment of calls to threads.                                   *)
(***************************************************************************)
EXTENDS RingByteBuf, TLAPS

-----------------------------------------------------------------------------
(* Lemmas about the index arithmetic.                                      *)

(* An index plus at most one turn of the ring wraps at most once: this is  *)
(* what "% cap_" computes in every call (RingByteBuf.cpp:72, 114, 170).    *)
LEMMA AdvanceWraps ==
  ASSUME NEW i \in Index, NEW n \in 0..Cap
  PROVE  Advance(i, n) = IF i + n >= Cap THEN i + n - Cap ELSE i + n
BY RingAssumption DEF Index, Advance

(* An index stays an index, whatever is added to it.                       *)
LEMMA AdvanceType ==
  ASSUME NEW i \in Index, NEW n \in Nat
  PROVE  Advance(i, n) \in Index
BY RingAssumption DEF Index, Advance

(* readableBytes() of two indices lies between 0 and Cap - 1: it can never *)
(* say that the ring is full (RingByteBuf.cpp:45-50).                      *)
LEMMA ReadableRange ==
  ASSUME NEW h \in Index, NEW t \in Index
  PROVE  Readable(h, t) \in 0..(Cap - 1)
BY RingAssumption DEF Index, Readable

(* Copying n bytes into the ring leaves bytes in every slot.               *)
LEMMA FilledType ==
  ASSUME RingType, NEW i \in Index, NEW n \in Nat
  PROVE  Filled(i, n) \in [Index -> Nat]
BY RingAssumption, SMTT(30) DEF Filled, Index, RingType

(* What a copy out of the ring yields is a sequence of bytes.              *)
LEMMA ContentsType ==
  ASSUME RingType, NEW i \in Index, NEW n \in Nat
  PROVE  Contents(i, n) \in Seq(Nat) /\ Len(Contents(i, n)) = n
<1>1. \A k \in 1..n : buf[Advance(i, k - 1)] \in Nat
  BY AdvanceType DEF RingType
<1>2. QED
  BY <1>1 DEF Contents

(* The ring has a slot 0.                                                  *)
LEMMA ZeroIsIndex == 0 \in Index
BY RingAssumption DEF Index

-----------------------------------------------------------------------------
(* Types and the two mutexes.                                              *)

USE RingAssumption, ZeroIsIndex

LEMMA InitType == Init => RingType
BY DEF Init, RingType, Index, Places

LEMMA WriteStepType ==
  ASSUME RingType, NEW p \in Threads, WriteStep(p)
  PROVE  RingType'
<1> USE DEF RingType, shared, locks, history, At, Leave, Places, InWrite
<1>1. ASSUME NEW n \in Lens, WriteCall(p, "tryWrite", n, 0) PROVE RingType'
  BY <1>1 DEF WriteCall
<1>2. ASSUME NEW n \in Lens, NEW i \in Index, WriteCall(p, "writeAt", n, i)
      PROVE  RingType'
  BY <1>2 DEF WriteCall
<1>3. CASE WriteLoadHead(p)
  BY <1>3 DEF WriteLoadHead
<1>4. CASE WriteNoRoom(p)
  <2>1. CASE Leave(p, "w_tail")
    BY <1>4, <2>1 DEF WriteNoRoom
  <2>2. CASE Leave(p, "a_tail")
    BY <1>4, <2>2 DEF WriteNoRoom
  <2>3. QED
    BY <1>4, <2>1, <2>2 DEF WriteNoRoom
<1>5. CASE WriteHasRoom(p)
  BY <1>5 DEF WriteHasRoom
<1>6. CASE WriteReload(p)
  BY <1>6 DEF WriteReload
<1>7. CASE WriteCopy(p)
  BY <1>7, FilledType DEF WriteCopy
<1>8. CASE WriteAtCopy(p)
  <2>1. Filled(lt[p], len[p]) \in [Index -> Nat]
    BY FilledType
  <2>2. QED
    BY <1>8, <2>1 DEF WriteAtCopy
<1>9. CASE WritePublish(p)
  <2>1. Advance(lt[p], len[p]) \in Index
    BY AdvanceType
  <2>2. accepted + len[p] \in Nat
    OBVIOUS
  <2>3. QED
    BY <1>9, <2>1, <2>2 DEF WritePublish
<1>10. QED
  BY <1>1, <1>2, <1>3, <1>4, <1>5, <1>6, <1>7, <1>8, <1>9 DEF WriteStep

LEMMA ReadStepType ==
  ASSUME RingType, NEW p \in Threads, ReadStep(p)
  PROVE  RingType'
<1> USE DEF RingType, shared, locks, history, At, Leave, Places, InRead
<1>1. ASSUME NEW n \in Lens, NEW op \in {"read", "peek"}, ReadCall(p, op, n)
      PROVE  RingType'
  BY <1>1 DEF ReadCall
<1>2. CASE ReadLoadHead(p)
  BY <1>2 DEF ReadLoadHead
<1>3. CASE ReadNothing(p)
  <2>1. CASE Leave(p, "r_tail")
    BY <1>3, <2>1 DEF ReadNothing
  <2>2. CASE Leave(p, "p_tail")
    BY <1>3, <2>2 DEF ReadNothing
  <2>3. QED
    BY <1>3, <2>1, <2>2 DEF ReadNothing
<1>4. CASE ReadSome(p)
  <2>1. Readable(lh[p], tail) \in Nat
    BY ReadableRange
  <2>2. QED
    BY <1>4, <2>1 DEF ReadSome
<1>5. CASE ReadPublish(p)
  <2>1. Advance(lh[p], len[p]) \in Index
    BY AdvanceType
  <2>2. out \o Contents(lh[p], len[p]) \in Seq(Nat)
    BY ContentsType
  <2>3. QED
    BY <1>5, <2>1, <2>2 DEF ReadPublish
<1>6. CASE PeekReturn(p)
  BY <1>6 DEF PeekReturn
<1>7. CASE LinearReadable(p)
  BY <1>7 DEF LinearReadable, Index
<1>8. CASE Consume(p)
  <2>1. Advance(head, len[p]) \in Index
    BY AdvanceType
  <2>2. out \o Contents(lh[p], len[p]) \in Seq(Nat)
    BY ContentsType
  <2>3. QED
    BY <1>8, <2>1, <2>2 DEF Consume
<1>9. CASE ConsumeThrows(p)
  BY <1>9 DEF ConsumeThrows
<1>10. QED
  BY <1>1, <1>2, <1>3, <1>4, <1>5, <1>6, <1>7, <1>8, <1>9 DEF ReadStep

LEMMA OtherStepType ==
  ASSUME RingType, NEW p \in Threads, OtherStep(p)
  PROVE  RingType'
<1> USE DEF RingType, shared, locks, history, At, Leave, Places, InClear
<1>1. ASSUME NEW n \in Lens, IncreaseLoad(p, n) PROVE RingType'
  BY <1>1 DEF IncreaseLoad
<1>2. CASE IncreaseStore(p)
  <2>1. Advance(lt[p], len[p]) \in Index
    BY AdvanceType
  <2>2. accepted + len[p] \in Nat
    OBVIOUS
  <2>3. QED
    BY <1>2, <2>1, <2>2 DEF IncreaseStore
<1>3. CASE ClearLock(p)
  BY <1>3 DEF ClearLock
<1>4. CASE ClearHead(p)
  BY <1>4 DEF ClearHead
<1>5. CASE ClearTail(p)
  BY <1>5 DEF ClearTail
<1>6. CASE SizeLoadHead(p)
  BY <1>6 DEF SizeLoadHead
<1>7. CASE SizeLoadTail(p)
  <2>1. Readable(lh[p], tail) \in Nat
    BY ReadableRange
  <2>2. QED
    BY <1>7, <2>1 DEF SizeLoadTail
<1>8. CASE SizeUsed(p)
  BY <1>8 DEF SizeUsed
<1>9. QED
  BY <1>1, <1>2, <1>3, <1>4, <1>5, <1>6, <1>7, <1>8 DEF OtherStep

LEMMA FlagStepType ==
  ASSUME FlagType, NEW p \in Threads,
         WriteStep(p) \/ ReadStep(p) \/ OtherStep(p)
  PROVE  FlagType'
<1> USE DEF FlagType, history
<1>1. CASE WriteStep(p)
  BY <1>1 DEF WriteStep, WriteCall, WriteLoadHead, WriteNoRoom, WriteHasRoom,
              WriteReload, WriteCopy, WriteAtCopy, WritePublish
<1>2. CASE ReadStep(p)
  BY <1>2 DEF ReadStep, ReadCall, ReadLoadHead, ReadNothing, ReadSome,
              ReadPublish, PeekReturn, LinearReadable, Consume, ConsumeThrows
<1>3. CASE OtherStep(p)
  BY <1>3 DEF OtherStep, IncreaseLoad, IncreaseStore, ClearLock, ClearHead,
              ClearTail, SizeLoadHead, SizeLoadTail, SizeUsed
<1>4. QED
  BY <1>1, <1>2, <1>3

(* The indices always stay inside the ring and every local of a call has   *)
(* its range: no copy starts outside buf_.                                 *)
THEOREM TypeCorrect == Spec => []TypeOK
<1>1. Init => TypeOK
  BY InitType DEF TypeOK, FlagType, Init
<1>2. TypeOK /\ [Next]_vars => TypeOK'
  <2> SUFFICES ASSUME TypeOK, [Next]_vars PROVE TypeOK'
    OBVIOUS
  <2>1. CASE UNCHANGED vars
    BY <2>1 DEF TypeOK, RingType, FlagType, vars, shared, locks, local, history
  <2>2. CASE Next
    BY <2>2, WriteStepType, ReadStepType, OtherStepType, FlagStepType
    DEF Next, TypeOK
  <2>3. QED
    BY <2>1, <2>2
<1>3. QED
  BY <1>1, <1>2, PTL DEF Spec

LEMMA WriteStepOwner ==
  ASSUME RingType, OneOwnerPerSide, NEW p \in Threads, WriteStep(p)
  PROVE  OneOwnerPerSide'
<1> USE DEF RingType, OneOwnerPerSide, HoldsRead, HoldsWrite, locks, At, Leave,
           InWrite, InRead, InClear
<1>1. ASSUME NEW n \in Lens, WriteCall(p, "tryWrite", n, 0)
      PROVE  OneOwnerPerSide'
  BY <1>1 DEF WriteCall
<1>2. ASSUME NEW n \in Lens, NEW i \in Index, WriteCall(p, "writeAt", n, i)
      PROVE  OneOwnerPerSide'
  BY <1>2 DEF WriteCall
<1>3. CASE WriteLoadHead(p)
  BY <1>3 DEF WriteLoadHead
<1>4. CASE WriteNoRoom(p)
  BY <1>4 DEF WriteNoRoom
<1>5. CASE WriteHasRoom(p)
  BY <1>5 DEF WriteHasRoom
<1>6. CASE WriteReload(p)
  BY <1>6 DEF WriteReload
<1>7. CASE WriteCopy(p)
  BY <1>7 DEF WriteCopy
<1>8. CASE WriteAtCopy(p)
  BY <1>8 DEF WriteAtCopy
<1>9. CASE WritePublish(p)
  BY <1>9 DEF WritePublish
<1>10. QED
  BY <1>1, <1>2, <1>3, <1>4, <1>5, <1>6, <1>7, <1>8, <1>9 DEF WriteStep


LEMMA ReadStepOwner ==
  ASSUME RingType, OneOwnerPerSide, NEW p \in Threads, ReadStep(p)
  PROVE  OneOwnerPerSide'
<1> USE DEF RingType, OneOwnerPerSide, HoldsRead, HoldsWrite, locks, At, Leave,
           InWrite, InRead, InClear
<1>1. ASSUME NEW n \in Lens, NEW op \in {"read", "peek"}, ReadCall(p, op, n)
      PROVE  OneOwnerPerSide'
  BY <1>1 DEF ReadCall
<1>2. CASE ReadLoadHead(p)
  BY <1>2 DEF ReadLoadHead
<1>3. CASE ReadNothing(p)
  BY <1>3 DEF ReadNothing
<1>4. CASE ReadSome(p)
  BY <1>4 DEF ReadSome
<1>5. CASE ReadPublish(p)
  BY <1>5 DEF ReadPublish
<1>6. CASE PeekReturn(p)
  BY <1>6 DEF PeekReturn
<1>7. CASE LinearReadable(p)
  BY <1>7 DEF LinearReadable
<1>8. CASE Consume(p)
  BY <1>8 DEF Consume
<1>9. CASE ConsumeThrows(p)
  BY <1>9 DEF ConsumeThrows
<1>10. QED
  BY <1>1, <1>2, <1>3, <1>4, <1>5, <1>6, <1>7, <1>8, <1>9 DEF ReadStep


LEMMA OtherStepOwner ==
  ASSUME RingType, OneOwnerPerSide, NEW p \in Threads, OtherStep(p)
  PROVE  OneOwnerPerSide'
<1> USE DEF RingType, OneOwnerPerSide, HoldsRead, HoldsWrite, locks, At, Leave,
           InWrite, InRead, InClear
<1>1. ASSUME NEW n \in Lens, IncreaseLoad(p, n)
      PROVE  OneOwnerPerSide'
  BY <1>1 DEF IncreaseLoad
<1>2. CASE IncreaseStore(p)
  BY <1>2 DEF IncreaseStore
<1>3. CASE ClearLock(p)
  BY <1>3 DEF ClearLock
<1>4. CASE ClearHead(p)
  BY <1>4 DEF ClearHead
<1>5. CASE ClearTail(p)
  BY <1>5 DEF ClearTail
<1>6. CASE SizeLoadHead(p)
  BY <1>6 DEF SizeLoadHead
<1>7. CASE SizeLoadTail(p)
  BY <1>7 DEF SizeLoadTail
<1>8. CASE SizeUsed(p)
  BY <1>8 DEF SizeUsed
<1>9. QED
  BY <1>1, <1>2, <1>3, <1>4, <1>5, <1>6, <1>7, <1>8 DEF OtherStep

(* The two mutexes do their work: a thread is inside a locked section      *)
(* exactly while it owns that section's mutex, so at most one thread is    *)
(* inside each (RingByteBuf.cpp:60, 105, 165, 184-185).                    *)
THEOREM MutualExclusion == Spec => []OneOwnerPerSide
<1>1. Init => OneOwnerPerSide
  BY DEF Init, OneOwnerPerSide, HoldsRead, HoldsWrite, InWrite, InRead, InClear
<1>2. TypeOK /\ OneOwnerPerSide /\ [Next]_vars => OneOwnerPerSide'
  <2> SUFFICES ASSUME RingType, OneOwnerPerSide, [Next]_vars
               PROVE  OneOwnerPerSide'
    BY DEF TypeOK
  <2>1. CASE UNCHANGED vars
    BY <2>1 DEF OneOwnerPerSide, HoldsRead, HoldsWrite, vars, locks, local
  <2>2. CASE Next
    BY <2>2, WriteStepOwner, ReadStepOwner, OtherStepOwner DEF Next
  <2>3. QED
    BY <2>1, <2>2
<1>3. QED
  BY <1>1, <1>2, TypeCorrect, PTL DEF Spec

-----------------------------------------------------------------------------
(* Room.  The two sides share no mutex, so what keeps them apart is        *)
(* arithmetic: what a thread computed from the indices it loaded stays     *)
(* true while the other side moves its own index.                          *)

(* How the threads may use the ring for that: nobody resets it or moves    *)
(* the write index by hand, and a thread that relies on a length it got    *)
(* under no mutex is the only one that moves the read index.               *)
FifoUse ==
  \A p \in Threads :
    /\ Role[p] \cap {"writeAt", "increase", "clear"} = {}
    /\ Role[p] \cap {"linear", "size"} # {} =>
         \A q \in Threads : q # p => Role[q] \cap {"read", "linear"} = {}

(* A thread is only in calls it makes.                                     *)
RoleAt(p) ==
  /\ pc[p] \in {"r_head", "r_tail", "r_copy"} => "read" \in Role[p]
  /\ pc[p] = "z_hold" => "linear" \in Role[p]
  /\ pc[p] \in {"s_tail", "s_got"} => "size" \in Role[p]
  /\ pc[p] \in {"a_head", "a_tail", "a_copy"} => "writeAt" \in Role[p]
  /\ pc[p] \in InClear => "clear" \in Role[p]
  /\ pc[p] = "i_store" => "increase" \in Role[p]

RoleInv == \A p \in Threads : RoleAt(p)

(* What a thread may count on at each place of its call.                   *)
RoomAt(p) ==
  /\ pc[p] = "w_tail" => Readable(head, tail) <= Readable(lh[p], tail)
  /\ pc[p] \in {"w_reload", "w_copy", "w_store"} =>
       len[p] + Readable(head, tail) <= Cap
  /\ pc[p] \in {"w_copy", "w_store"} => lt[p] = tail
  /\ pc[p] \in {"r_tail", "p_tail", "r_copy", "p_copy", "z_hold", "s_tail"} =>
       lh[p] = head
  /\ pc[p] \in {"r_copy", "p_copy", "z_hold", "s_got"} =>
       len[p] <= Readable(head, tail)

Room == \A p \in Threads : RoomAt(p)

(* Moving the read index over n readable bytes leaves the others readable. *)
LEMMA ReadMoves ==
  ASSUME NEW h \in Index, NEW t \in Index, NEW n \in 0..Readable(h, t)
  PROVE  Readable(Advance(h, n), t) = Readable(h, t) - n
<1>1. Advance(h, n) = IF h + n >= Cap THEN h + n - Cap ELSE h + n
  BY ReadableRange, AdvanceWraps
<1>2. QED
  BY <1>1, ReadableRange DEF Readable, Index

(* Moving the write index over n free bytes, not all of them, makes n more *)
(* readable; over all of them, it makes the ring look empty.               *)
LEMMA WriteMoves ==
  ASSUME NEW h \in Index, NEW t \in Index, NEW n \in 0..Writable(h, t)
  PROVE  IF n = Writable(h, t)
         THEN Advance(t, n) = h
         ELSE Readable(h, Advance(t, n)) = Readable(h, t) + n
<1>1. n \in 0..Cap
  BY ReadableRange DEF Writable
<1>2. Advance(t, n) = IF t + n >= Cap THEN t + n - Cap ELSE t + n
  BY <1>1, AdvanceWraps
<1>3. QED
  BY <1>2 DEF Readable, Writable, Index


LEMMA WriteStepRole ==
  ASSUME RingType, RoleInv, NEW p \in Threads, WriteStep(p)
  PROVE  RoleInv'
<1> USE DEF RoleInv, RoleAt, RingType, locks, At, Leave, InClear
<1>1. ASSUME NEW n \in Lens, WriteCall(p, "tryWrite", n, 0)
      PROVE  RoleInv'
  BY <1>1 DEF WriteCall
<1>2. ASSUME NEW n \in Lens, NEW i \in Index, WriteCall(p, "writeAt", n, i)
      PROVE  RoleInv'
  BY <1>2 DEF WriteCall
<1>3. CASE WriteLoadHead(p)
  BY <1>3 DEF WriteLoadHead
<1>4. CASE WriteNoRoom(p)
  BY <1>4 DEF WriteNoRoom
<1>5. CASE WriteHasRoom(p)
  BY <1>5 DEF WriteHasRoom
<1>6. CASE WriteReload(p)
  BY <1>6 DEF WriteReload
<1>7. CASE WriteCopy(p)
  BY <1>7 DEF WriteCopy
<1>8. CASE WriteAtCopy(p)
  BY <1>8 DEF WriteAtCopy
<1>9. CASE WritePublish(p)
  BY <1>9 DEF WritePublish
<1>10. QED
  BY <1>1, <1>2, <1>3, <1>4, <1>5, <1>6, <1>7, <1>8, <1>9 DEF WriteStep


LEMMA ReadStepRole ==
  ASSUME RingType, RoleInv, NEW p \in Threads, ReadStep(p)
  PROVE  RoleInv'
<1> USE DEF RoleInv, RoleAt, RingType, locks, At, Leave, InClear
<1>1. ASSUME NEW n \in Lens, NEW op \in {"read", "peek"}, ReadCall(p, op, n)
      PROVE  RoleInv'
  BY <1>1 DEF ReadCall
<1>2. CASE ReadLoadHead(p)
  BY <1>2 DEF ReadLoadHead
<1>3. CASE ReadNothing(p)
  BY <1>3 DEF ReadNothing
<1>4. CASE ReadSome(p)
  BY <1>4 DEF ReadSome
<1>5. CASE ReadPublish(p)
  BY <1>5 DEF ReadPublish
<1>6. CASE PeekReturn(p)
  BY <1>6 DEF PeekReturn
<1>7. CASE LinearReadable(p)
  BY <1>7 DEF LinearReadable
<1>8. CASE Consume(p)
  BY <1>8 DEF Consume
<1>9. CASE ConsumeThrows(p)
  BY <1>9 DEF ConsumeThrows
<1>10. QED
  BY <1>1, <1>2, <1>3, <1>4, <1>5, <1>6, <1>7, <1>8, <1>9 DEF ReadStep


LEMMA OtherStepRole ==
  ASSUME RingType, RoleInv, NEW p \in Threads, OtherStep(p)
  PROVE  RoleInv'
<1> USE DEF RoleInv, RoleAt, RingType, locks, At, Leave, InClear
<1>1. ASSUME NEW n \in Lens, IncreaseLoad(p, n)
      PROVE  RoleInv'
  BY <1>1 DEF IncreaseLoad
<1>2. CASE IncreaseStore(p)
  BY <1>2 DEF IncreaseStore
<1>3. CASE ClearLock(p)
  BY <1>3 DEF ClearLock
<1>4. CASE ClearHead(p)
  BY <1>4 DEF ClearHead
<1>5. CASE ClearTail(p)
  BY <1>5 DEF ClearTail
<1>6. CASE SizeLoadHead(p)
  BY <1>6 DEF SizeLoadHead
<1>7. CASE SizeLoadTail(p)
  BY <1>7 DEF SizeLoadTail
<1>8. CASE SizeUsed(p)
  BY <1>8 DEF SizeUsed
<1>9. QED
  BY <1>1, <1>2, <1>3, <1>4, <1>5, <1>6, <1>7, <1>8 DEF OtherStep

(* No step of one thread takes away what another counts on, unless it is   *)
(* the write that makes the ring brimful.                                  *)
LEMMA WriteStepRoom ==
  ASSUME RingType, OneOwnerPerSide, FifoUse, RoleInv, Room, ~filled',
         NEW p \in Threads, WriteStep(p), NEW q \in Threads
  PROVE  RoomAt(q)'
<1> USE DEF RingType, Room, RoomAt, shared, locks, history, At, Leave
<1>a. Readable(head, tail) \in 0..(Cap - 1)
  BY ReadableRange
<1>b. Readable(lh[p], tail) \in 0..(Cap - 1)
      /\ Readable(lh[q], tail) \in 0..(Cap - 1)
  BY ReadableRange
<1>1. ASSUME NEW n \in Lens, WriteCall(p, "tryWrite", n, 0)
      PROVE  RoomAt(q)'
  BY <1>1 DEF WriteCall
<1>2. ASSUME NEW n \in Lens, NEW i \in Index, WriteCall(p, "writeAt", n, i)
      PROVE  RoomAt(q)'
  BY <1>2 DEF WriteCall
<1>3. CASE WriteLoadHead(p)
  BY <1>3, <1>a DEF WriteLoadHead
<1>4. CASE WriteNoRoom(p)
  BY <1>4, <1>a DEF WriteNoRoom
<1>5. CASE WriteHasRoom(p)
  <2>1. CASE q # p
    BY <1>5, <2>1 DEF WriteHasRoom
  <2>2. CASE q = p /\ At(p, "w_tail", "w_reload")
    <3>1. len[p] + Readable(head, tail) <= Cap
      BY <1>5, <2>2, <1>a, <1>b DEF WriteHasRoom, Writable
    <3>2. QED
      BY <1>5, <2>2, <3>1 DEF WriteHasRoom
  <2>3. CASE q = p /\ At(p, "a_tail", "a_copy")
    BY <1>5, <2>3 DEF WriteHasRoom
  <2>4. QED
    BY <1>5, <2>1, <2>2, <2>3 DEF WriteHasRoom
<1>6. CASE WriteReload(p)
  BY <1>6, <1>a DEF WriteReload
<1>7. CASE WriteCopy(p)
  BY <1>7, <1>a DEF WriteCopy
<1>8. CASE WriteAtCopy(p)
  BY <1>8, <1>a DEF WriteAtCopy
<1>9. CASE WritePublish(p)
  <2>1. len[p] \in 0..Writable(head, tail) /\ lt[p] = tail
    BY <1>9, <1>a DEF WritePublish, Writable
  <2>2. tail' = Advance(tail, len[p]) /\ head' = head
    BY <1>9, <2>1 DEF WritePublish
  <2>3. tail' # head
    BY <1>9 DEF WritePublish
  <2>4. Readable(head, tail') = Readable(head, tail) + len[p]
    BY <2>1, <2>2, <2>3, WriteMoves
  <2>5. CASE q = p
    BY <1>9, <2>5 DEF WritePublish
  <2>6. CASE q # p
    <3>1. pc[q] \notin InWrite
      BY <1>9, <2>6 DEF WritePublish, OneOwnerPerSide, HoldsWrite, InWrite
    <3>2. Readable(head, tail) <= Readable(head', tail')
      BY <1>a, <2>1, <2>2, <2>4
    <3>3. len[q] \in Nat /\ Readable(head, tail) \in Nat
          /\ Readable(head', tail') \in Nat
      BY <1>a, <2>1, <2>2, <2>4
    <3>4. QED
      BY <1>9, <2>2, <2>6, <3>1, <3>2, <3>3 DEF WritePublish, InWrite
  <2>7. QED
    BY <2>5, <2>6
<1>10. QED
  BY <1>1, <1>2, <1>3, <1>4, <1>5, <1>6, <1>7, <1>8, <1>9 DEF WriteStep

LEMMA ReadStepRoom ==
  ASSUME RingType, OneOwnerPerSide, FifoUse, RoleInv, Room, ~filled',
         NEW p \in Threads, ReadStep(p), NEW q \in Threads
  PROVE  RoomAt(q)'
<1> USE DEF RingType, Room, RoomAt, shared, locks, history, At, Leave
<1>a. Readable(head, tail) \in 0..(Cap - 1)
  BY ReadableRange
<1>b. Readable(lh[p], tail) \in 0..(Cap - 1)
      /\ Readable(lh[q], tail) \in 0..(Cap - 1)
  BY ReadableRange
<1>1. ASSUME NEW n \in Lens, NEW op \in {"read", "peek"}, ReadCall(p, op, n)
      PROVE  RoomAt(q)'
  BY <1>1 DEF ReadCall
<1>2. CASE ReadLoadHead(p)
  BY <1>2, <1>a DEF ReadLoadHead
<1>3. CASE ReadNothing(p)
  BY <1>3, <1>a DEF ReadNothing
<1>4. CASE ReadSome(p)
  BY <1>4, <1>a, <1>b DEF ReadSome, Writable
<1>5. CASE ReadPublish(p)
  <2>1. lh[p] = head /\ len[p] \in 0..Readable(head, tail)
    BY <1>5, <1>a DEF ReadPublish
  <2>2. head' = Advance(head, len[p]) /\ tail' = tail
    BY <1>5, <2>1 DEF ReadPublish
  <2>3. Readable(head', tail') = Readable(head, tail) - len[p]
    BY <2>1, <2>2, ReadMoves
  <2>4. CASE q = p
    BY <1>5, <2>4 DEF ReadPublish
  <2>5. CASE q # p
    <3>1. pc[q] \notin {"r_tail", "p_tail", "r_copy", "p_copy"}
      BY <1>5, <2>5 DEF ReadPublish, OneOwnerPerSide, HoldsRead, InRead
    <3>2. "read" \in Role[p]
      BY <1>5 DEF ReadPublish, RoleInv, RoleAt
    <3>3. pc[q] \notin {"z_hold", "s_tail", "s_got"}
      BY <2>5, <3>2 DEF RoleInv, RoleAt, FifoUse
    <3>4. Readable(head', tail') <= Readable(head, tail)
      BY <1>a, <1>b, <2>1, <2>3
    <3>5. /\ Readable(head, tail) \in Nat /\ Readable(head', tail') \in Nat
          /\ Readable(lh[q], tail) \in Nat
      BY <1>a, <1>b, <2>1, <2>3, SMTT(20)
    <3>6. QED
      BY <1>5, <2>2, <2>5, <3>1, <3>3, <3>4, <3>5 DEF ReadPublish
  <2>6. QED
    BY <2>4, <2>5
<1>6. CASE PeekReturn(p)
  BY <1>6, <1>a DEF PeekReturn
<1>7. CASE LinearReadable(p)
  <2>1. len'[p] <= Readable(head, tail)
    BY <1>7, <1>a DEF LinearReadable, Readable, Index
  <2>2. QED
    BY <1>7, <2>1 DEF LinearReadable
<1>8. CASE Consume(p)
  <2>1. len[p] \in 0..Readable(head, tail)
    BY <1>8, <1>a DEF Consume
  <2>2. head' = Advance(head, len[p]) /\ tail' = tail
    BY <1>8, <2>1 DEF Consume
  <2>3. Readable(head', tail') = Readable(head, tail) - len[p]
    BY <2>1, <2>2, ReadMoves
  <2>4. CASE q = p
    BY <1>8, <2>4 DEF Consume
  <2>5. CASE q # p
    <3>1. pc[q] \notin {"r_tail", "p_tail", "r_copy", "p_copy"}
      BY <1>8, <2>5 DEF Consume, OneOwnerPerSide, HoldsRead, InRead
    <3>2. "linear" \in Role[p]
      BY <1>8 DEF Consume, RoleInv, RoleAt
    <3>3. pc[q] \notin {"z_hold", "s_tail", "s_got"}
      BY <2>5, <3>2 DEF RoleInv, RoleAt, FifoUse
    <3>4. Readable(head', tail') <= Readable(head, tail)
      BY <1>a, <1>b, <2>1, <2>3
    <3>5. /\ Readable(head, tail) \in Nat /\ Readable(head', tail') \in Nat
          /\ Readable(lh[q], tail) \in Nat
      BY <1>a, <1>b, <2>1, <2>3, SMTT(20)
    <3>6. QED
      BY <1>8, <2>2, <2>5, <3>1, <3>3, <3>4, <3>5 DEF Consume
  <2>6. QED
    BY <2>4, <2>5
<1>9. CASE ConsumeThrows(p)
  BY <1>9, <1>a, <1>b DEF ConsumeThrows, Writable
<1>10. QED
  BY <1>1, <1>2, <1>3, <1>4, <1>5, <1>6, <1>7, <1>8, <1>9 DEF ReadStep

LEMMA OtherStepRoom ==
  ASSUME RingType, OneOwnerPerSide, FifoUse, RoleInv, Room, ~filled',
         NEW p \in Threads, OtherStep(p), NEW q \in Threads
  PROVE  RoomAt(q)'
<1> USE DEF RingType, Room, RoomAt, shared, locks, history, At, Leave
<1>a. Readable(head, tail) \in 0..(Cap - 1)
  BY ReadableRange
<1>b. Readable(lh[p], tail) \in 0..(Cap - 1)
      /\ Readable(lh[q], tail) \in 0..(Cap - 1)
  BY ReadableRange
<1>1. ASSUME NEW n \in Lens, IncreaseLoad(p, n)
      PROVE  RoomAt(q)'
  BY <1>1 DEF IncreaseLoad
<1>2. CASE IncreaseStore(p)
  BY <1>2 DEF IncreaseStore, RoleInv, RoleAt, FifoUse, InClear
<1>3. CASE ClearLock(p)
  BY <1>3, <1>a DEF ClearLock
<1>4. CASE ClearHead(p)
  BY <1>4 DEF ClearHead, RoleInv, RoleAt, FifoUse, InClear
<1>5. CASE ClearTail(p)
  BY <1>5 DEF ClearTail, RoleInv, RoleAt, FifoUse, InClear
<1>6. CASE SizeLoadHead(p)
  BY <1>6, <1>a, <1>b DEF SizeLoadHead, Writable
<1>7. CASE SizeLoadTail(p)
  BY <1>7, <1>a, <1>b DEF SizeLoadTail, Writable
<1>8. CASE SizeUsed(p)
  BY <1>8, <1>a DEF SizeUsed
<1>9. QED
  BY <1>1, <1>2, <1>3, <1>4, <1>5, <1>6, <1>7, <1>8 DEF OtherStep

(* A consume whose length is still readable does not throw.                *)
LEMMA StepThrew ==
  ASSUME RingType, Room, ~threw, NEW p \in Threads,
         WriteStep(p) \/ ReadStep(p) \/ OtherStep(p)
  PROVE  ~threw'
<1> USE DEF history
<1>1. ~ConsumeThrows(p)
  <2>1. Readable(head, tail) \in Nat /\ len[p] \in Nat
    BY ReadableRange DEF RingType
  <2>2. QED
    BY <2>1 DEF ConsumeThrows, Leave, At, Room, RoomAt
<1>2. CASE WriteStep(p)
  BY <1>2 DEF WriteStep, WriteCall, WriteLoadHead, WriteNoRoom, WriteHasRoom,
              WriteReload, WriteCopy, WriteAtCopy, WritePublish
<1>3. CASE ReadStep(p)
  BY <1>1, <1>3 DEF ReadStep, ReadCall, ReadLoadHead, ReadNothing, ReadSome,
              ReadPublish, PeekReturn, LinearReadable, Consume
<1>4. CASE OtherStep(p)
  BY <1>4 DEF OtherStep, IncreaseLoad, IncreaseStore, ClearLock, ClearHead,
              ClearTail, SizeLoadHead, SizeLoadTail, SizeUsed
<1>5. QED
  BY <1>2, <1>3, <1>4

(* Nothing makes a ring that was brimful forget it.                        *)
LEMMA FilledStays ==
  ASSUME FlagType, NEW p \in Threads,
         WriteStep(p) \/ ReadStep(p) \/ OtherStep(p), ~filled'
  PROVE  ~filled
<1> USE DEF FlagType, history
<1>1. CASE WriteStep(p)
  BY <1>1 DEF WriteStep, WriteCall, WriteLoadHead, WriteNoRoom, WriteHasRoom,
              WriteReload, WriteCopy, WriteAtCopy, WritePublish
<1>2. CASE ReadStep(p)
  BY <1>2 DEF ReadStep, ReadCall, ReadLoadHead, ReadNothing, ReadSome,
              ReadPublish, PeekReturn, LinearReadable, Consume, ConsumeThrows
<1>3. CASE OtherStep(p)
  BY <1>3 DEF OtherStep, IncreaseLoad, IncreaseStore, ClearLock, ClearHead,
              ClearTail, SizeLoadHead, SizeLoadTail, SizeUsed
<1>4. QED
  BY <1>1, <1>2, <1>3

(* The inductive invariant of a ring used as a FIFO.                       *)
RoomInv == ~filled => Room /\ ~threw

IInv == TypeOK /\ OneOwnerPerSide /\ RoleInv /\ RoomInv

(* The inductive invariant holds in every execution of a ring with FIFO    *)
(* roles (RingByteBuf.cpp:59-123, 163-171).                                *)
THEOREM RoomInvariant ==
  ASSUME FifoUse
  PROVE  Spec => []IInv
<1>1. Init => RoleInv /\ RoomInv
  BY DEF Init, RoleInv, RoleAt, RoomInv, Room, RoomAt, InClear
<1>2. TypeOK /\ OneOwnerPerSide /\ RoleInv /\ RoomInv /\ [Next]_vars
        => RoleInv' /\ RoomInv'
  <2> SUFFICES ASSUME TypeOK, OneOwnerPerSide, RoleInv, RoomInv, [Next]_vars
               PROVE  RoleInv' /\ RoomInv'
    OBVIOUS
  <2>1. CASE UNCHANGED vars
    BY <2>1 DEF vars, shared, locks, local, history, RoleInv, RoleAt,
                RoomInv, Room, RoomAt
  <2>2. ASSUME NEW p \in Threads, WriteStep(p) \/ ReadStep(p) \/ OtherStep(p)
        PROVE  RoleInv' /\ RoomInv'
    <3>1. RoleInv'
      BY <2>2, WriteStepRole, ReadStepRole, OtherStepRole DEF TypeOK
    <3>2. ASSUME ~filled' PROVE Room' /\ ~threw'
      <4>1. Room /\ ~threw
        BY <2>2, <3>2, FilledStays DEF TypeOK, RoomInv
      <4>2. \A q \in Threads : RoomAt(q)'
        BY <2>2, <3>2, <4>1, WriteStepRoom, ReadStepRoom, OtherStepRoom,
           FifoUse DEF TypeOK
      <4>3. ~threw'
        BY <2>2, <4>1, StepThrew DEF TypeOK
      <4>4. QED
        BY <4>2, <4>3 DEF Room
    <3>3. QED
      BY <3>1, <3>2 DEF RoomInv
  <2>3. QED
    BY <2>1, <2>2 DEF Next
<1>3. QED
  BY <1>1, <1>2, TypeCorrect, MutualExclusion, PTL DEF Spec, IInv

(* The slots of the readable bytes and the free slots after tail_ do not   *)
(* meet.                                                                   *)
LEMMA RegionsApart ==
  ASSUME NEW h \in Index, NEW t \in Index, NEW n \in Nat, NEW m \in Nat,
         n <= Readable(h, t), m + Readable(h, t) <= Cap
  PROVE  Region(h, n) \cap Region(t, m) = {}
<1>1. SUFFICES ASSUME NEW j \in 0..(n - 1), NEW k \in 0..(m - 1),
                      Advance(h, j) = Advance(t, k)
               PROVE  FALSE
  BY DEF Region
<1>2. Readable(h, t) \in 0..(Cap - 1)
  BY ReadableRange
<1>3. j \in 0..Cap /\ k \in 0..Cap
  BY <1>2
<1>4. /\ Advance(h, j) = IF h + j >= Cap THEN h + j - Cap ELSE h + j
      /\ Advance(t, k) = IF t + k >= Cap THEN t + k - Cap ELSE t + k
  BY <1>3, AdvanceWraps
<1>5. PICK d \in 0..(Cap - 1) :
        /\ t = IF h + d >= Cap THEN h + d - Cap ELSE h + d
        /\ j < d /\ k < Cap - d
  <2>1. t = IF h + Readable(h, t) >= Cap THEN h + Readable(h, t) - Cap
            ELSE h + Readable(h, t)
    BY DEF Readable, Index
  <2>2. j < Readable(h, t) /\ k < Cap - Readable(h, t)
    BY <1>2
  <2>3. QED
    BY <1>2, <2>1, <2>2
<1>6. /\ h \in Nat /\ h < Cap /\ Cap \in Nat /\ j \in Nat /\ k \in Nat
      /\ d \in Nat /\ d < Cap
  BY DEF Index
<1>7. CASE h + d >= Cap
  <2>1. t = h + d - Cap /\ t + k < Cap
    BY <1>5, <1>6, <1>7
  <2>2. Advance(t, k) = h + d - Cap + k
    BY <1>4, <1>6, <2>1
  <2>3. Advance(h, j) = h + j \/ Advance(h, j) = h + j - Cap
    BY <1>4
  <2>4. h + j # h + d - Cap + k /\ h + j - Cap # h + d - Cap + k
    BY <1>5, <1>6
  <2>5. QED
    BY <1>1, <2>2, <2>3, <2>4
<1>8. CASE h + d < Cap
  <2>1. t = h + d
    BY <1>5, <1>6, <1>8
  <2>2. Advance(h, j) = h + j
    <3>1. h + j < Cap
      BY <1>5, <1>6, <1>8
    <3>2. QED
      BY <1>4, <1>6, <3>1
  <2>3. Advance(t, k) = h + d + k \/ Advance(t, k) = h + d + k - Cap
    BY <1>4, <1>6, <2>1
  <2>4. h + j # h + d + k /\ h + j # h + d + k - Cap
    BY <1>5, <1>6
  <2>5. QED
    BY <1>1, <2>2, <2>3, <2>4
<1>9. QED
  BY <1>6, <1>7, <1>8

(* For every capacity and every number of threads: until a write uses the  *)
(* last free byte, no copy into the ring touches a slot that another       *)
(* thread is reading, though the two sides share no mutex                  *)
(* (RingByteBuf.cpp:62-79, 105-121, 146-161).                              *)
THEOREM CopiesApart ==
  ASSUME FifoUse
  PROVE  Spec => []ReadersAndWritersApart
<1>1. IInv => ReadersAndWritersApart
  <2> SUFFICES ASSUME IInv, ~filled, NEW p \in Threads, NEW q \in Threads
               PROVE  Reading(p) \cap Writing(q) = {}
    BY DEF ReadersAndWritersApart
  <2>1. RingType /\ RoomAt(p) /\ RoomAt(q) /\ RoleAt(q)
    BY DEF IInv, TypeOK, RoomInv, Room, RoleInv
  <2>2. pc[q] # "a_copy"
    BY <2>1, FifoUse DEF RoleAt, FifoUse
  <2>3. CASE pc[p] \in {"r_copy", "p_copy", "z_hold"} /\ pc[q] = "w_copy"
    <3>1. /\ lh[p] = head /\ len[p] <= Readable(head, tail)
          /\ lt[q] = tail /\ len[q] + Readable(head, tail) <= Cap
      BY <2>1, <2>3 DEF RoomAt
    <3>2. Region(head, len[p]) \cap Region(tail, len[q]) = {}
      BY <2>1, <3>1, RegionsApart DEF RingType
    <3>3. QED
      BY <2>3, <3>1, <3>2 DEF Reading, Writing
  <2>4. CASE ~(pc[p] \in {"r_copy", "p_copy", "z_hold"} /\ pc[q] = "w_copy")
    BY <2>2, <2>4 DEF Reading, Writing
  <2>5. QED
    BY <2>3, <2>4
<1>2. QED
  BY <1>1, RoomInvariant, FifoUse, PTL

(* The number of readable bytes that the only reading thread got under no  *)
(* mutex is still there when it uses it: getNextPackLen may peek           *)
(* (ByteBuffer.cpp:22-33, Channel.cpp:62-67).                              *)
THEOREM LengthsHold ==
  ASSUME FifoUse
  PROVE  Spec => []SizeIsSafe
<1>1. IInv => SizeIsSafe
  BY DEF IInv, RoomInv, Room, RoomAt, SizeIsSafe
<1>2. QED
  BY <1>1, RoomInvariant, FifoUse, PTL

(* The chunk linearReadablePtr returned to the only reading thread is      *)
(* still readable when it is consumed, however the writer moved in         *)
(* between: consume does not throw (RingByteBuf.h:77-83).                  *)
THEOREM ConsumeIsSafe ==
  ASSUME FifoUse
  PROVE  Spec => []ConsumeNeverThrows
<1>1. IInv => ConsumeNeverThrows
  BY DEF IInv, RoomInv, Room, RoomAt, ConsumeNeverThrows
<1>2. QED
  BY <1>1, RoomInvariant, FifoUse, PTL
=============================================================================
