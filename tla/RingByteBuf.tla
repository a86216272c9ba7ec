----------------------------- MODULE RingByteBuf -----------------------------
(***************************************************************************)
(* engine/common/RingByteBuf: a byte ring of fixed capacity with an atomic *)
(* read index, an atomic write index, and one mutex per side.              *)
(*                                                                         *)
(* Every thread makes the calls its entry of Role allows.  A call is split *)
(* at the accesses another thread can interleave with: taking a mutex,     *)
(* each load and store of head_ and tail_, and the copy.  Waiting for a    *)
(* mutex before the first step of a call is the same as not having called  *)
(* yet, so a call starts by taking its mutex.  A byte is the number of     *)
(* bytes accepted up to and including it, which makes every byte distinct. *)
(***************************************************************************)
EXTENDS Naturals, Sequences

CONSTANTS
  Cap,       \* cap_, the capacity given to the constructor
  Threads,   \* the threads that share the ring
  Role,      \* Role[p]: the operations thread p calls
  Lens,      \* the lengths callers pass (0 returns at once everywhere)
  NoOne,     \* the owner of a free mutex
  MaxBytes   \* bound: bytes accepted in a behaviour

Operations == {"tryWrite", "writeAt", "read", "peek", "linear",
               "clear", "increase", "size"}

ASSUME RingAssumption ==
  /\ Cap \in Nat \ {0}
  /\ Lens \subseteq Nat \ {0}
  /\ Role \in [Threads -> SUBSET Operations]
  /\ NoOne \notin Threads
  /\ MaxBytes \in Nat

VARIABLES
  buf,        \* buf_: the stored bytes
  head,       \* head_: the read index
  tail,       \* tail_: the write index
  readMtx,    \* owner of read_mtx_
  writeMtx,   \* owner of write_mtx_
  pc,         \* where each thread is in its call
  len,        \* the length argument, then the length agreed on
  lh,         \* the thread's copy of head_
  lt,         \* the thread's copy of tail_, or the write_index argument
  accepted,   \* history: bytes accepted by tryWrite
  out,        \* history: bytes handed out by read and consume, in order
  filled,     \* history: some write used the last free byte
  threw       \* history: some consume threw out_of_range

shared  == <<buf, head, tail>>
locks   == <<readMtx, writeMtx>>
local   == <<pc, len, lh, lt>>
history == <<accepted, out, filled, threw>>
vars    == <<shared, locks, local, history>>

Index == 0..(Cap - 1)

\* readableBytes() of the two indices it loaded.
Readable(h, t) == IF t >= h THEN t - h ELSE Cap - h + t

\* Mutant: writableBytes() off by one.
WritableOneMore(h, t) == Cap - Readable(h, t) + 1

\* writableBytes() is computed from it.
Writable(h, t) == Cap - Readable(h, t)

\* Mutant: no wrap.
AdvanceNoWrap(i, n) == i + n

\* (index + n) % cap_
Advance(i, n) == (i + n) % Cap

\* The slots one or two memcpy calls touch: n bytes from slot i, wrapping.
Region(i, n) == {Advance(i, k) : k \in 0..(n - 1)}

\* The bytes a copy out of the ring yields.
Contents(i, n) == [k \in 1..n |-> buf[Advance(i, k - 1)]]

\* The bytes a copy of the next n accepted bytes leaves in the ring.
Filled(i, n) ==
  [s \in Index |->
     IF s \in Region(i, n)
     THEN accepted + 1 + (IF s >= i THEN s - i ELSE s + Cap - i)
     ELSE buf[s]]

At(p, from, to) == pc[p] = from /\ pc' = [pc EXCEPT ![p] = to]

\* The call returns: its locals are gone.
Leave(p, from) ==
  /\ At(p, from, "idle")
  /\ len' = [len EXCEPT ![p] = 0]
  /\ lh' = [lh EXCEPT ![p] = 0]
  /\ lt' = [lt EXCEPT ![p] = 0]

Init ==
  /\ buf = [s \in Index |-> 0]
  /\ head = 0 /\ tail = 0
  /\ readMtx = NoOne /\ writeMtx = NoOne
  /\ pc = [p \in Threads |-> "idle"]
  /\ len = [p \in Threads |-> 0]
  /\ lh = [p \in Threads |-> 0]
  /\ lt = [p \in Threads |-> 0]
  /\ accepted = 0 /\ out = <<>> /\ filled = FALSE /\ threw = FALSE

-----------------------------------------------------------------------------
(* tryWrite(src, len), and write(write_index, src, len) which stores no    *)
(* index.  Both test the free space first.                                 *)

\* Mutant: the call does not take write_mtx_ into account.
WriteCallUnlocked(p, op, n, i) ==
  /\ op \in Role[p]
  /\ accepted + n <= MaxBytes
  /\ At(p, "idle", IF op = "tryWrite" THEN "w_head" ELSE "a_head")
  /\ len' = [len EXCEPT ![p] = n]
  /\ lt' = [lt EXCEPT ![p] = i]
  /\ UNCHANGED <<shared, locks, lh, history>>

WriteCall(p, op, n, i) ==
  /\ op \in Role[p]
  /\ accepted + n <= MaxBytes
  /\ writeMtx = NoOne
  /\ At(p, "idle", IF op = "tryWrite" THEN "w_head" ELSE "a_head")
  /\ writeMtx' = p
  /\ len' = [len EXCEPT ![p] = n]
  /\ lt' = [lt EXCEPT ![p] = i]
  /\ UNCHANGED <<shared, readMtx, lh, history>>

\* writableBytes() loads head_ ...
WriteLoadHead(p) ==
  /\ \/ At(p, "w_head", "w_tail")
     \/ At(p, "a_head", "a_tail")
  /\ lh' = [lh EXCEPT ![p] = head]
  /\ UNCHANGED <<shared, locks, len, lt, history>>

\* ... then tail_; with too little room the call returns false.
WriteNoRoom(p) ==
  /\ len[p] > Writable(lh[p], tail)
  /\ Leave(p, "w_tail") \/ Leave(p, "a_tail")
  /\ writeMtx' = NoOne
  /\ UNCHANGED <<shared, readMtx, history>>

\* Mutant: no test of the room.
WriteUntested(p) ==
  /\ At(p, "w_tail", "w_reload") \/ At(p, "a_tail", "a_copy")
  /\ UNCHANGED <<shared, locks, len, lh, lt, history>>

WriteHasRoom(p) ==
  /\ len[p] <= Writable(lh[p], tail)
  /\ At(p, "w_tail", "w_reload") \/ At(p, "a_tail", "a_copy")
  /\ UNCHANGED <<shared, locks, len, lh, lt, history>>

\* tryWrite loads tail_ a second time, and copies to the slots from there.
WriteReload(p) ==
  /\ At(p, "w_reload", "w_copy")
  /\ lt' = [lt EXCEPT ![p] = tail]
  /\ UNCHANGED <<shared, locks, len, lh, history>>

WriteCopy(p) ==
  /\ At(p, "w_copy", "w_store")
  /\ buf' = Filled(lt[p], len[p])
  /\ UNCHANGED <<head, tail, locks, len, lh, lt, history>>

\* write(write_index, ...) returns after the copy.
WriteAtCopy(p) ==
  /\ Leave(p, "a_copy")
  /\ buf' = Filled(lt[p], len[p])
  /\ writeMtx' = NoOne
  /\ UNCHANGED <<head, tail, readMtx, history>>

\* The store of tail_ publishes the bytes; the mutex is then released.
WritePublish(p) ==
  /\ Leave(p, "w_store")
  /\ tail' = Advance(lt[p], len[p])
  /\ writeMtx' = NoOne
  /\ accepted' = accepted + len[p]
  /\ filled' = (filled \/ tail' = head)
  /\ UNCHANGED <<buf, head, readMtx, out, threw>>

-----------------------------------------------------------------------------
(* read(dst, len), and peek(dst, len) which leaves head_ alone.            *)

ReadCall(p, op, n) ==
  /\ op \in Role[p]
  /\ readMtx = NoOne
  /\ At(p, "idle", IF op = "read" THEN "r_head" ELSE "p_head")
  /\ readMtx' = p
  /\ len' = [len EXCEPT ![p] = n]
  /\ UNCHANGED <<shared, writeMtx, lh, lt, history>>

ReadLoadHead(p) ==
  /\ \/ At(p, "r_head", "r_tail")
     \/ At(p, "p_head", "p_tail")
  /\ lh' = [lh EXCEPT ![p] = head]
  /\ UNCHANGED <<shared, locks, len, lt, history>>

ReadNothing(p) ==
  /\ Readable(lh[p], tail) = 0
  /\ Leave(p, "r_tail") \/ Leave(p, "p_tail")
  /\ readMtx' = NoOne
  /\ UNCHANGED <<shared, writeMtx, history>>

\* Mutant: the caller's length, whatever is there.
ReadAllAsked(p) ==
  /\ Readable(lh[p], tail) # 0
  /\ At(p, "r_tail", "r_copy") \/ At(p, "p_tail", "p_copy")
  /\ UNCHANGED <<shared, locks, len, lh, lt, history>>

\* toread = min(len, avail)
ReadSome(p) ==
  LET avail == Readable(lh[p], tail) IN
  /\ avail # 0
  /\ At(p, "r_tail", "r_copy") \/ At(p, "p_tail", "p_copy")
  /\ len' = [len EXCEPT ![p] = IF @ <= avail THEN @ ELSE avail]
  /\ UNCHANGED <<shared, locks, lh, lt, history>>

\* Mutant: head_ is not stored.
ReadForgets(p) ==
  /\ Leave(p, "r_copy")
  /\ out' = out \o Contents(lh[p], len[p])
  /\ readMtx' = NoOne
  /\ UNCHANGED <<shared, writeMtx, accepted, filled, threw>>

ReadPublish(p) ==
  /\ Leave(p, "r_copy")
  /\ out' = out \o Contents(lh[p], len[p])
  /\ head' = Advance(lh[p], len[p])
  /\ readMtx' = NoOne
  /\ UNCHANGED <<buf, tail, writeMtx, accepted, filled, threw>>

PeekReturn(p) ==
  /\ Leave(p, "p_copy")
  /\ readMtx' = NoOne
  /\ UNCHANGED <<shared, writeMtx, history>>

-----------------------------------------------------------------------------
(* The zero-copy pair.  linearReadablePtr returns the first contiguous     *)
(* chunk and releases read_mtx_: from there to the consume of that length  *)
(* the caller uses the chunk under no mutex.  head_ is stable under        *)
(* read_mtx_, so the one load of tail_ is all each call can interleave at. *)

\* Mutant: the chunk always runs to the end of the memory.
LinearToEnd(p) ==
  /\ "linear" \in Role[p]
  /\ readMtx = NoOne
  /\ head # tail
  /\ At(p, "idle", "z_hold")
  /\ lh' = [lh EXCEPT ![p] = head]
  /\ len' = [len EXCEPT ![p] = Cap - head]
  /\ UNCHANGED <<shared, locks, lt, history>>

LinearReadable(p) ==
  /\ "linear" \in Role[p]
  /\ readMtx = NoOne
  /\ head # tail
  /\ At(p, "idle", "z_hold")
  /\ lh' = [lh EXCEPT ![p] = head]
  /\ len' = [len EXCEPT ![p] = IF tail > head THEN tail - head ELSE Cap - head]
  /\ UNCHANGED <<shared, locks, lt, history>>

Consume(p) ==
  /\ readMtx = NoOne
  /\ len[p] <= Readable(head, tail)
  /\ Leave(p, "z_hold")
  /\ out' = out \o Contents(lh[p], len[p])
  /\ head' = Advance(head, len[p])
  /\ UNCHANGED <<buf, tail, locks, accepted, filled, threw>>

ConsumeThrows(p) ==
  /\ readMtx = NoOne
  /\ len[p] > Readable(head, tail)
  /\ Leave(p, "z_hold")
  /\ threw' = TRUE
  /\ UNCHANGED <<shared, locks, accepted, out, filled>>

-----------------------------------------------------------------------------
(* increase(n) moves tail_ under read_mtx_, with a load and a store and no *)
(* test of the room: the n bytes after tail_ become readable as they are.  *)

IncreaseLoad(p, n) ==
  /\ "increase" \in Role[p]
  /\ accepted + n <= MaxBytes
  /\ readMtx = NoOne
  /\ At(p, "idle", "i_store")
  /\ readMtx' = p
  /\ len' = [len EXCEPT ![p] = n]
  /\ lt' = [lt EXCEPT ![p] = tail]
  /\ UNCHANGED <<shared, writeMtx, lh, history>>

IncreaseStore(p) ==
  /\ Leave(p, "i_store")
  /\ tail' = Advance(lt[p], len[p])
  /\ readMtx' = NoOne
  /\ accepted' = accepted + len[p]
  /\ filled' = (filled \/ len[p] >= Writable(head, lt[p]))
  /\ UNCHANGED <<buf, head, writeMtx, out, threw>>

\* clear() takes read_mtx_, then write_mtx_, then stores both indices.
ClearLock(p) ==
  /\ "clear" \in Role[p]
  /\ readMtx = NoOne
  /\ At(p, "idle", "c_lock")
  /\ readMtx' = p
  /\ UNCHANGED <<shared, writeMtx, len, lh, lt, history>>

\* Mutant: clear() does not wait for write_mtx_.
ClearHeadAtOnce(p) ==
  /\ At(p, "c_lock", "c_tail")
  /\ writeMtx' = p
  /\ head' = 0
  /\ UNCHANGED <<buf, tail, readMtx, len, lh, lt, history>>

ClearHead(p) ==
  /\ writeMtx = NoOne
  /\ At(p, "c_lock", "c_tail")
  /\ writeMtx' = p
  /\ head' = 0
  /\ UNCHANGED <<buf, tail, readMtx, len, lh, lt, history>>

ClearTail(p) ==
  /\ Leave(p, "c_tail")
  /\ tail' = 0
  /\ readMtx' = NoOne
  /\ writeMtx' = NoOne
  /\ UNCHANGED <<buf, head, history>>

-----------------------------------------------------------------------------
(* readableBytes() called under no mutex, as getNextPackLen does; the      *)
(* caller then acts on the number it got.                                  *)

SizeLoadHead(p) ==
  /\ "size" \in Role[p]
  /\ At(p, "idle", "s_tail")
  /\ lh' = [lh EXCEPT ![p] = head]
  /\ UNCHANGED <<shared, locks, len, lt, history>>

\* Mutant: the free bytes, not the readable ones.
SizeOfRoom(p) ==
  /\ At(p, "s_tail", "s_got")
  /\ len' = [len EXCEPT ![p] = Writable(lh[p], tail)]
  /\ UNCHANGED <<shared, locks, lh, lt, history>>

SizeLoadTail(p) ==
  /\ At(p, "s_tail", "s_got")
  /\ len' = [len EXCEPT ![p] = Readable(lh[p], tail)]
  /\ UNCHANGED <<shared, locks, lh, lt, history>>

SizeUsed(p) ==
  /\ Leave(p, "s_got")
  /\ UNCHANGED <<shared, locks, history>>

-----------------------------------------------------------------------------
WriteStep(p) ==
  \/ \E n \in Lens : WriteCall(p, "tryWrite", n, 0)
  \/ \E n \in Lens, i \in Index : WriteCall(p, "writeAt", n, i)
  \/ WriteLoadHead(p) \/ WriteNoRoom(p) \/ WriteHasRoom(p)
  \/ WriteReload(p) \/ WriteCopy(p) \/ WriteAtCopy(p) \/ WritePublish(p)

ReadStep(p) ==
  \/ \E n \in Lens, op \in {"read", "peek"} : ReadCall(p, op, n)
  \/ ReadLoadHead(p) \/ ReadNothing(p) \/ ReadSome(p)
  \/ ReadPublish(p) \/ PeekReturn(p)
  \/ LinearReadable(p) \/ Consume(p) \/ ConsumeThrows(p)

OtherStep(p) ==
  \/ \E n \in Lens : IncreaseLoad(p, n)
  \/ IncreaseStore(p)
  \/ ClearLock(p) \/ ClearHead(p) \/ ClearTail(p)
  \/ SizeLoadHead(p) \/ SizeLoadTail(p) \/ SizeUsed(p)

Next == \E p \in Threads : WriteStep(p) \/ ReadStep(p) \/ OtherStep(p)

Spec == Init /\ [][Next]_vars

-----------------------------------------------------------------------------
(* Where a thread holds which mutex, and what it is touching.              *)

InWrite  == {"w_head", "w_tail", "w_reload", "w_copy", "w_store",
             "a_head", "a_tail", "a_copy"}
InRead   == {"r_head", "r_tail", "r_copy", "p_head", "p_tail", "p_copy"}
InClear  == {"c_lock", "c_tail"}
Places   == InWrite \cup InRead \cup InClear
              \cup {"idle", "z_hold", "i_store", "s_tail", "s_got"}

HoldsRead(p)  == pc[p] \in InRead \cup InClear \cup {"i_store"}
HoldsWrite(p) == pc[p] \in InWrite \cup {"c_tail"}

\* The slots thread p may be reading, and the slots tryWrite may be writing;
\* write(write_index, ...) goes wherever its caller says.
Reading(p) == IF pc[p] \in {"r_copy", "p_copy", "z_hold"}
              THEN Region(lh[p], len[p]) ELSE {}
Writing(p) == IF pc[p] = "w_copy"
              THEN Region(lt[p], len[p]) ELSE {}

RingType ==
  /\ buf \in [Index -> Nat]
  /\ head \in Index /\ tail \in Index
  /\ readMtx \in Threads \cup {NoOne} /\ writeMtx \in Threads \cup {NoOne}
  /\ pc \in [Threads -> Places]
  /\ len \in [Threads -> Nat]
  /\ lh \in [Threads -> Index] /\ lt \in [Threads -> Index]
  /\ accepted \in Nat /\ out \in Seq(Nat)

FlagType == filled \in BOOLEAN /\ threw \in BOOLEAN

TypeOK == RingType /\ FlagType

(* Whoever is between a lock and its release of read_mtx_ (write_mtx_) is  *)
(* its owner: no two threads are on the same side of the ring at once,     *)
(* clear() included, although it takes the second mutex on the way.        *)
OneOwnerPerSide ==
  \A p \in Threads : /\ HoldsRead(p) <=> readMtx = p
                     /\ HoldsWrite(p) <=> writeMtx = p

(* While no write has used the last free byte, no slot is copied into      *)
(* while another thread copies out of it or holds it through               *)
(* linearReadablePtr, although the two sides never share a mutex           *)
(* (RingByteBuf.h:98-101).                                                 *)
ReadersAndWritersApart ==
  ~filled => \A p, q \in Threads : Reading(p) \cap Writing(q) = {}

(* While no write has used the last free byte, the bytes handed out are    *)
(* the bytes accepted, in order, none lost and none twice, whatever the    *)
(* interleaving of writers and readers.                                    *)
DeliveredInOrder ==
  ~filled => /\ Len(out) + Readable(head, tail) = accepted
             /\ \A k \in 1..Len(out) : out[k] = k

(* The bytes in the ring are all readable (RingByteBuf.h:51, "total        *)
(* readable"): whoever sees the ring empty has seen every accepted byte.   *)
AcceptedIsReadable == head = tail => Len(out) = accepted

(* The number readableBytes() gave the only reading thread is never more   *)
(* than what it can still read: getNextPackLen may rely on it.             *)
SizeIsSafe ==
  ~filled => \A p \in Threads :
               pc[p] = "s_got" => len[p] <= Readable(head, tail)

(* The chunk linearReadablePtr returned is still readable when it is       *)
(* consumed, so consume never throws at its only user.                     *)
ConsumeNeverThrows == ~filled => ~threw

(* The tail_ a writer counts on is still the tail_ it replaces, and the    *)
(* room it found is still there: nobody moves the write index under a      *)
(* writer, so no published write is lost (RingByteBuf.h:98-101, "don't     *)
(* race on the same atomic indices").                                      *)
TailStable ==
  \A p \in Threads : pc[p] \in {"w_reload", "w_copy", "w_store"} =>
     /\ ~filled => len[p] <= Writable(head, tail)
     /\ pc[p] # "w_reload" => lt[p] = tail

(* The ring implements the bounded FIFO of bytes, up to the first write    *)
(* that uses the last free byte.                                           *)
Fifo == INSTANCE ByteFifo
          WITH sent <- [k \in 1..accepted |-> k], rcvd <- out, ok <- ~filled

FifoSpec == Fifo!Spec
=============================================================================
