--------------------------- MODULE EventLoopProofs ---------------------------
(***************************************************************************)
(* No wake-up of an event loop is lost, for any set of producer threads    *)
(* and any number of tasks.                                                *)
(***************************************************************************)
EXTENDS EventLoop, TLAPS

(* The counters and the flags alone: the part of TypeOK that is about the  *)
(* loop, and the order in which run() initialises the handles.             *)
LoopType ==
  /\ pushed \in [Producers -> 0..MaxTasks]
  /\ ran \in [Producers -> 0..MaxTasks]
  /\ woken \in [Producers -> 0..MaxTasks]
  /\ at \in [Producers -> Handles \cup {"idle"}]
  /\ inited \in SUBSET Handles
  /\ loop \in {"start", "poll", "execute"}
  /\ looked \in SUBSET Producers

FlagsType == flag \in [Handles -> BOOLEAN]

(* What a producer is woken for it has pushed, and what the loop has run   *)
(* it was given.                                                           *)
Pushed == \A p \in Producers : woken[p] <= pushed[p] /\ ran[p] <= pushed[p]

(* NoLostWakeup with the two facts it rests on.                            *)
IInv == TypeOK /\ Pushed /\ NoLostWakeup

(* The next-state relation keeps the types (EventLoop.cpp:127-172).        *)
LEMMA TypeStep ==
  ASSUME TypeOK, Pushed, [Next]_vars
  PROVE  TypeOK'
<1> USE LoopAssumption DEF LoopType
<1>1. LoopType /\ FlagsType
  BY DEF TypeOK, FlagsType
<1>2. CASE UNCHANGED vars
  BY <1>1, <1>2 DEF vars, producer, thread, TypeOK, FlagsType
<1>3. ASSUME NEW h \in Handles, InitHandle(h) PROVE TypeOK'
  <2>1. LoopType'
    BY <1>1, <1>3 DEF InitHandle, producer
  <2>2. FlagsType'
    BY <1>1, <1>3 DEF InitHandle, FlagsType
  <2> QED BY <2>1, <2>2 DEF TypeOK, FlagsType
<1>4. ASSUME NEW h \in Handles, Woken(h) PROVE TypeOK'
  <2>1. LoopType'
    BY <1>1, <1>4 DEF Woken, producer
  <2>2. FlagsType'
    BY <1>1, <1>4 DEF Woken, FlagsType
  <2> QED BY <2>1, <2>2 DEF TypeOK, FlagsType
<1>5. ASSUME NEW p \in Producers, RunTask(p) PROVE TypeOK'
  <2>1. ran[p] + 1 \in 0..MaxTasks
    BY <1>1, <1>5 DEF RunTask
  <2>2. LoopType'
    BY <1>1, <1>5, <2>1 DEF RunTask, producer
  <2>3. FlagsType'
    BY <1>1, <1>5 DEF RunTask, FlagsType
  <2> QED BY <2>2, <2>3 DEF TypeOK, FlagsType
<1>6. ASSUME NEW p \in Producers, LookEmpty(p) PROVE TypeOK'
  <2>1. LoopType'
    BY <1>1, <1>6 DEF LookEmpty, producer
  <2>2. FlagsType'
    BY <1>1, <1>6 DEF LookEmpty, FlagsType
  <2> QED BY <2>1, <2>2 DEF TypeOK, FlagsType
<1>7. CASE ExecuteDone
  <2>1. LoopType'
    BY <1>1, <1>7 DEF ExecuteDone, producer
  <2>2. FlagsType'
    BY <1>1, <1>7 DEF ExecuteDone, FlagsType
  <2> QED BY <2>1, <2>2 DEF TypeOK, FlagsType
<1>8. ASSUME NEW p \in Producers, NEW h \in Handles, Push(p, h) PROVE TypeOK'
  <2>1. pushed[p] + 1 \in 0..MaxTasks
    BY <1>1, <1>8 DEF Push
  <2>2. LoopType'
    BY <1>1, <1>8, <2>1 DEF Push, thread
  <2>3. FlagsType'
    BY <1>1, <1>8 DEF Push, FlagsType
  <2> QED BY <2>2, <2>3 DEF TypeOK, FlagsType
<1>9. ASSUME NEW p \in Producers, Wake(p) PROVE TypeOK'
  <2>1. LoopType'
    BY <1>1, <1>9 DEF Wake, thread
  <2>2. FlagsType'
    BY <1>1, <1>9 DEF Wake, FlagsType
  <2> QED BY <2>1, <2>2 DEF TypeOK, FlagsType
<1>10. ASSUME NEW p \in Producers, PushOnly(p) PROVE TypeOK'
  <2>1. pushed[p] + 1 \in 0..MaxTasks
    BY <1>1, <1>10 DEF PushOnly
  <2>2. LoopType'
    BY <1>1, <1>10, <2>1 DEF PushOnly, thread
  <2>3. FlagsType'
    BY <1>1, <1>10 DEF PushOnly, FlagsType
  <2> QED BY <2>2, <2>3 DEF TypeOK, FlagsType
<1> QED
  BY <1>2, <1>3, <1>4, <1>5, <1>6, <1>7, <1>8, <1>9, <1>10
  DEF Next, LoopStep, Produce

(* A task is pushed before the loop is woken for it, and before it runs.   *)
LEMMA PushedStep ==
  ASSUME TypeOK, Pushed, [Next]_vars
  PROVE  Pushed'
<1>1. LoopType
  BY DEF TypeOK, LoopType
<1>2. CASE UNCHANGED vars
  BY <1>2 DEF vars, producer, thread, Pushed
<1>3. CASE LoopStep
  BY <1>1, <1>3
  DEF LoopStep, InitHandle, Woken, RunTask, LookEmpty, ExecuteDone,
      Pushed, producer, LoopType
<1>4. ASSUME NEW p \in Producers, Produce(p) PROVE Pushed'
  BY <1>1, <1>4
  DEF Produce, Push, Wake, PushOnly, Pushed, thread, LoopType
<1> QED BY <1>2, <1>3, <1>4 DEF Next

(* Each step keeps every wake-up in one of the three places where it       *)
(* cannot be lost: with the task run, in a flag, or in the rest of the     *)
(* drain under way.                                                        *)
LEMMA WakeupStep ==
  ASSUME TypeOK, Pushed, NoLostWakeup, [Next]_vars
  PROVE  NoLostWakeup'
<1>1. LoopType
  BY DEF TypeOK, LoopType
<1>2. FlagsType
  BY DEF TypeOK, FlagsType
<1>3. CASE UNCHANGED vars
  BY <1>3 DEF vars, producer, thread, NoLostWakeup
<1>4. ASSUME NEW h \in Handles, InitHandle(h) PROVE NoLostWakeup'
  <2>1. \A i \in inited : flag[i] => i \in inited' /\ flag'[i]
    BY <1>1, <1>2, <1>4 DEF InitHandle, LoopType, FlagsType
  <2>2. loop # "execute" /\ UNCHANGED <<woken, ran>>
    BY <1>4 DEF InitHandle, producer
  <2> QED BY <2>1, <2>2 DEF NoLostWakeup
<1>5. ASSUME NEW h \in Handles, Woken(h) PROVE NoLostWakeup'
  <2>1. loop' = "execute" /\ looked' = {}
    BY <1>5 DEF Woken
  <2> QED BY <2>1 DEF NoLostWakeup
<1>6. ASSUME NEW q \in Producers, RunTask(q) PROVE NoLostWakeup'
  <2>1. loop' = "execute" /\ looked' = {}
    BY <1>6 DEF RunTask
  <2> QED BY <2>1 DEF NoLostWakeup
<1>7. ASSUME NEW q \in Producers, LookEmpty(q) PROVE NoLostWakeup'
  <2>1. ~(ran[q] < woken[q])
    BY <1>1, <1>7 DEF LookEmpty, Pushed, LoopType
  <2>2. UNCHANGED <<ran, woken, flag, inited, loop>>
    BY <1>7 DEF LookEmpty, producer
  <2>3. looked' = looked \cup {q}
    BY <1>7 DEF LookEmpty
  <2> QED BY <2>1, <2>2, <2>3 DEF NoLostWakeup
<1>8. CASE ExecuteDone
  <2>1. looked = Producers /\ UNCHANGED <<ran, woken, flag, inited>>
    BY <1>8 DEF ExecuteDone, producer
  <2> QED BY <2>1 DEF NoLostWakeup
<1>9. ASSUME NEW q \in Producers, NEW h \in Handles, Push(q, h)
      PROVE  NoLostWakeup'
  BY <1>9 DEF Push, thread, NoLostWakeup
<1>10. ASSUME NEW q \in Producers, Wake(q) PROVE NoLostWakeup'
  <2>1. UNCHANGED <<ran, inited, loop, looked>>
    BY <1>10 DEF Wake, thread
  <2>2. CASE at[q] \in inited
    <3>1. \E h \in inited' : flag'[h]
      BY <1>1, <1>2, <1>10, <2>1, <2>2 DEF Wake, LoopType, FlagsType
    <3> QED BY <3>1 DEF NoLostWakeup
  <2>3. CASE at[q] \notin inited
    <3>1. woken' = woken
      BY <1>10, <2>3 DEF Wake
    <3>2. \A h \in inited : flag[h] => flag'[h]
      BY <1>1, <1>2, <1>10 DEF Wake, LoopType, FlagsType
    <3> QED BY <2>1, <3>1, <3>2 DEF NoLostWakeup
  <2> QED BY <2>2, <2>3
<1>11. ASSUME NEW q \in Producers, PushOnly(q) PROVE NoLostWakeup'
  BY <1>11 DEF PushOnly, thread, NoLostWakeup
<1> QED
  BY <1>3, <1>4, <1>5, <1>6, <1>7, <1>8, <1>9, <1>10, <1>11
  DEF Next, LoopStep, Produce

(* The inductive invariant holds in every execution.                       *)
THEOREM LoopInvariant == Spec => []IInv
<1>1. Init => IInv
  BY LoopAssumption
  DEF Init, IInv, TypeOK, Pushed, NoLostWakeup, Handles
<1>2. IInv /\ [Next]_vars => IInv'
  BY TypeStep, PushedStep, WakeupStep DEF IInv
<1> QED BY <1>1, <1>2, PTL DEF Spec

(* The counters, the handles and the loop keep their types                 *)
(* (EventLoop.cpp:127-172).                                                *)
THEOREM LoopTypes == Spec => []TypeOK
<1>1. IInv => TypeOK
  BY DEF IInv
<1> QED BY <1>1, LoopInvariant, PTL

(* No wake-up is lost: a task pushed before a send that an initialised     *)
(* handle received has run, or a flag is still to be noticed, or the drain *)
(* under way has yet to look at its producer (EventLoop.cpp:164-172).      *)
THEOREM WakeupsKept == Spec => []NoLostWakeup
<1>1. IInv => NoLostWakeup
  BY DEF IInv
<1> QED BY <1>1, LoopInvariant, PTL
=============================================================================
