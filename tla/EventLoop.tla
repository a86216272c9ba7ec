------------------------------ MODULE EventLoop ------------------------------
(***************************************************************************)
(* engine/transport/EventLoop: the task queue of one reactor.  Any thread  *)
(* pushes a task (_waitTasks, a moodycamel queue: one FIFO per producer)   *)
(* and then wakes the loop through one of three uv_async_t handles; the    *)
(* loop thread, once woken, runs tasks until the queue looks empty.        *)
(*                                                                         *)
(* A handle is the flag uv_async_send sets and the loop clears before it   *)
(* calls the callback; sends to a handle whose flag is set coalesce.  The  *)
(* dequeue looks at one producer's FIFO after the other, so "empty" means  *)
(* that each was empty when it was looked at.                              *)
(***************************************************************************)
EXTENDS Naturals, FiniteSets

CONSTANTS
  Producers,   \* the threads that push
  MaxTasks     \* bound: tasks each of them pushes

ASSUME LoopAssumption == MaxTasks \in Nat /\ IsFiniteSet(Producers)

\* uv_async_init's order in EventLoop::run.
Handles == {"write", "accept", "connect"}

VARIABLES
  pushed,    \* pushed[p]: tasks p has pushed; they are numbered from 1
  ran,       \* ran[p]: how many of them the loop has run, in order
  at,        \* at[p]: "idle", or the handle p is about to send to
  flag,      \* flag[h]: uv_async_t's pending flag
  inited,    \* the handles uv_async_init has set up
  loop,      \* the loop thread: "start", "poll" or "execute"
  looked,    \* the FIFOs the current dequeue has found empty
  woken      \* history: woken[p] tasks of p were pushed before a send of
             \* p's that an initialised handle received

producer == <<pushed, at, woken>>
thread   == <<ran, inited, loop, looked>>
vars     == <<producer, thread, flag>>

Init ==
  /\ pushed = [p \in Producers |-> 0]
  /\ ran = [p \in Producers |-> 0]
  /\ at = [p \in Producers |-> "idle"]
  /\ flag = [h \in Handles |-> FALSE]
  /\ inited = {} /\ loop = "start" /\ looked = {}
  /\ woken = [p \in Producers |-> 0]

-----------------------------------------------------------------------------
(* Producers.                                                              *)

\* sendMsg(shared_ptr), asyncAccept, asyncConnect: push, then send.
Push(p, h) ==
  /\ at[p] = "idle" /\ pushed[p] < MaxTasks
  /\ pushed' = [pushed EXCEPT ![p] = @ + 1]
  /\ at' = [at EXCEPT ![p] = h]
  /\ UNCHANGED <<woken, thread, flag>>

\* uv_async_send.  On a handle that uv_async_init has yet to set up it is
\* undefined: here it sets a flag that the initialisation resets, so that it
\* wakes nobody; no promise is made for it.
Wake(p) ==
  /\ at[p] # "idle"
  /\ at' = [at EXCEPT ![p] = "idle"]
  /\ flag' = [flag EXCEPT ![at[p]] = TRUE]
  /\ woken' = IF at[p] \in inited THEN [woken EXCEPT ![p] = pushed[p]]
                                  ELSE woken
  /\ UNCHANGED <<pushed, thread>>

\* sendMsg of a raw pointer pushes and sends to no handle.
PushOnly(p) ==
  /\ at[p] = "idle" /\ pushed[p] < MaxTasks
  /\ pushed' = [pushed EXCEPT ![p] = @ + 1]
  /\ UNCHANGED <<at, woken, thread, flag>>

-----------------------------------------------------------------------------
(* The loop thread: run(), then uv_run.                                    *)

\* uv_async_init, in this order; it clears the flag.
InitHandle(h) ==
  /\ loop = "start" /\ h \notin inited
  /\ h = "accept" => "write" \in inited
  /\ h = "connect" => "accept" \in inited
  /\ inited' = inited \cup {h}
  /\ flag' = [flag EXCEPT ![h] = FALSE]
  /\ loop' = IF h = "connect" THEN "poll" ELSE "start"
  /\ UNCHANGED <<producer, ran, looked>>

\* uv clears the flag, then calls async_write_cb and the like: execute().
Woken(h) ==
  /\ loop = "poll" /\ flag[h]
  /\ flag' = [flag EXCEPT ![h] = FALSE]
  /\ loop' = "execute"
  /\ looked' = {}
  /\ UNCHANGED <<producer, ran, inited>>

\* Mutant: one task for each wake-up.
RunOneTask(p) ==
  /\ loop = "execute" /\ p \notin looked
  /\ ran[p] < pushed[p]
  /\ ran' = [ran EXCEPT ![p] = @ + 1]
  /\ loop' = "poll" /\ looked' = {}
  /\ UNCHANGED <<producer, flag, inited>>

\* Mutant: a task is run whether there is one or not.
RunAnyTask(p) ==
  /\ loop = "execute" /\ p \notin looked
  /\ ran' = [ran EXCEPT ![p] = @ + 1]
  /\ looked' = {}
  /\ UNCHANGED <<producer, flag, inited, loop>>

\* pop() finds a task and run() runs it; the next pop() looks afresh.
RunTask(p) ==
  /\ loop = "execute" /\ p \notin looked
  /\ ran[p] < pushed[p]
  /\ ran' = [ran EXCEPT ![p] = @ + 1]
  /\ looked' = {}
  /\ UNCHANGED <<producer, flag, inited, loop>>

LookEmpty(p) ==
  /\ loop = "execute" /\ p \notin looked
  /\ ran[p] = pushed[p]
  /\ looked' = looked \cup {p}
  /\ UNCHANGED <<producer, flag, ran, inited, loop>>

\* Mutant: the flags are cleared after the callback.
ExecuteClears ==
  /\ loop = "execute" /\ looked = Producers
  /\ loop' = "poll" /\ looked' = {}
  /\ flag' = [h \in Handles |-> FALSE]
  /\ UNCHANGED <<producer, ran, inited>>

\* pop() returns nullptr and execute() returns.
ExecuteDone ==
  /\ loop = "execute" /\ looked = Producers
  /\ loop' = "poll" /\ looked' = {}
  /\ UNCHANGED <<producer, flag, ran, inited>>

-----------------------------------------------------------------------------
LoopStep ==
  \/ \E h \in Handles : InitHandle(h) \/ Woken(h)
  \/ \E p \in Producers : RunTask(p) \/ LookEmpty(p)
  \/ ExecuteDone

Produce(p) == (\E h \in Handles : Push(p, h)) \/ Wake(p) \/ PushOnly(p)

Next == LoopStep \/ \E p \in Producers : Produce(p)

\* The loop thread keeps running, and so does a thread between its push and
\* its send.
Fairness == WF_vars(LoopStep) /\ \A p \in Producers : WF_vars(Wake(p))

Spec == Init /\ [][Next]_vars /\ Fairness

-----------------------------------------------------------------------------
TypeOK ==
  /\ pushed \in [Producers -> 0..MaxTasks]
  /\ ran \in [Producers -> 0..MaxTasks]
  /\ woken \in [Producers -> 0..MaxTasks]
  /\ at \in [Producers -> Handles \cup {"idle"}]
  /\ flag \in [Handles -> BOOLEAN]
  /\ inited \in SUBSET Handles
  /\ loop \in {"start", "poll", "execute"}
  /\ looked \in SUBSET Producers

(* No wake-up is lost: a task that was pushed before a send to an          *)
(* initialised handle either has run, or the loop has yet to notice a      *)
(* flag, or it is draining and has yet to look at that producer again.     *)
(* Coalesced sends, the early clearing of the flag and the dequeue that    *)
(* may miss a late push are all covered (EventLoop.cpp:164-172).           *)
NoLostWakeup ==
  \A p \in Producers :
    ran[p] < woken[p] =>
      \/ \E h \in inited : flag[h]
      \/ loop = "execute" /\ p \notin looked

(* A task whose producer then woke an initialised handle runs.             *)
WokenTasksRun ==
  \A p \in Producers : \A k \in 1..MaxTasks :
    woken[p] >= k ~> ran[p] >= k
=============================================================================
