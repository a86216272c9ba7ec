--------------------------- MODULE RequestPipeline ---------------------------
(***************************************************************************)
(* The path of a request through the game server.  The event loop of its   *)
(* channel reads it, finds its handler, parses it into a pooled message    *)
(* and gives it to a worker of the thread pool (GameServerNetWorkHandler); *)
(* the worker runs the handler, whose reply goes back to the channel's     *)
(* event loop as a task, and returns the message to the pool.              *)
(*                                                                         *)
(* A queue between two threads keeps one FIFO per producer, as the         *)
(* moodycamel queue does; its consumer takes from whichever it finds.      *)
(* The pool of messages gives out an object nobody has (FreeList, which    *)
(* ObjectPool implements), and a loop runs the tasks it was woken for      *)
(* (EventLoop!WokenTasksRun).  The requests of a channel are numbered in   *)
(* the order they are read.                                                *)
(***************************************************************************)
EXTENDS Naturals, Sequences, FiniteSets

CONSTANTS
  Channels,   \* the connections
  Loops,      \* the event loops
  LoopOf,     \* the loop onAccept's round robin gave a channel
  Size,       \* the workers of the pool
  HashCode,   \* the second argument of threadPool->execute
  MaxReqs     \* bound: requests read from a channel

ASSUME PipelineAssumption ==
  /\ IsFiniteSet(Channels)
  /\ LoopOf \in [Channels -> Loops]
  /\ Size \in Nat \ {0} /\ HashCode \in Nat /\ MaxReqs \in Nat

Worker  == 0..(Size - 1)
Message == 1..(Cardinality(Channels) * MaxReqs)
Request == Channels \X (1..MaxReqs)

VARIABLES
  read,       \* read[c]: requests read from channel c
  open,       \* the channels whose handle is open
  queue,      \* queue[w][l]: tasks loop l has queued for worker w
  used,       \* the messages out of the pool
  content,    \* content[m]: the request last parsed into message m
  stage,      \* where worker w is in its task: "idle", "run" or "return"
  job,        \* job[w]: the task it is running
  isrun,      \* _isrun of each worker
  inbox,      \* inbox[l][w]: tasks worker w has pushed to loop l
  asked,      \* history: the requests given to a worker
  written     \* history: written[c]: the replies given to channel c's ring

network == <<read, open>>
pool    == <<used, content>>
worker  == <<stage, job, isrun>>
history == <<asked, written>>
vars    == <<network, queue, pool, worker, inbox, history>>

NoTask == [req |-> <<>>, msg |-> 0]

Init ==
  /\ read = [c \in Channels |-> 0] /\ open = Channels
  /\ queue = [w \in Worker |-> [l \in Loops |-> <<>>]]
  /\ used = {} /\ content = [m \in Message |-> <<>>]
  /\ stage = [w \in Worker |-> "idle"]
  /\ job = [w \in Worker |-> NoTask]
  /\ isrun = [w \in Worker |-> TRUE]
  /\ inbox = [l \in Loops |-> [w \in Worker |-> <<>>]]
  /\ asked = {} /\ written = [c \in Channels |-> <<>>]

-----------------------------------------------------------------------------
(* The event loop reads: onMsg.                                            *)

\* Mutant: requests are spread over the workers.
WorkerInTurn(c, k) == k % Size

\* threadHashCode % _threads.size(); onMsg passes the same code for all.
WorkerFor(c, k) == HashCode % Size

Reads(c) ==
  /\ c \in open /\ read[c] < MaxReqs
  /\ read' = [read EXCEPT ![c] = @ + 1]

\* findMsgFuncion finds no handler: the request is logged and forgotten.
Ignore(c) ==
  /\ Reads(c)
  /\ UNCHANGED <<open, queue, pool, worker, inbox, history>>

\* newParam acquires a message and parses the request into it; execute
\* queues the task.
Dispatch(c) ==
  LET k == read[c] + 1
      m == CHOOSE x \in Message \ used : TRUE
  IN  /\ Reads(c)
      /\ used' = used \cup {m}
      /\ content' = [content EXCEPT ![m] = <<c, k>>]
      /\ queue' = [queue EXCEPT ![WorkerFor(c, k)][LoopOf[c]] =
                     Append(@, [req |-> <<c, k>>, msg |-> m])]
      /\ asked' = asked \cup {<<c, k>>}
      /\ UNCHANGED <<open, worker, inbox, written>>

\* The peer closes, or the read fails.
Close(c) ==
  /\ c \in open
  /\ open' = open \ {c}
  /\ UNCHANGED <<read, queue, pool, worker, inbox, history>>

-----------------------------------------------------------------------------
(* A worker: thread_func.                                                  *)

\* Mutant: the dequeue takes the last task queued.
TakeLast(w, l) ==
  /\ isrun[w] /\ stage[w] = "idle" /\ queue[w][l] # <<>>
  /\ job' = [job EXCEPT ![w] = queue[w][l][Len(queue[w][l])]]
  /\ queue' = [queue EXCEPT ![w][l] = SubSeq(@, 1, Len(@) - 1)]
  /\ stage' = [stage EXCEPT ![w] = "run"]
  /\ UNCHANGED <<network, pool, isrun, inbox, history>>

\* Mutant: the result of the dequeue is not looked at.
TakeUnchecked(w, l) ==
  /\ isrun[w] /\ stage[w] = "idle"
  /\ job' = [job EXCEPT ![w] = IF queue[w][l] = <<>> THEN NoTask
                               ELSE Head(queue[w][l])]
  /\ queue' = [queue EXCEPT ![w][l] = IF @ = <<>> THEN @ ELSE Tail(@)]
  /\ stage' = [stage EXCEPT ![w] = "run"]
  /\ UNCHANGED <<network, pool, isrun, inbox, history>>

\* Mutant: _isrun is tested after the dequeue.
TakeThenTest(w, l) ==
  /\ stage[w] = "idle" /\ queue[w][l] # <<>>
  /\ queue' = [queue EXCEPT ![w][l] = Tail(@)]
  /\ IF isrun[w] THEN /\ job' = [job EXCEPT ![w] = Head(queue[w][l])]
                      /\ stage' = [stage EXCEPT ![w] = "run"]
     ELSE UNCHANGED <<job, stage>>
  /\ UNCHANGED <<network, pool, isrun, inbox, history>>

\* _isrun, then popWaitTask.  A stop between the two is one just after.
Take(w, l) ==
  /\ isrun[w] /\ stage[w] = "idle" /\ queue[w][l] # <<>>
  /\ job' = [job EXCEPT ![w] = Head(queue[w][l])]
  /\ queue' = [queue EXCEPT ![w][l] = Tail(@)]
  /\ stage' = [stage EXCEPT ![w] = "run"]
  /\ UNCHANGED <<network, pool, isrun, inbox, history>>

\* Mutant: the message goes back to the pool before the handler has run.
HandleReleased(w) ==
  LET c == job[w].req[1]
  IN  /\ stage[w] = "run"
      /\ \/ /\ job[w].msg \in used /\ used' = used \ {job[w].msg}
            /\ UNCHANGED <<stage, inbox>>
         \/ /\ job[w].msg \notin used /\ UNCHANGED used
            /\ inbox' = [inbox EXCEPT ![LoopOf[c]][w] = Append(@, job[w].req)]
            /\ stage' = [stage EXCEPT ![w] = "return"]
      /\ UNCHANGED <<network, queue, content, job, isrun, history>>

\* The handler reads its message and replies with channel->sendMsg.
Handle(w) ==
  LET c == job[w].req[1]
  IN  /\ stage[w] = "run"
      /\ inbox' = [inbox EXCEPT ![LoopOf[c]][w] = Append(@, job[w].req)]
      /\ stage' = [stage EXCEPT ![w] = "return"]
      /\ UNCHANGED <<network, queue, pool, job, isrun, history>>

\* Mutant: a message whose channel has closed is not released.
ReturnIfOpen(w) ==
  /\ stage[w] = "return"
  /\ used' = IF job[w].req[1] \in open THEN used \ {job[w].msg} ELSE used
  /\ stage' = [stage EXCEPT ![w] = "idle"]
  /\ job' = [job EXCEPT ![w] = NoTask]
  /\ UNCHANGED <<network, queue, content, isrun, inbox, history>>

\* msgFunction releases the message, RunTask::run the task.
Return(w) ==
  /\ stage[w] = "return"
  /\ used' = used \ {job[w].msg}
  /\ stage' = [stage EXCEPT ![w] = "idle"]
  /\ job' = [job EXCEPT ![w] = NoTask]
  /\ UNCHANGED <<network, queue, content, isrun, inbox, history>>

\* ThreadPool::exit stops the first worker; the join of its detached thread
\* throws, and the others are never stopped.  This is an exit whose caller
\* catches the exception: out of ~ThreadPool it ends the process.  No program
\* of the repository calls exit or destroys its pool.
Exit ==
  /\ isrun' = [isrun EXCEPT ![0] = FALSE]
  /\ UNCHANGED <<network, queue, pool, stage, job, inbox, history>>

-----------------------------------------------------------------------------
(* The event loop replies: the task of sendMsg.  On a closed channel       *)
(* uv_write fails and nobody looks.                                        *)

Reply(l, w) ==
  LET r == Head(inbox[l][w])
  IN  /\ inbox[l][w] # <<>>
      /\ inbox' = [inbox EXCEPT ![l][w] = Tail(@)]
      /\ written' = IF r[1] \in open
                    THEN [written EXCEPT ![r[1]] = Append(@, r[2])]
                    ELSE written
      /\ UNCHANGED <<network, queue, pool, worker, asked>>

-----------------------------------------------------------------------------
WorkerStep(w) == (\E l \in Loops : Take(w, l)) \/ Handle(w) \/ Return(w)
LoopReply(l)  == \E w \in Worker : Reply(l, w)

Next ==
  \/ \E c \in Channels : Ignore(c) \/ Dispatch(c) \/ Close(c)
  \/ \E w \in Worker : WorkerStep(w)
  \/ \E l \in Loops : LoopReply(l)
  \/ Exit

\* Workers poll their queue every millisecond; a loop runs what it is woken
\* for.
Fairness == /\ \A w \in Worker : WF_vars(WorkerStep(w))
            /\ \A l \in Loops : WF_vars(LoopReply(l))

Spec == Init /\ [][Next]_vars /\ Fairness

-----------------------------------------------------------------------------
Task == [req : Request, msg : Message]

TypeOK ==
  /\ read \in [Channels -> 0..MaxReqs] /\ open \subseteq Channels
  /\ queue \in [Worker -> [Loops -> Seq(Task)]]
  /\ used \subseteq Message
  /\ content \in [Message -> Request \cup {<<>>}]
  /\ stage \in [Worker -> {"idle", "run", "return"}]
  /\ job \in [Worker -> Task \cup {NoTask}]
  /\ \A w \in Worker : stage[w] = "idle" <=> job[w] = NoTask
  /\ isrun \in [Worker -> BOOLEAN]
  /\ inbox \in [Loops -> [Worker -> Seq(Request)]]
  /\ asked \subseteq Request
  /\ written \in [Channels -> Seq(1..MaxReqs)]

(* The replies to a channel leave in the order its requests came in, each  *)
(* once, although they cross a worker and two queues                       *)
(* (GameServerNetWorkHandler.cpp:43-45: the hash code picks the worker).   *)
RepliesInOrder ==
  \A c \in Channels : \A i, j \in DOMAIN written[c] :
    i < j => written[c][i] < written[c][j]

(* Two handlers never run at the same time, although there are several     *)
(* workers and several loops queue tasks: one hash code for all of them    *)
(* (GameServerNetWorkHandler.cpp:45) makes the handlers serial.            *)
OneHandlerAtATime ==
  \A v, w \in Worker : stage[v] = "run" /\ stage[w] = "run" => v = w

(* A handler reads the message that was parsed for its request, although   *)
(* messages are reused (Dispatcher.h:45-73).                               *)
HandlerSeesItsMessage ==
  \A w \in Worker : stage[w] = "run" => /\ job[w].msg \in used
                                        /\ content[job[w].msg] = job[w].req

(* Every message out of the pool belongs to a task that will return it.    *)
NoMessageLeaks ==
  \A m \in used :
    \/ \E w \in Worker : job[w].msg = m
    \/ \E w \in Worker, l \in Loops :
         \E i \in DOMAIN queue[w][l] : queue[w][l][i].msg = m

\* The request is in the queue of a worker that was stopped.
Stranded(r) ==
  \E w \in Worker, l \in Loops :
    ~isrun[w] /\ \E i \in DOMAIN queue[w][l] : queue[w][l][i].req = r

(* A request that was given to a worker is answered, unless its channel    *)
(* closes.  A stop of the worker loses what it has not yet taken from its  *)
(* queue, and nothing else: the task it is in is finished and its reply    *)
(* leaves (ThreadPool.cpp:17-28, 31-34).                                   *)
EveryRequestAnswered ==
  \A c \in Channels : \A k \in 1..MaxReqs :
    <<c, k>> \in asked ~>
      \/ \E i \in DOMAIN written[c] : written[c][i] = k
      \/ c \notin open \/ Stranded(<<c, k>>)
=============================================================================
