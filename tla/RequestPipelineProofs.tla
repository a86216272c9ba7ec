------------------------ MODULE RequestPipelineProofs ------------------------
(***************************************************************************)
(* What RequestPipeline keeps, for any number of channels, loops, workers  *)
(* and requests.  All requests go to one worker, because onMsg passes the  *)
(* same hash code for every task; the order of the replies, the exclusion  *)
(* of handlers and the exclusive use of the messages rest on that.         *)
(***************************************************************************)
EXTENDS RequestPipeline, FiniteSetTheorems, TLAPS

(* The worker every task goes to, what each loop has queued for it, what   *)
(* it runs, and what it has pushed to each loop.                           *)
TheWorker == HashCode % Size
Q(l) == queue[TheWorker][l]
J    == job[TheWorker]
B(l) == inbox[l][TheWorker]

\* Of two requests of a channel, r was read first.
Earlier(r, s) == r[1] = s[1] => r[2] < s[2]

(* The other workers never have anything to do.                            *)
SoleWorker ==
  \A w \in Worker \ {TheWorker} :
    /\ stage[w] = "idle"
    /\ \A l \in Loops : queue[w][l] = <<>> /\ inbox[l][w] = <<>>

(* A channel's requests and replies stay with its loop.                    *)
Belongs ==
  \A l \in Loops : /\ \A i \in DOMAIN Q(l) : LoopOf[Q(l)[i].req[1]] = l
                   /\ \A i \in DOMAIN B(l) : LoopOf[B(l)[i][1]] = l

(* Whatever is on its way has been asked, and only what was read has.      *)
Known ==
  /\ \A r \in asked : r[2] <= read[r[1]]
  /\ \A l \in Loops : /\ \A i \in DOMAIN Q(l) : Q(l)[i].req \in asked
                      /\ \A i \in DOMAIN B(l) : B(l)[i] \in asked
  /\ stage[TheWorker] # "idle" => J.req \in asked
  /\ \A c \in Channels : \A i \in DOMAIN written[c] :
       <<c, written[c][i]>> \in asked

(* A task's message is out of the pool and holds the task's request.       *)
Holds(t) == t.msg \in used /\ content[t.msg] = t.req
Carried ==
  /\ \A l \in Loops : \A i \in DOMAIN Q(l) : Holds(Q(l)[i])
  /\ stage[TheWorker] # "idle" => Holds(J)

(* No two messages out of the pool hold the same request.                  *)
Distinct ==
  /\ \A m \in used : content[m] \in asked
  /\ \A m, n \in used : content[m] = content[n] => m = n

(* Along the way from the loop to the worker, to the loop and to the ring, *)
(* a channel's requests stay in the order they were read.                  *)
QueueInLine ==
  /\ \A l \in Loops : \A i, j \in DOMAIN Q(l) :
       i < j => Earlier(Q(l)[i].req, Q(l)[j].req)
  /\ stage[TheWorker] # "idle" =>
       \A l \in Loops : \A i \in DOMAIN Q(l) : Earlier(J.req, Q(l)[i].req)

InboxInLine ==
  \A l \in Loops :
    /\ \A i, j \in DOMAIN B(l) : i < j => Earlier(B(l)[i], B(l)[j])
    /\ \A i \in DOMAIN B(l) :
         /\ stage[TheWorker] = "run" => Earlier(B(l)[i], J.req)
         /\ \A k \in Loops : \A j \in DOMAIN Q(k) :
              Earlier(B(l)[i], Q(k)[j].req)

WrittenInLine ==
  \A c \in Channels : \A i \in DOMAIN written[c] :
    /\ stage[TheWorker] = "run" => Earlier(<<c, written[c][i]>>, J.req)
    /\ \A l \in Loops :
         /\ \A j \in DOMAIN B(l) : Earlier(<<c, written[c][i]>>, B(l)[j])
         /\ \A j \in DOMAIN Q(l) : Earlier(<<c, written[c][i]>>, Q(l)[j].req)

IInv ==
  /\ TypeOK /\ SoleWorker /\ Belongs /\ Known
  /\ Carried /\ Distinct /\ NoMessageLeaks
  /\ QueueInLine /\ InboxInLine /\ WrittenInLine /\ RepliesInOrder

-----------------------------------------------------------------------------
(* Sequences and tables of sequences.                                      *)

(* What Append and Tail leave at each place.                               *)
LEMMA AppendElements ==
  ASSUME NEW S, NEW s \in Seq(S), NEW e \in S
  PROVE  /\ Append(s, e) \in Seq(S)
         /\ Len(s) \in Nat /\ Len(Append(s, e)) = Len(s) + 1
         /\ DOMAIN s = 1..Len(s) /\ DOMAIN Append(s, e) = 1..(Len(s) + 1)
         /\ \A i \in DOMAIN s : Append(s, e)[i] = s[i]
         /\ Append(s, e)[Len(s) + 1] = e
OBVIOUS

LEMMA TailElements ==
  ASSUME NEW S, NEW s \in Seq(S), s # <<>>
  PROVE  /\ Tail(s) \in Seq(S) /\ Head(s) = s[1] /\ s[1] \in S
         /\ Len(s) \in Nat \ {0} /\ 1 \in DOMAIN s
         /\ DOMAIN s = 1..Len(s) /\ DOMAIN Tail(s) = 1..(Len(s) - 1)
         /\ \A i \in DOMAIN Tail(s) : i + 1 \in DOMAIN s /\ Tail(s)[i] = s[i + 1]
         /\ \A i \in DOMAIN s \ {1} :
              i - 1 \in DOMAIN Tail(s) /\ Tail(s)[i - 1] = s[i]
OBVIOUS

(* A table with one entry replaced.                                        *)
LEMMA TableUpdate ==
  ASSUME NEW R, NEW C, NEW V, NEW t \in [R -> [C -> V]],
         NEW r \in R, NEW c \in C, NEW v \in V
  PROVE  /\ [t EXCEPT ![r][c] = v] \in [R -> [C -> V]]
         /\ [t EXCEPT ![r][c] = v][r][c] = v
         /\ \A x \in R, y \in C : x # r \/ y # c =>
              [t EXCEPT ![r][c] = v][x][y] = t[x][y]
OBVIOUS

(* A task is a request and a message; the absent task is none.             *)
LEMMA TaskParts ==
  /\ NoTask \notin Task /\ NoTask.msg = 0
  /\ \A t \in Task : t.req \in Request /\ t.msg \in Message
  /\ \A r \in Request : r[1] \in Channels /\ r[2] \in 1..MaxReqs
  /\ \A r \in Request : r = <<r[1], r[2]>>
  /\ TheWorker \in Worker
<1>1. NoTask \notin Task /\ NoTask.msg = 0
  BY DEF NoTask, Task, Message
<1>2. \A t \in Task : t.req \in Request /\ t.msg \in Message
  BY DEF Task
<1>3. \A r \in Request : /\ r[1] \in Channels /\ r[2] \in 1..MaxReqs
                         /\ r = <<r[1], r[2]>>
  BY DEF Request
<1>4. TheWorker \in Worker
  BY PipelineAssumption DEF TheWorker, Worker
<1> QED BY <1>1, <1>2, <1>3, <1>4

-----------------------------------------------------------------------------
(* The pool of messages.                                                   *)

(* There is a message for every request that a channel may still read: the *)
(* bound on the messages never binds.                                      *)
LEMMA MessageLeft ==
  ASSUME TypeOK, Known, Distinct, NEW c \in Channels, read[c] < MaxReqs
  PROVE  /\ (CHOOSE x \in Message \ used : TRUE) \in Message \ used
         /\ <<c, read[c] + 1>> \in Request \ asked
<1>1. <<c, read[c] + 1>> \in Request \ asked
  BY PipelineAssumption DEF TypeOK, Known, Request
<1>2. IsFiniteSet(1..MaxReqs) /\ Cardinality(1..MaxReqs) = MaxReqs
  BY FS_Interval, PipelineAssumption
<1>3. /\ IsFiniteSet(Request)
      /\ Cardinality(Request) = Cardinality(Channels) * MaxReqs
  BY <1>2, FS_Product, PipelineAssumption DEF Request
<1>4. IsFiniteSet(asked) /\ Cardinality(asked) < Cardinality(Request)
  <2>1. asked \in SUBSET Request /\ asked # Request
    BY <1>1 DEF TypeOK
  <2>2. /\ IsFiniteSet(asked) /\ Cardinality(asked) <= Cardinality(Request)
        /\ Cardinality(asked) # Cardinality(Request)
    BY <2>1, <1>3, FS_Subset
  <2>3. Cardinality(asked) \in Nat /\ Cardinality(Request) \in Nat
    BY <2>2, <1>3, FS_CardinalityType
  <2> QED BY <2>2, <2>3
<1>5. IsFiniteSet(used) /\ Cardinality(used) <= Cardinality(asked)
  <2>1. [m \in used |-> content[m]] \in Injection(used, asked)
    BY DEF Distinct, Injection, IsInjective
  <2> QED BY <2>1, <1>4, FS_Injection
<1>6. used # Message
  <2>1. Cardinality(Channels) * MaxReqs \in Nat
    BY <1>3, FS_CardinalityType
  <2>2. Cardinality(Message) = Cardinality(Request)
    BY <2>1, <1>3, FS_Interval DEF Message
  <2>3. Cardinality(used) < Cardinality(Message)
    BY <2>2, <1>3, <1>4, <1>5, FS_CardinalityType
  <2> QED BY <2>3, <1>5, FS_CardinalityType
<1>7. \E x : x \in Message \ used
  BY <1>6 DEF TypeOK
<1> QED BY <1>1, <1>7

-----------------------------------------------------------------------------
(* What each step does to the one worker's stations.                       *)

(* onMsg: a fresh message with a new request goes to the end of the        *)
(* channel's queue (GameServerNetWorkHandler.cpp:43-45).                   *)
LEMMA DispatchEffect ==
  ASSUME TypeOK, Known, Distinct, NEW c \in Channels, Dispatch(c)
  PROVE  \E m \in Message \ used : \E r \in Request \ asked :
           /\ r = <<c, read[c] + 1>>
           /\ read[c] \in Nat /\ read' = [read EXCEPT ![c] = read[c] + 1]
           /\ used' = used \cup {m}
           /\ content' = [content EXCEPT ![m] = r]
           /\ asked' = asked \cup {r}
           /\ [req |-> r, msg |-> m] \in Task
           /\ queue' = [queue EXCEPT ![TheWorker][LoopOf[c]] =
                          Append(Q(LoopOf[c]), [req |-> r, msg |-> m])]
           /\ read[c] < MaxReqs
           /\ UNCHANGED <<open, worker, inbox, written>>
<1> DEFINE r == <<c, read[c] + 1>>
           m == CHOOSE x \in Message \ used : TRUE
<1>1. read[c] < MaxReqs /\ read[c] \in Nat
  BY PipelineAssumption DEF Dispatch, Reads, TypeOK
<1>2. m \in Message \ used /\ r \in Request \ asked
  BY <1>1, MessageLeft
<1>3. [req |-> r, msg |-> m] \in Task
  BY <1>2 DEF Task
<1>4. queue' = [queue EXCEPT ![TheWorker][LoopOf[c]] =
                  Append(Q(LoopOf[c]), [req |-> r, msg |-> m])]
  BY TaskParts, PipelineAssumption
  DEF Dispatch, Q, TheWorker, WorkerFor, TypeOK
<1>5. /\ used' = used \cup {m} /\ content' = [content EXCEPT ![m] = r]
      /\ asked' = asked \cup {r} /\ read' = [read EXCEPT ![c] = read[c] + 1]
      /\ UNCHANGED <<open, worker, inbox, written>>
  BY DEF Dispatch, Reads, TypeOK
<1> HIDE DEF r, m
<1>6. /\ r = <<c, read[c] + 1>>
  BY DEF r
<1> QED BY <1>1, <1>2, <1>3, <1>4, <1>5, <1>6

(* Only the one worker takes, handles or returns a task.                   *)
LEMMA OnlyTheWorker ==
  ASSUME TypeOK, SoleWorker, NEW w \in Worker,
         \/ \E l \in Loops : Take(w, l)
         \/ Handle(w) \/ Return(w)
         \/ \E l \in Loops : Reply(l, w)
  PROVE  w = TheWorker
<1>1. ASSUME NEW l \in Loops, Take(w, l) \/ Reply(l, w) PROVE w = TheWorker
  <2>1. queue[w][l] # <<>> \/ inbox[l][w] # <<>>
    BY <1>1 DEF Take, Reply
  <2> QED BY <2>1 DEF SoleWorker
<1>2. ASSUME Handle(w) \/ Return(w) PROVE w = TheWorker
  <2>1. stage[w] = "run" \/ stage[w] = "return"
    BY <1>2 DEF Handle, Return
  <2> QED BY <2>1 DEF SoleWorker
<1> QED BY <1>1, <1>2

(* thread_func: the task at the head of a loop's queue becomes the         *)
(* worker's.                                                               *)
LEMMA TakeEffect ==
  ASSUME TypeOK, SoleWorker, NEW w \in Worker, NEW l \in Loops, Take(w, l)
  PROVE  /\ w = TheWorker /\ Q(l) \in Seq(Task) /\ Q(l) # <<>>
         /\ J = NoTask /\ J' = Q(l)[1] /\ J' \in Task
         /\ stage[TheWorker] = "idle" /\ stage' = [stage EXCEPT ![w] = "run"]
         /\ queue' = [queue EXCEPT ![w][l] = Tail(Q(l))]
         /\ job' = [job EXCEPT ![w] = Q(l)[1]]
         /\ Q(l)' = Tail(Q(l)) /\ \A k \in Loops \ {l} : Q(k)' = Q(k)
         /\ \A k \in Loops : B(k)' = B(k)
         /\ stage'[TheWorker] = "run"
         /\ UNCHANGED <<network, pool, isrun, inbox, history>>
<1>1. w = TheWorker
  BY OnlyTheWorker
<1>2. /\ stage[w] = "idle" /\ queue[w][l] # <<>>
      /\ queue' = [queue EXCEPT ![w][l] = Tail(queue[w][l])]
      /\ job' = [job EXCEPT ![w] = Head(queue[w][l])]
      /\ stage' = [stage EXCEPT ![w] = "run"]
      /\ UNCHANGED <<network, pool, isrun, inbox, history>>
  BY DEF Take, TypeOK
<1>3. queue[w][l] \in Seq(Task) /\ job[w] = NoTask
  BY <1>2 DEF TypeOK
<1>4. Head(queue[w][l]) = queue[w][l][1] /\ queue[w][l][1] \in Task
  BY <1>2, <1>3, TailElements
<1>5. /\ queue'[w][l] = Tail(queue[w][l])
      /\ \A k \in Loops \ {l} : queue'[w][k] = queue[w][k]
  BY <1>2 DEF TypeOK
<1>6. job'[w] = queue[w][l][1] /\ stage'[w] = "run"
  BY <1>2, <1>4 DEF TypeOK
<1>7. inbox' = inbox
  BY <1>2
<1>8. /\ Q(l) \in Seq(Task) /\ Q(l) # <<>> /\ Q(l)' = Tail(Q(l))
      /\ \A k \in Loops \ {l} : Q(k)' = Q(k)
      /\ \A k \in Loops : B(k)' = B(k)
  BY <1>1, <1>2, <1>3, <1>5, <1>7 DEF Q, B
<1>9. J = NoTask /\ J' = Q(l)[1] /\ J' \in Task
  BY <1>1, <1>3, <1>4, <1>6 DEF Q, J
<1>10. /\ queue' = [queue EXCEPT ![w][l] = Tail(Q(l))]
       /\ job' = [job EXCEPT ![w] = Q(l)[1]]
  BY <1>1, <1>2, <1>4 DEF Q
<1> QED BY <1>1, <1>2, <1>6, <1>8, <1>9, <1>10

(* The handler's reply goes to the end of the loop's queue.                *)
LEMMA HandleEffect ==
  ASSUME TypeOK, SoleWorker, NEW w \in Worker, Handle(w)
  PROVE  LET l == LoopOf[J.req[1]] IN
         /\ w = TheWorker /\ l \in Loops /\ J \in Task /\ J.req \in Request
         /\ stage[TheWorker] = "run" /\ stage' = [stage EXCEPT ![w] = "return"]
         /\ inbox' = [inbox EXCEPT ![l][w] = Append(B(l), J.req)]
         /\ B(l)' = Append(B(l), J.req) /\ \A k \in Loops \ {l} : B(k)' = B(k)
         /\ \A k \in Loops, v \in Worker \ {w} : inbox'[k][v] = inbox[k][v]
         /\ B(l) \in Seq(Request)
         /\ J' = J /\ \A k \in Loops : Q(k)' = Q(k)
         /\ stage'[TheWorker] = "return"
         /\ UNCHANGED <<network, queue, pool, job, isrun, history>>
<1> DEFINE l == LoopOf[J.req[1]]
<1>1. w = TheWorker
  BY OnlyTheWorker
<1>2. /\ stage[w] = "run" /\ stage' = [stage EXCEPT ![w] = "return"]
      /\ inbox' = [inbox EXCEPT ![l][w] = Append(inbox[l][w], job[w].req)]
      /\ UNCHANGED <<network, queue, pool, job, isrun, history>>
  BY <1>1 DEF Handle, J, TypeOK
<1>3. job[w] \in Task
  BY <1>2 DEF TypeOK
<1>4. l \in Loops /\ job[w].req \in Request
  BY <1>1, <1>3, TaskParts, PipelineAssumption, SMTT(30) DEF J
<1>5. /\ inbox'[l][w] = Append(inbox[l][w], job[w].req)
      /\ \A k \in Loops \ {l} : inbox'[k][w] = inbox[k][w]
      /\ \A k \in Loops, v \in Worker \ {w} : inbox'[k][v] = inbox[k][v]
      /\ inbox[l][w] \in Seq(Request)
  BY <1>2, <1>4 DEF TypeOK
<1>6. stage'[w] = "return"
  BY <1>2 DEF TypeOK
<1> QED BY <1>1, <1>2, <1>3, <1>4, <1>5, <1>6 DEF Q, J, B

(* The message goes back to the pool and the worker to its poll.           *)
LEMMA ReturnEffect ==
  ASSUME TypeOK, SoleWorker, NEW w \in Worker, Return(w)
  PROVE  /\ w = TheWorker /\ J \in Task
         /\ stage[TheWorker] = "return" /\ stage' = [stage EXCEPT ![w] = "idle"]
         /\ job' = [job EXCEPT ![w] = NoTask]
         /\ used' = used \ {J.msg}
         /\ stage'[TheWorker] = "idle"
         /\ \A k \in Loops : Q(k)' = Q(k) /\ B(k)' = B(k)
         /\ UNCHANGED <<network, queue, content, isrun, inbox, history>>
<1>1. w = TheWorker
  BY OnlyTheWorker
<1> QED BY <1>1, SMTT(30) DEF Return, TypeOK, Q, J, B

(* The loop runs the task at the head of the worker's replies.             *)
LEMMA ReplyEffect ==
  ASSUME TypeOK, SoleWorker, NEW w \in Worker, NEW l \in Loops, Reply(l, w)
  PROVE  /\ w = TheWorker /\ B(l) \in Seq(Request) /\ B(l) # <<>>
         /\ B(l)[1] \in Request
         /\ inbox' = [inbox EXCEPT ![l][w] = Tail(B(l))]
         /\ B(l)' = Tail(B(l)) /\ \A k \in Loops \ {l} : B(k)' = B(k)
         /\ \A k \in Loops, v \in Worker \ {w} : inbox'[k][v] = inbox[k][v]
         /\ \/ UNCHANGED written
            \/ written' = [written EXCEPT ![B(l)[1][1]] =
                             Append(written[B(l)[1][1]], B(l)[1][2])]
         /\ J' = J /\ \A k \in Loops : Q(k)' = Q(k)
         /\ UNCHANGED <<network, queue, pool, worker, asked>>
<1>1. w = TheWorker
  BY OnlyTheWorker
<1>2. /\ inbox[l][w] # <<>>
      /\ inbox' = [inbox EXCEPT ![l][w] = Tail(inbox[l][w])]
      /\ UNCHANGED <<network, queue, pool, worker, asked>>
  BY DEF Reply, TypeOK
<1>3. inbox[l][w] \in Seq(Request)
  BY DEF TypeOK
<1>4. Head(inbox[l][w]) = inbox[l][w][1] /\ inbox[l][w][1] \in Request
  BY <1>2, <1>3, TailElements
<1>5. LET r == inbox[l][w][1] IN
      \/ UNCHANGED written
      \/ written' = [written EXCEPT ![r[1]] = Append(written[r[1]], r[2])]
  BY <1>4, TaskParts DEF Reply, TypeOK
<1>6. /\ inbox'[l][w] = Tail(inbox[l][w])
      /\ \A k \in Loops \ {l} : inbox'[k][w] = inbox[k][w]
      /\ \A k \in Loops, v \in Worker \ {w} : inbox'[k][v] = inbox[k][v]
  BY <1>2 DEF TypeOK
<1> QED BY <1>1, <1>2, <1>3, <1>4, <1>5, <1>6 DEF Q, J, B, worker

(* A request that finds no handler, a channel that closes, and a pool that *)
(* stops move nothing along the way.                                       *)
Quiet ==
  /\ \A c \in Channels : read'[c] >= read[c]
  /\ UNCHANGED <<queue, pool, stage, job, inbox, history>>

LEMMA QuietSteps ==
  ASSUME TypeOK,
         \/ \E c \in Channels : Ignore(c) \/ Close(c)
         \/ Exit \/ UNCHANGED vars
  PROVE  Quiet
<1>1. ASSUME NEW c \in Channels, Ignore(c) PROVE Quiet
  BY <1>1, PipelineAssumption
  DEF Ignore, Reads, Quiet, worker, TypeOK
<1>2. ASSUME NEW c \in Channels, Close(c) PROVE Quiet
  BY <1>2, PipelineAssumption DEF Close, Quiet, worker, TypeOK
<1>3. ASSUME Exit PROVE Quiet
  BY <1>3, PipelineAssumption DEF Exit, Quiet, network, TypeOK
<1>4. ASSUME UNCHANGED vars PROVE Quiet
  BY <1>4, PipelineAssumption DEF vars, network, worker, Quiet, TypeOK
<1> QED BY <1>1, <1>2, <1>3, <1>4

(* The steps that move something.                                          *)
Moves ==
  \/ \E c \in Channels : Dispatch(c)
  \/ \E w \in Worker, l \in Loops : Take(w, l)
  \/ \E w \in Worker : Handle(w) \/ Return(w)
  \/ \E w \in Worker, l \in Loops : Reply(l, w)

LEMMA QuietOrMoves ==
  ASSUME TypeOK, [Next]_vars
  PROVE  Quiet \/ Moves
BY QuietSteps DEF Next, WorkerStep, LoopReply, Moves
(* The same by places: a new request is behind all of its queue.           *)
Queues(c, m, r) ==
  /\ r = <<c, read[c] + 1>> /\ read[c] \in Nat
  /\ read' = [read EXCEPT ![c] = read[c] + 1]
  /\ used' = used \cup {m} /\ content' = [content EXCEPT ![m] = r]
  /\ asked' = asked \cup {r}
  /\ \A l \in Loops : \A i \in DOMAIN Q(l)' :
       \/ i \in DOMAIN Q(l) /\ Q(l)'[i] = Q(l)[i]
       \/ /\ l = LoopOf[c] /\ i \notin DOMAIN Q(l)
          /\ \A j \in DOMAIN Q(l)' : j <= i
          /\ Q(l)'[i] = [req |-> r, msg |-> m]
  /\ \A l \in Loops : \A i \in DOMAIN Q(l) :
       i \in DOMAIN Q(l)' /\ Q(l)'[i] = Q(l)[i]
  /\ \E i \in DOMAIN Q(LoopOf[c])' : Q(LoopOf[c])'[i] = [req |-> r, msg |-> m]
  /\ LoopOf[c] \in Loops
  /\ \A l \in Loops : B(l)' = B(l)
  /\ J' = J /\ UNCHANGED <<open, worker, inbox, written>>

LEMMA DispatchPlaces ==
  ASSUME TypeOK, Known, Distinct, NEW c \in Channels, Dispatch(c)
  PROVE  \E m \in Message \ used, r \in Request \ asked : Queues(c, m, r)
<1>1. PICK m \in Message \ used, r \in Request \ asked :
        /\ r = <<c, read[c] + 1>> /\ read[c] \in Nat
        /\ read' = [read EXCEPT ![c] = read[c] + 1]
        /\ used' = used \cup {m} /\ content' = [content EXCEPT ![m] = r]
        /\ asked' = asked \cup {r}
        /\ [req |-> r, msg |-> m] \in Task
        /\ queue' = [queue EXCEPT ![TheWorker][LoopOf[c]] =
                       Append(Q(LoopOf[c]), [req |-> r, msg |-> m])]
        /\ UNCHANGED <<open, worker, inbox, written>>
  BY DispatchEffect
<1> DEFINE L == LoopOf[c]
           e == [req |-> r, msg |-> m]
<1>2. L \in Loops /\ Q(L) \in Seq(Task)
  BY TaskParts, PipelineAssumption DEF TypeOK, Q
<1>3. Q(L)' = Append(Q(L), e) /\ \A l \in Loops \ {L} : Q(l)' = Q(l)
  BY <1>1, <1>2, TaskParts DEF TypeOK, Q, TheWorker
<1>4. /\ DOMAIN Q(L) = 1..Len(Q(L)) /\ Len(Q(L)) \in Nat
      /\ DOMAIN Q(L)' = 1..(Len(Q(L)) + 1)
      /\ \A i \in DOMAIN Q(L) : Q(L)'[i] = Q(L)[i]
      /\ Q(L)'[Len(Q(L)) + 1] = e
  BY <1>1, <1>2, <1>3, AppendElements
<1> HIDE DEF L, e
<1>5. /\ \A i \in DOMAIN Q(L)' :
           \/ i \in DOMAIN Q(L) /\ Q(L)'[i] = Q(L)[i]
           \/ /\ i \notin DOMAIN Q(L) /\ \A j \in DOMAIN Q(L)' : j <= i
              /\ Q(L)'[i] = e
      /\ \A i \in DOMAIN Q(L) : i \in DOMAIN Q(L)' /\ Q(L)'[i] = Q(L)[i]
      /\ \E i \in DOMAIN Q(L)' : Q(L)'[i] = e
  BY <1>4
<1>6. (\A l \in Loops : B(l)' = B(l)) /\ J' = J
  BY <1>1 DEF B, J, TheWorker, worker
<1>7. /\ \A l \in Loops : \A i \in DOMAIN Q(l)' :
           \/ i \in DOMAIN Q(l) /\ Q(l)'[i] = Q(l)[i]
           \/ /\ l = L /\ i \notin DOMAIN Q(l)
              /\ \A j \in DOMAIN Q(l)' : j <= i
              /\ Q(l)'[i] = e
      /\ \A l \in Loops : \A i \in DOMAIN Q(l) :
           i \in DOMAIN Q(l)' /\ Q(l)'[i] = Q(l)[i]
  BY <1>3, <1>5
<1> QED
  <2> USE DEF L, e
  <2>1. \E i \in DOMAIN Q(L)' : Q(L)'[i] = [req |-> r, msg |-> m]
    BY <1>5
  <2>2. \A l \in Loops : \A i \in DOMAIN Q(l)' :
          \/ i \in DOMAIN Q(l) /\ Q(l)'[i] = Q(l)[i]
          \/ /\ l = LoopOf[c] /\ i \notin DOMAIN Q(l)
             /\ \A j \in DOMAIN Q(l)' : j <= i
             /\ Q(l)'[i] = [req |-> r, msg |-> m]
    BY <1>7
  <2>3. Queues(c, m, r)
    BY <1>1, <1>2, <1>6, <1>7, <2>1, <2>2 DEF Queues
  <2> QED BY <2>3

(* What is left of a queue has moved up by one.                            *)
LEMMA TakePlaces ==
  ASSUME TypeOK, SoleWorker, NEW w \in Worker, NEW l \in Loops, Take(w, l)
  PROVE  /\ 1 \in DOMAIN Q(l) /\ J' = Q(l)[1] /\ J = NoTask
         /\ \A k \in Loops : \A i \in DOMAIN Q(k)' :
              \/ k = l /\ i + 1 \in DOMAIN Q(k) /\ i \in Nat /\ i + 1 > 1
                 /\ Q(k)'[i] = Q(k)[i + 1]
              \/ k # l /\ i \in DOMAIN Q(k) /\ Q(k)'[i] = Q(k)[i]
         /\ \A i \in DOMAIN Q(l) \ {1} :
              i - 1 \in DOMAIN Q(l)' /\ Q(l)'[i - 1] = Q(l)[i]
         /\ \A k \in Loops \ {l} : Q(k)' = Q(k)
         /\ \A k \in Loops : B(k)' = B(k)
         /\ stage[TheWorker] = "idle" /\ stage'[TheWorker] = "run"
         /\ UNCHANGED <<network, pool, isrun, inbox, history>>
<1>1. /\ Q(l) \in Seq(Task) /\ Q(l) # <<>>
      /\ J' = Q(l)[1] /\ J = NoTask
      /\ Q(l)' = Tail(Q(l)) /\ \A k \in Loops \ {l} : Q(k)' = Q(k)
      /\ \A k \in Loops : B(k)' = B(k)
      /\ stage[TheWorker] = "idle" /\ stage'[TheWorker] = "run"
      /\ UNCHANGED <<network, pool, isrun, inbox, history>>
  BY TakeEffect
<1>2. /\ 1 \in DOMAIN Q(l) /\ Len(Q(l)) \in Nat
      /\ DOMAIN Q(l)' = 1..(Len(Q(l)) - 1)
      /\ \A i \in DOMAIN Q(l)' :
           i + 1 \in DOMAIN Q(l) /\ Q(l)'[i] = Q(l)[i + 1]
      /\ \A i \in DOMAIN Q(l) \ {1} :
           i - 1 \in DOMAIN Q(l)' /\ Q(l)'[i - 1] = Q(l)[i]
  BY <1>1, TailElements
<1>3. \A i \in DOMAIN Q(l)' : i \in Nat /\ i + 1 > 1
  BY <1>2
<1> QED BY <1>1, <1>2, <1>3

(* A reply goes behind all that its loop has to send.                      *)
LEMMA HandlePlaces ==
  ASSUME TypeOK, SoleWorker, NEW w \in Worker, Handle(w)
  PROVE  /\ J \in Task /\ J.req \in Request
         /\ \A l \in Loops : \A i \in DOMAIN B(l)' :
              \/ i \in DOMAIN B(l) /\ B(l)'[i] = B(l)[i]
              \/ /\ l = LoopOf[J.req[1]] /\ i \notin DOMAIN B(l)
                 /\ \A j \in DOMAIN B(l)' : j <= i
                 /\ B(l)'[i] = J.req
         /\ J' = J /\ \A k \in Loops : Q(k)' = Q(k)
         /\ stage[TheWorker] = "run" /\ stage'[TheWorker] = "return"
         /\ UNCHANGED <<network, queue, pool, job, isrun, history>>
<1> DEFINE L == LoopOf[J.req[1]]
<1>1. /\ L \in Loops /\ J \in Task /\ J.req \in Request
      /\ B(L) \in Seq(Request) /\ B(L)' = Append(B(L), J.req)
      /\ \A k \in Loops \ {L} : B(k)' = B(k)
      /\ J' = J /\ \A k \in Loops : Q(k)' = Q(k)
      /\ stage[TheWorker] = "run" /\ stage'[TheWorker] = "return"
      /\ UNCHANGED <<network, queue, pool, job, isrun, history>>
  BY HandleEffect
<1>2. /\ DOMAIN B(L) = 1..Len(B(L)) /\ Len(B(L)) \in Nat
      /\ DOMAIN B(L)' = 1..(Len(B(L)) + 1)
      /\ \A i \in DOMAIN B(L) : B(L)'[i] = B(L)[i]
      /\ B(L)'[Len(B(L)) + 1] = J.req
  BY <1>1, AppendElements
<1> HIDE DEF L
<1>3. \A i \in DOMAIN B(L)' :
        \/ i \in DOMAIN B(L) /\ B(L)'[i] = B(L)[i]
        \/ /\ i \notin DOMAIN B(L) /\ \A j \in DOMAIN B(L)' : j <= i
           /\ B(L)'[i] = J.req
  BY <1>2
<1> QED BY <1>1, <1>3 DEF L

(* A reply that is sent was the first; the others have moved up by one.    *)
LEMMA ReplyPlaces ==
  ASSUME TypeOK, SoleWorker, NEW w \in Worker, NEW l \in Loops, Reply(l, w)
  PROVE  /\ 1 \in DOMAIN B(l) /\ B(l)[1] \in Request
         /\ \A k \in Loops : \A i \in DOMAIN B(k)' :
              \/ k = l /\ i + 1 \in DOMAIN B(k) /\ i \in Nat /\ i + 1 > 1
                 /\ B(k)'[i] = B(k)[i + 1]
              \/ k # l /\ i \in DOMAIN B(k) /\ B(k)'[i] = B(k)[i]
         /\ \A c \in Channels : \A i \in DOMAIN written'[c] :
              \/ i \in DOMAIN written[c] /\ written'[c][i] = written[c][i]
              \/ /\ i \notin DOMAIN written[c]
                 /\ \A j \in DOMAIN written'[c] : j <= i
                 /\ B(l)[1] = <<c, written'[c][i]>>
         /\ J' = J /\ \A k \in Loops : Q(k)' = Q(k)
         /\ UNCHANGED <<network, queue, pool, worker, asked>>
<1>1. /\ B(l) \in Seq(Request) /\ B(l) # <<>> /\ B(l)[1] \in Request
      /\ B(l)' = Tail(B(l)) /\ \A k \in Loops \ {l} : B(k)' = B(k)
      /\ \/ UNCHANGED written
         \/ written' = [written EXCEPT ![B(l)[1][1]] =
                          Append(written[B(l)[1][1]], B(l)[1][2])]
      /\ J' = J /\ \A k \in Loops : Q(k)' = Q(k)
      /\ UNCHANGED <<network, queue, pool, worker, asked>>
  BY ReplyEffect
<1>2. /\ 1 \in DOMAIN B(l) /\ Len(B(l)) \in Nat
      /\ DOMAIN B(l)' = 1..(Len(B(l)) - 1)
      /\ \A i \in DOMAIN B(l)' :
           i + 1 \in DOMAIN B(l) /\ B(l)'[i] = B(l)[i + 1]
  BY <1>1, TailElements
<1>3. \A i \in DOMAIN B(l)' : i \in Nat /\ i + 1 > 1
  BY <1>2
<1>4. ASSUME NEW c \in Channels, NEW i \in DOMAIN written'[c]
      PROVE  \/ i \in DOMAIN written[c] /\ written'[c][i] = written[c][i]
             \/ /\ i \notin DOMAIN written[c]
                /\ \A j \in DOMAIN written'[c] : j <= i
                /\ B(l)[1] = <<c, written'[c][i]>>
  <2> DEFINE r == B(l)[1]
  <2>1. CASE written'[c] = written[c]
    BY <2>1
  <2>2. CASE written'[c] # written[c]
    <3>1. /\ r[1] \in Channels /\ r[2] \in 1..MaxReqs /\ r = <<r[1], r[2]>>
      BY <1>1, TaskParts
    <3>2. c = r[1] /\ written'[c] = Append(written[c], r[2])
      BY <2>2, <1>1, <3>1 DEF TypeOK
    <3>3. written[c] \in Seq(1..MaxReqs)
      BY DEF TypeOK
    <3> HIDE DEF r
    <3>4. /\ DOMAIN written[c] = 1..Len(written[c]) /\ Len(written[c]) \in Nat
          /\ DOMAIN written'[c] = 1..(Len(written[c]) + 1)
          /\ \A j \in DOMAIN written[c] : written'[c][j] = written[c][j]
          /\ written'[c][Len(written[c]) + 1] = r[2]
      BY <3>1, <3>2, <3>3, AppendElements
    <3>5. CASE i \in DOMAIN written[c]
      BY <3>4, <3>5
    <3>6. CASE i \notin DOMAIN written[c]
      <4>1. i = Len(written[c]) + 1 /\ \A j \in DOMAIN written'[c] : j <= i
        BY <3>4, <3>6
      <4> QED BY <4>1, <3>1, <3>2, <3>4, <3>6 DEF r
    <3> QED BY <3>5, <3>6
  <2> QED BY <2>1, <2>2
<1> QED BY <1>1, <1>2, <1>3, <1>4

-----------------------------------------------------------------------------
(* The conjuncts of the invariant, one at a time.                          *)

LEMMA TypeStep ==
  ASSUME IInv, [Next]_vars
  PROVE  TypeOK'
<1> USE DEF IInv
<1>1. ASSUME NEW c \in Channels, Ignore(c) \/ Close(c)
      PROVE  TypeOK'
  <2>1. read' \in [Channels -> 0..MaxReqs] /\ open' \subseteq Channels
    <3>1. ASSUME Ignore(c) PROVE read' \in [Channels -> 0..MaxReqs]
      BY <3>1, PipelineAssumption DEF TypeOK, Ignore, Reads
    <3>2. ASSUME Ignore(c) PROVE open' \subseteq Channels
      BY <3>2 DEF TypeOK, Ignore
    <3> QED BY <3>1, <3>2, <1>1 DEF TypeOK, Close
  <2>2. UNCHANGED <<queue, pool, worker, inbox, history>>
    BY <1>1 DEF Ignore, Close
  <2> QED BY <2>1, <2>2 DEF TypeOK, pool, worker, history
<1>2. ASSUME NEW c \in Channels, Dispatch(c)
      PROVE  TypeOK'
  <2>1. PICK m \in Message \ used, r \in Request \ asked :
          /\ r = <<c, read[c] + 1>> /\ read[c] < MaxReqs /\ read[c] \in Nat
          /\ read' = [read EXCEPT ![c] = read[c] + 1]
          /\ used' = used \cup {m}
          /\ content' = [content EXCEPT ![m] = r]
          /\ asked' = asked \cup {r}
          /\ [req |-> r, msg |-> m] \in Task
          /\ queue' = [queue EXCEPT ![TheWorker][LoopOf[c]] =
                         Append(Q(LoopOf[c]), [req |-> r, msg |-> m])]
          /\ UNCHANGED <<open, worker, inbox, written>>
    BY <1>2, DispatchEffect
  <2>2. read' \in [Channels -> 0..MaxReqs]
    BY <2>1, PipelineAssumption DEF TypeOK
  <2>3. queue' \in [Worker -> [Loops -> Seq(Task)]]
    <3>1. Q(LoopOf[c]) \in Seq(Task)
      BY TaskParts, PipelineAssumption DEF TypeOK, Q
    <3>2. Append(Q(LoopOf[c]), [req |-> r, msg |-> m]) \in Seq(Task)
      BY <2>1, <3>1, AppendElements
    <3>3. LoopOf[c] \in Loops /\ TheWorker \in Worker
      BY TaskParts, PipelineAssumption
    <3>4. queue \in [Worker -> [Loops -> Seq(Task)]]
      BY DEF TypeOK
    <3> QED BY <2>1, <3>2, <3>3, <3>4, TableUpdate
  <2>4. content' \in [Message -> Request \cup {<<>>}] /\ used' \subseteq Message
    BY <2>1 DEF TypeOK
  <2> QED BY <2>1, <2>2, <2>3, <2>4 DEF TypeOK, worker
<1>3. ASSUME NEW w \in Worker, NEW l \in Loops, Take(w, l)
      PROVE  TypeOK'
  <2>1. /\ Q(l) \in Seq(Task) /\ Q(l) # <<>> /\ J' \in Task
        /\ queue' = [queue EXCEPT ![w][l] = Tail(Q(l))]
        /\ job' = [job EXCEPT ![w] = Q(l)[1]] /\ J' = Q(l)[1]
        /\ stage' = [stage EXCEPT ![w] = "run"]
        /\ UNCHANGED <<network, pool, isrun, inbox, history>>
    BY <1>3, TakeEffect
  <2>2. queue' \in [Worker -> [Loops -> Seq(Task)]]
    BY <2>1, TailElements, TableUpdate DEF TypeOK
  <2>3. /\ stage' \in [Worker -> {"idle", "run", "return"}]
        /\ job' \in [Worker -> Task \cup {NoTask}]
        /\ \A v \in Worker : stage'[v] = "idle" <=> job'[v] = NoTask
    BY <2>1, TaskParts DEF TypeOK
  <2> QED BY <2>1, <2>2, <2>3 DEF TypeOK, network, pool, history
<1>4. ASSUME NEW w \in Worker, Handle(w)
      PROVE  TypeOK'
  <2>1. LET l == LoopOf[J.req[1]] IN
        /\ l \in Loops /\ J.req \in Request /\ B(l) \in Seq(Request)
        /\ w = TheWorker /\ stage[w] = "run"
        /\ stage' = [stage EXCEPT ![w] = "return"]
        /\ inbox' = [inbox EXCEPT ![l][w] = Append(B(l), J.req)]
        /\ UNCHANGED <<network, queue, pool, job, isrun, history>>
    BY <1>4, HandleEffect
  <2>2. inbox' \in [Loops -> [Worker -> Seq(Request)]]
    BY <2>1, AppendElements, TableUpdate DEF TypeOK
  <2>3. /\ stage' \in [Worker -> {"idle", "run", "return"}]
        /\ \A v \in Worker : stage'[v] = "idle" <=> job'[v] = NoTask
    BY <2>1 DEF TypeOK
  <2> QED BY <2>1, <2>2, <2>3 DEF TypeOK, network, pool, history
<1>5. ASSUME NEW w \in Worker, Return(w)
      PROVE  TypeOK'
  <2>1. /\ stage' = [stage EXCEPT ![w] = "idle"]
        /\ job' = [job EXCEPT ![w] = NoTask]
        /\ used' = used \ {J.msg}
        /\ UNCHANGED <<network, queue, content, isrun, inbox, history>>
    BY <1>5, ReturnEffect
  <2>2. /\ stage' \in [Worker -> {"idle", "run", "return"}]
        /\ job' \in [Worker -> Task \cup {NoTask}]
        /\ \A v \in Worker : stage'[v] = "idle" <=> job'[v] = NoTask
    BY <2>1 DEF TypeOK
  <2> QED BY <2>1, <2>2 DEF TypeOK, network, history
<1>6. ASSUME NEW w \in Worker, NEW l \in Loops, Reply(l, w)
      PROVE  TypeOK'
  <2>1. /\ B(l) \in Seq(Request) /\ B(l) # <<>> /\ B(l)[1] \in Request
        /\ inbox' = [inbox EXCEPT ![l][w] = Tail(B(l))]
        /\ \/ UNCHANGED written
           \/ written' = [written EXCEPT ![B(l)[1][1]] =
                            Append(written[B(l)[1][1]], B(l)[1][2])]
        /\ UNCHANGED <<network, queue, pool, worker, asked>>
    BY <1>6, ReplyEffect
  <2>2. inbox' \in [Loops -> [Worker -> Seq(Request)]]
    BY <2>1, TailElements, TableUpdate DEF TypeOK
  <2>3. written' \in [Channels -> Seq(1..MaxReqs)]
    <3>1. B(l)[1][1] \in Channels /\ B(l)[1][2] \in 1..MaxReqs
      BY <2>1, TaskParts
    <3>2. written[B(l)[1][1]] \in Seq(1..MaxReqs)
      BY <3>1 DEF TypeOK
    <3>3. Append(written[B(l)[1][1]], B(l)[1][2]) \in Seq(1..MaxReqs)
      BY <3>1, <3>2, AppendElements
    <3> QED BY <2>1, <3>1, <3>3 DEF TypeOK
  <2> QED BY <2>1, <2>2, <2>3 DEF TypeOK, network, pool, worker
<1>7. QED
  <2>1. CASE \E c \in Channels : Ignore(c) \/ Close(c)
    BY <2>1, <1>1
  <2>2. CASE Exit
    <3>1. isrun' \in [Worker -> BOOLEAN] /\ UNCHANGED <<read, open>>
          /\ UNCHANGED <<queue, pool, stage, job, inbox, history>>
      BY <2>2 DEF Exit, TypeOK, network
    <3> QED BY <3>1 DEF TypeOK, pool, history
  <2>3. CASE UNCHANGED vars
    BY <2>3 DEF TypeOK, vars, network, pool, worker, history
  <2> QED BY <1>2, <1>3, <1>4, <1>5, <1>6, <2>1, <2>2, <2>3
          DEF Next, WorkerStep, LoopReply

LEMMA SoleWorkerStep ==
  ASSUME IInv, [Next]_vars
  PROVE  SoleWorker'
<1> USE DEF IInv
<1>1. CASE Quiet
  BY <1>1 DEF Quiet, SoleWorker, TheWorker
<1>2. ASSUME NEW w \in Worker \ {TheWorker}, Moves
      PROVE  /\ stage'[w] = "idle"
             /\ \A l \in Loops : queue'[w][l] = <<>> /\ inbox'[l][w] = <<>>
  <2>0. /\ stage[w] = "idle"
        /\ \A l \in Loops : queue[w][l] = <<>> /\ inbox[l][w] = <<>>
    BY <1>2 DEF SoleWorker
  <2>1. ASSUME NEW c \in Channels, Dispatch(c)
        PROVE  \A l \in Loops : queue'[w][l] = queue[w][l]
    BY <2>1, DispatchEffect, TaskParts, PipelineAssumption, <1>2 DEF TypeOK
  <2>2. ASSUME NEW c \in Channels, Dispatch(c)
        PROVE  stage' = stage /\ inbox' = inbox
    BY <2>2 DEF Dispatch, worker
  <2>3. ASSUME NEW v \in Worker, NEW k \in Loops, Take(v, k)
        PROVE  /\ stage'[w] = stage[w] /\ inbox' = inbox
               /\ \A l \in Loops : queue'[w][l] = queue[w][l]
    BY <2>3, TakeEffect, <1>2 DEF TypeOK
  <2>4. ASSUME NEW v \in Worker, Handle(v)
        PROVE  /\ stage'[w] = stage[w] /\ queue' = queue
               /\ \A l \in Loops : inbox'[l][w] = inbox[l][w]
    BY <2>4, HandleEffect, <1>2, ZenonT(60) DEF TypeOK
  <2>5. ASSUME NEW v \in Worker, Return(v)
        PROVE  stage'[w] = stage[w] /\ queue' = queue /\ inbox' = inbox
    BY <2>5, ReturnEffect, <1>2 DEF TypeOK
  <2>6. ASSUME NEW v \in Worker, NEW k \in Loops, Reply(k, v)
        PROVE  /\ stage' = stage /\ queue' = queue
               /\ \A l \in Loops : inbox'[l][w] = inbox[l][w]
    BY <2>6, ReplyEffect, <1>2 DEF TypeOK, worker
  <2> QED BY <2>0, <2>1, <2>2, <2>3, <2>4, <2>5, <2>6, <1>2 DEF Moves
<1> QED BY <1>1, <1>2, QuietOrMoves DEF SoleWorker, TheWorker
LEMMA QuietPlaces ==
  ASSUME Quiet
  PROVE  /\ \A l \in Loops : Q(l)' = Q(l) /\ B(l)' = B(l)
         /\ J' = J
         /\ \A c \in Channels : read'[c] >= read[c]
         /\ UNCHANGED <<stage, queue, job, inbox, used, content, asked, written>>
BY DEF Quiet, Q, B, J, TheWorker, pool, history

LEMMA BelongsStep ==
  ASSUME IInv, [Next]_vars
  PROVE  Belongs'
<1> USE DEF IInv
<1> SUFFICES ASSUME NEW l \in Loops
             PROVE  /\ \A i \in DOMAIN Q(l)' : LoopOf[Q(l)'[i].req[1]] = l
                    /\ \A i \in DOMAIN B(l)' : LoopOf[B(l)'[i][1]] = l
  BY DEF Belongs, Q, B
<1>0. /\ \A k \in Loops : \A i \in DOMAIN Q(k) : LoopOf[Q(k)[i].req[1]] = k
      /\ \A k \in Loops : \A i \in DOMAIN B(k) : LoopOf[B(k)[i][1]] = k
  BY DEF Belongs
<1>1. CASE Quiet
  BY <1>0, <1>1, QuietPlaces
<1>2. ASSUME NEW c \in Channels, Dispatch(c)
      PROVE  \A i \in DOMAIN Q(l)' : LoopOf[Q(l)'[i].req[1]] = l
  <2>1. PICK m \in Message \ used, r \in Request \ asked : Queues(c, m, r)
    BY <1>2, DispatchPlaces
  <2> QED BY <1>0, <2>1 DEF Queues
<1>3. ASSUME NEW c \in Channels, Dispatch(c)
      PROVE  \A i \in DOMAIN B(l)' : LoopOf[B(l)'[i][1]] = l
  <2>1. PICK m \in Message \ used, r \in Request \ asked : Queues(c, m, r)
    BY <1>3, DispatchPlaces
  <2> QED BY <1>0, <2>1 DEF Queues
<1>4. ASSUME NEW w \in Worker, NEW k \in Loops, Take(w, k)
      PROVE  /\ \A i \in DOMAIN Q(l)' : LoopOf[Q(l)'[i].req[1]] = l
             /\ \A i \in DOMAIN B(l)' : LoopOf[B(l)'[i][1]] = l
  BY <1>0, <1>4, TakePlaces
<1>5. ASSUME NEW w \in Worker, Handle(w)
      PROVE  /\ \A i \in DOMAIN Q(l)' : LoopOf[Q(l)'[i].req[1]] = l
             /\ \A i \in DOMAIN B(l)' : LoopOf[B(l)'[i][1]] = l
  BY <1>0, <1>5, HandlePlaces
<1>6. ASSUME NEW w \in Worker, Return(w)
      PROVE  /\ \A i \in DOMAIN Q(l)' : LoopOf[Q(l)'[i].req[1]] = l
             /\ \A i \in DOMAIN B(l)' : LoopOf[B(l)'[i][1]] = l
  BY <1>0, <1>6, ReturnEffect
<1>7. ASSUME NEW w \in Worker, NEW k \in Loops, Reply(k, w)
      PROVE  /\ \A i \in DOMAIN Q(l)' : LoopOf[Q(l)'[i].req[1]] = l
             /\ \A i \in DOMAIN B(l)' : LoopOf[B(l)'[i][1]] = l
  BY <1>0, <1>7, ReplyPlaces
<1> QED BY <1>1, <1>2, <1>3, <1>4, <1>5, <1>6, <1>7, QuietOrMoves DEF Moves

LEMMA KnownStep ==
  ASSUME IInv, [Next]_vars
  PROVE  Known'
<1> USE DEF IInv
<1>0. /\ \A r \in asked : r[1] \in Channels /\ r[2] \in Nat
      /\ read \in [Channels -> Nat] /\ read' \in [Channels -> Nat]
  BY TypeStep, TaskParts, PipelineAssumption DEF TypeOK
<1>1. CASE Quiet
  <2>1. \A r \in asked : r[2] <= read'[r[1]]
    BY <1>0, <1>1, QuietPlaces DEF Known
  <2> QED BY <2>1, <1>1, QuietPlaces DEF Known
<1>2. ASSUME NEW c \in Channels, Dispatch(c)
      PROVE  Known'
  <2>0. PICK m \in Message \ used, r \in Request \ asked : Queues(c, m, r)
    BY <1>2, DispatchPlaces
  <2>1. /\ r = <<c, read[c] + 1>> /\ read[c] \in Nat
        /\ read' = [read EXCEPT ![c] = read[c] + 1]
        /\ asked' = asked \cup {r}
        /\ \A l \in Loops : \A i \in DOMAIN Q(l)' :
             \/ i \in DOMAIN Q(l) /\ Q(l)'[i] = Q(l)[i]
             \/ Q(l)'[i] = [req |-> r, msg |-> m]
        /\ \A l \in Loops : B(l)' = B(l)
        /\ J' = J /\ UNCHANGED <<open, worker, inbox, written>>
    BY <2>0 DEF Queues
  <2>2. \A s \in asked' : s[2] <= read'[s[1]]
    <3>1. read'[c] = read[c] + 1
      BY <2>1, <1>0
    <3>2. r[1] = c /\ r[2] = read[c] + 1
      BY <2>1
    <3>3. ASSUME NEW s \in asked PROVE s[2] <= read'[s[1]]
      <4>1. s[2] <= read[s[1]] /\ s[1] \in Channels /\ s[2] \in Nat
        BY <1>0 DEF Known
      <4>2. read'[s[1]] = IF s[1] = c THEN read[c] + 1 ELSE read[s[1]]
        BY <2>1, <1>0, <4>1
      <4> QED BY <4>1, <4>2, <2>1
    <3> QED BY <3>1, <3>2, <3>3, <2>1
  <2>3. \A l \in Loops : /\ \A i \in DOMAIN Q(l)' : Q(l)'[i].req \in asked'
                         /\ \A i \in DOMAIN B(l)' : B(l)'[i] \in asked'
    BY <2>1 DEF Known
  <2>4. (stage[TheWorker] # "idle")' => J'.req \in asked'
    BY <2>1 DEF Known, worker, TheWorker
  <2>5. \A d \in Channels : \A i \in DOMAIN written'[d] :
          <<d, written'[d][i]>> \in asked'
    BY <2>1 DEF Known
  <2> QED BY <2>2, <2>3, <2>4, <2>5 DEF Known
<1>3. ASSUME NEW w \in Worker, NEW k \in Loops, Take(w, k)
      PROVE  Known'
  BY <1>3, TakePlaces DEF Known, network, history
<1>4. ASSUME NEW w \in Worker, Handle(w)
      PROVE  Known'
  BY <1>4, HandlePlaces DEF Known, network, history
<1>5. ASSUME NEW w \in Worker, Return(w)
      PROVE  Known'
  BY <1>5, ReturnEffect DEF Known, network, history
<1>6. ASSUME NEW w \in Worker, NEW k \in Loops, Reply(k, w)
      PROVE  Known'
  BY <1>6, ReplyPlaces DEF Known, network, worker
<1> QED BY <1>1, <1>2, <1>3, <1>4, <1>5, <1>6, QuietOrMoves DEF Moves

LEMMA CarriedStep ==
  ASSUME IInv, [Next]_vars
  PROVE  Carried'
<1> USE DEF IInv
<1>1. CASE Quiet
  BY <1>1, QuietPlaces DEF Carried, Holds
<1>2. ASSUME NEW c \in Channels, Dispatch(c)
      PROVE  Carried'
  <2>0. PICK m \in Message \ used, r \in Request \ asked : Queues(c, m, r)
    BY <1>2, DispatchPlaces
  <2>1. /\ used' = used \cup {m} /\ content' = [content EXCEPT ![m] = r]
        /\ \A l \in Loops : \A i \in DOMAIN Q(l)' :
             \/ i \in DOMAIN Q(l) /\ Q(l)'[i] = Q(l)[i]
             \/ Q(l)'[i] = [req |-> r, msg |-> m]
        /\ J' = J /\ UNCHANGED <<open, worker, inbox, written>>
    BY <2>0 DEF Queues
  <2>2. ASSUME NEW t, Holds(t) PROVE t.msg \in used' /\ content'[t.msg] = t.req
    BY <2>1, <2>2 DEF Holds, TypeOK
  <2>3. LET t == [req |-> r, msg |-> m]
        IN  t.msg \in used' /\ content'[t.msg] = t.req
    BY <2>1 DEF TypeOK
  <2> QED BY <2>1, <2>2, <2>3 DEF Carried, Holds, worker
<1>3. ASSUME NEW w \in Worker, NEW k \in Loops, Take(w, k)
      PROVE  Carried'
  BY <1>3, TakePlaces DEF Carried, Holds, pool
<1>4. ASSUME NEW w \in Worker, Handle(w)
      PROVE  Carried'
  BY <1>4, HandlePlaces DEF Carried, Holds, pool
<1>5. ASSUME NEW w \in Worker, Return(w)
      PROVE  Carried'
  <2>1. /\ J \in Task /\ stage[TheWorker] = "return"
        /\ stage'[TheWorker] = "idle" /\ used' = used \ {J.msg}
        /\ \A k \in Loops : Q(k)' = Q(k) /\ content' = content
    BY <1>5, ReturnEffect
  <2>2. ASSUME NEW l \in Loops, NEW i \in DOMAIN Q(l)
        PROVE  Q(l)[i].msg # J.msg
    <3>1. Q(l)[i].req \in Request /\ J.req \in Request
      BY <2>1, TaskParts DEF TypeOK, Known
    <3>2. Q(l)[i].req # J.req
      BY <2>1, <3>1, TaskParts DEF QueueInLine, Earlier
    <3> QED BY <2>1, <3>2 DEF Carried, Holds
  <2> QED BY <2>1, <2>2 DEF Carried, Holds
<1>6. ASSUME NEW w \in Worker, NEW k \in Loops, Reply(k, w)
      PROVE  Carried'
  BY <1>6, ReplyPlaces DEF Carried, Holds, pool, worker
<1> QED BY <1>1, <1>2, <1>3, <1>4, <1>5, <1>6, QuietOrMoves DEF Moves

LEMMA DistinctStep ==
  ASSUME IInv, [Next]_vars
  PROVE  Distinct'
<1> USE DEF IInv
<1>1. CASE Quiet
  BY <1>1, QuietPlaces DEF Distinct
<1>2. ASSUME NEW c \in Channels, Dispatch(c)
      PROVE  Distinct'
  <2>0. PICK m \in Message \ used, r \in Request \ asked : Queues(c, m, r)
    BY <1>2, DispatchPlaces
  <2>1. /\ used' = used \cup {m} /\ content' = [content EXCEPT ![m] = r]
        /\ asked' = asked \cup {r}
    BY <2>0 DEF Queues
  <2>2. content'[m] = r /\ \A n \in used : content'[n] = content[n]
    BY <2>1 DEF TypeOK
  <2> QED BY <2>1, <2>2 DEF Distinct
<1>3. CASE UNCHANGED <<content, asked>> /\ used' \subseteq used
  BY <1>3 DEF Distinct
<1>4. ASSUME NEW w \in Worker, NEW k \in Loops, Take(w, k) \/ Reply(k, w)
      PROVE  UNCHANGED <<content, asked>> /\ used' \subseteq used
  BY <1>4, SMTT(30) DEF Take, Reply, pool, history
<1>5. ASSUME NEW w \in Worker, Handle(w) \/ Return(w)
      PROVE  UNCHANGED <<content, asked>> /\ used' \subseteq used
  BY <1>5 DEF Handle, Return, pool, history
<1> QED BY <1>1, <1>2, <1>3, <1>4, <1>5, QuietOrMoves DEF Moves
(* A message out of the pool is in the worker's hands or in its queue.     *)
Owned(m) ==
  \/ J.msg = m
  \/ \E l \in Loops : \E i \in DOMAIN Q(l) : Q(l)[i].msg = m

LEMMA OwnedMeans ==
  ASSUME TypeOK, SoleWorker, NoMessageLeaks, NEW m \in used
  PROVE  Owned(m) /\ m # NoTask.msg
<1>1. m # NoTask.msg
  BY TaskParts DEF TypeOK, Message
<1>2. ASSUME NEW w \in Worker, job[w].msg = m
      PROVE  J.msg = m
  BY <1>1, <1>2 DEF SoleWorker, TypeOK, J
<1>3. ASSUME NEW w \in Worker, NEW l \in Loops,
             NEW i \in DOMAIN queue[w][l], queue[w][l][i].msg = m
      PROVE  w = TheWorker
  BY <1>3 DEF SoleWorker
<1> QED BY <1>1, <1>2, <1>3 DEF NoMessageLeaks, Owned, Q

LEMMA LeaksStep ==
  ASSUME IInv, [Next]_vars
  PROVE  NoMessageLeaks'
<1> USE DEF IInv
<1>0. \A m \in used : Owned(m) /\ m # NoTask.msg
  BY OwnedMeans
<1>a. (\A m \in used' : Owned(m)') => NoMessageLeaks'
  BY TaskParts DEF NoMessageLeaks, Owned, Q, J, TheWorker
<1>1. CASE Quiet
  BY <1>0, <1>a, <1>1, QuietPlaces DEF Owned
<1>2. ASSUME NEW c \in Channels, Dispatch(c), NEW n \in used'
      PROVE  Owned(n)'
  <2>0. PICK m \in Message \ used, r \in Request \ asked : Queues(c, m, r)
    BY <1>2, DispatchPlaces
  <2>1. /\ used' = used \cup {m}
        /\ \A l \in Loops : \A i \in DOMAIN Q(l) :
             i \in DOMAIN Q(l)' /\ Q(l)'[i] = Q(l)[i]
        /\ LoopOf[c] \in Loops /\ J' = J
        /\ \E i \in DOMAIN Q(LoopOf[c])' :
             Q(LoopOf[c])'[i] = [req |-> r, msg |-> m]
    BY <2>0 DEF Queues
  <2>2. CASE n = m
    BY <2>1, <2>2 DEF Owned
  <2>3. CASE n \in used
    BY <2>1, <2>3, <1>0 DEF Owned
  <2> QED BY <1>2, <2>1, <2>2, <2>3
<1>3. ASSUME NEW w \in Worker, NEW k \in Loops, Take(w, k), NEW m \in used'
      PROVE  Owned(m)'
  <2>1. /\ J' = Q(k)[1] /\ J = NoTask /\ used' = used
        /\ \A i \in DOMAIN Q(k) \ {1} :
             i - 1 \in DOMAIN Q(k)' /\ Q(k)'[i - 1] = Q(k)[i]
        /\ \A l \in Loops \ {k} : Q(l)' = Q(l)
    BY <1>3, TakePlaces DEF pool
  <2>2. Owned(m) /\ m # NoTask.msg
    BY <1>0, <1>3, <2>1
  <2>3. PICK l \in Loops : \E i \in DOMAIN Q(l) : Q(l)[i].msg = m
    BY <2>1, <2>2 DEF Owned
  <2>4. PICK i \in DOMAIN Q(l) : Q(l)[i].msg = m
    BY <2>3
  <2>5. CASE l = k /\ i = 1
    BY <2>1, <2>4, <2>5 DEF Owned
  <2>6. CASE l = k /\ i # 1
    BY <2>1, <2>4, <2>6 DEF Owned
  <2>7. CASE l # k
    BY <2>1, <2>4, <2>7 DEF Owned
  <2> QED BY <2>5, <2>6, <2>7
<1>4. ASSUME NEW w \in Worker, Handle(w)
      PROVE  used' = used /\ \A m \in used : Owned(m)'
  BY <1>0, <1>4, HandlePlaces DEF Owned, pool
<1>5. ASSUME NEW w \in Worker, Return(w)
      PROVE  \A m \in used' : Owned(m)'
  BY <1>0, <1>5, ReturnEffect DEF Owned
<1>6. ASSUME NEW w \in Worker, NEW k \in Loops, Reply(k, w)
      PROVE  used' = used /\ \A m \in used : Owned(m)'
  BY <1>0, <1>6, ReplyPlaces DEF Owned, pool
<1> QED BY <1>a, <1>1, <1>2, <1>3, <1>4, <1>5, <1>6, QuietOrMoves DEF Moves

(* A request that is read next is behind all that was asked.               *)
LEMMA NewIsLast ==
  ASSUME TypeOK, Known, NEW c \in Channels, read[c] \in Nat,
         NEW s \in asked
  PROVE  Earlier(s, <<c, read[c] + 1>>)
<1>1. s[2] <= read[s[1]] /\ s[2] \in Nat
  BY TaskParts, PipelineAssumption DEF Known, TypeOK
<1> QED BY <1>1 DEF Earlier

LEMMA QueueInLineStep ==
  ASSUME IInv, [Next]_vars
  PROVE  QueueInLine'
<1> USE DEF IInv
<1>0. \A l \in Loops : \A i, j \in DOMAIN Q(l) :
        i < j => Earlier(Q(l)[i].req, Q(l)[j].req)
  BY DEF QueueInLine
<1>1. CASE Quiet
  BY <1>1, QuietPlaces DEF QueueInLine, Earlier
<1>2. ASSUME NEW c \in Channels, Dispatch(c)
      PROVE  QueueInLine'
  <2>0. PICK m \in Message \ used, r \in Request \ asked : Queues(c, m, r)
    BY <1>2, DispatchPlaces
  <2>1. /\ r = <<c, read[c] + 1>> /\ read[c] \in Nat
        /\ \A l \in Loops : \A i \in DOMAIN Q(l)' :
             \/ i \in DOMAIN Q(l) /\ Q(l)'[i] = Q(l)[i]
             \/ /\ l = LoopOf[c] /\ i \notin DOMAIN Q(l)
                /\ \A j \in DOMAIN Q(l)' : j <= i
                /\ Q(l)'[i] = [req |-> r, msg |-> m]
        /\ J' = J /\ stage' = stage
    BY <2>0 DEF Queues, worker
  <2>2. \A s \in asked : Earlier(s, r)
    BY <2>1, NewIsLast
  <2>3. ASSUME NEW l \in Loops, NEW i \in DOMAIN Q(l)', NEW j \in DOMAIN Q(l)',
               i < j
        PROVE  Earlier(Q(l)'[i].req, Q(l)'[j].req)
    <3>1. i \in DOMAIN Q(l) /\ Q(l)'[i] = Q(l)[i]
      <4>1. i \in Nat /\ j \in Nat
        BY <2>3, TypeStep, TaskParts, SMTT(30) DEF TypeOK, Q, TheWorker
      <4> QED BY <2>1, <2>3, <4>1
    <3>2. Q(l)[i].req \in asked
      BY <3>1 DEF Known
    <3>3. CASE j \in DOMAIN Q(l) /\ Q(l)'[j] = Q(l)[j]
      BY <1>0, <2>3, <3>1, <3>3
    <3>4. CASE Q(l)'[j] = [req |-> r, msg |-> m]
      BY <2>2, <3>1, <3>2, <3>4
    <3> QED BY <2>1, <3>3, <3>4
  <2>4. ASSUME stage[TheWorker] # "idle",
               NEW l \in Loops, NEW i \in DOMAIN Q(l)'
        PROVE  Earlier(J.req, Q(l)'[i].req)
    <3>1. J.req \in asked
      BY <2>4 DEF Known
    <3>2. CASE i \in DOMAIN Q(l) /\ Q(l)'[i] = Q(l)[i]
      BY <2>4, <3>2 DEF QueueInLine
    <3>3. CASE Q(l)'[i] = [req |-> r, msg |-> m]
      BY <2>2, <3>1, <3>3
    <3> QED BY <2>1, <3>2, <3>3
  <2> QED BY <2>1, <2>3, <2>4 DEF QueueInLine, TheWorker, Earlier
<1>3. ASSUME NEW w \in Worker, NEW k \in Loops, Take(w, k)
      PROVE  QueueInLine'
  <2>1. /\ 1 \in DOMAIN Q(k) /\ J' = Q(k)[1]
        /\ \A l \in Loops : \A i \in DOMAIN Q(l)' :
             \/ l = k /\ i + 1 \in DOMAIN Q(l) /\ i \in Nat /\ i + 1 > 1
                /\ Q(l)'[i] = Q(l)[i + 1]
             \/ l # k /\ i \in DOMAIN Q(l) /\ Q(l)'[i] = Q(l)[i]
    BY <1>3, TakePlaces
  <2>2. ASSUME NEW l \in Loops, NEW i \in DOMAIN Q(l)', NEW j \in DOMAIN Q(l)',
               i < j
        PROVE  Earlier(Q(l)'[i].req, Q(l)'[j].req)
    BY <1>0, <2>1, <2>2
  <2>3. ASSUME NEW l \in Loops, NEW i \in DOMAIN Q(l)'
        PROVE  Earlier(J'.req, Q(l)'[i].req)
    <3>1. CASE l = k
      BY <1>0, <2>1, <3>1
    <3>2. CASE l # k
      <4>1. LoopOf[Q(k)[1].req[1]] = k /\ LoopOf[Q(l)'[i].req[1]] = l
        BY <2>1, <3>2 DEF Belongs
      <4> QED BY <2>1, <3>2, <4>1 DEF Earlier
    <3> QED BY <3>1, <3>2
  <2> QED BY <2>2, <2>3 DEF QueueInLine, Earlier
<1>4. ASSUME NEW w \in Worker, Handle(w)
      PROVE  QueueInLine'
  BY <1>4, HandlePlaces DEF QueueInLine, Earlier
<1>5. ASSUME NEW w \in Worker, Return(w)
      PROVE  QueueInLine'
  BY <1>5, ReturnEffect DEF QueueInLine, Earlier
<1>6. ASSUME NEW w \in Worker, NEW k \in Loops, Reply(k, w)
      PROVE  QueueInLine'
  BY <1>6, ReplyPlaces DEF QueueInLine, Earlier, worker
<1> QED BY <1>1, <1>2, <1>3, <1>4, <1>5, <1>6, QuietOrMoves DEF Moves
LEMMA InboxInLineStep ==
  ASSUME IInv, [Next]_vars
  PROVE  InboxInLine'
<1> USE DEF IInv
<1>0. \A l \in Loops :
        /\ \A i, j \in DOMAIN B(l) : i < j => Earlier(B(l)[i], B(l)[j])
        /\ \A i \in DOMAIN B(l) :
             /\ stage[TheWorker] = "run" => Earlier(B(l)[i], J.req)
             /\ \A k \in Loops : \A j \in DOMAIN Q(k) :
                  Earlier(B(l)[i], Q(k)[j].req)
  BY DEF InboxInLine
<1>1. CASE Quiet
  BY <1>0, <1>1, QuietPlaces DEF InboxInLine, Earlier
<1>2. ASSUME NEW c \in Channels, Dispatch(c)
      PROVE  InboxInLine'
  <2>0. PICK m \in Message \ used, r \in Request \ asked : Queues(c, m, r)
    BY <1>2, DispatchPlaces
  <2>1. /\ r = <<c, read[c] + 1>> /\ read[c] \in Nat
        /\ \A l \in Loops : \A i \in DOMAIN Q(l)' :
             \/ i \in DOMAIN Q(l) /\ Q(l)'[i] = Q(l)[i]
             \/ Q(l)'[i] = [req |-> r, msg |-> m]
        /\ \A l \in Loops : B(l)' = B(l)
        /\ J' = J /\ stage' = stage
    BY <2>0 DEF Queues, worker
  <2>2. \A s \in asked : Earlier(s, r)
    BY <2>1, NewIsLast
  <2>3. ASSUME NEW l \in Loops, NEW i \in DOMAIN B(l),
               NEW k \in Loops, NEW j \in DOMAIN Q(k)'
        PROVE  Earlier(B(l)[i], Q(k)'[j].req)
    <3>1. B(l)[i] \in asked
      BY DEF Known
    <3> QED BY <1>0, <2>1, <2>2, <3>1
  <2> QED BY <1>0, <2>1, <2>3 DEF InboxInLine, TheWorker, Earlier
<1>3. ASSUME NEW w \in Worker, NEW k \in Loops, Take(w, k)
      PROVE  InboxInLine'
  <2>1. /\ 1 \in DOMAIN Q(k) /\ J' = Q(k)[1]
        /\ \A l \in Loops : \A i \in DOMAIN Q(l)' :
             \/ i + 1 \in DOMAIN Q(l) /\ Q(l)'[i] = Q(l)[i + 1]
             \/ i \in DOMAIN Q(l) /\ Q(l)'[i] = Q(l)[i]
        /\ \A l \in Loops : B(l)' = B(l)
    BY <1>3, TakePlaces
  <2> QED BY <1>0, <2>1 DEF InboxInLine, Earlier
<1>4. ASSUME NEW w \in Worker, Handle(w)
      PROVE  InboxInLine'
  <2>1. /\ \A l \in Loops : \A i \in DOMAIN B(l)' :
             \/ i \in DOMAIN B(l) /\ B(l)'[i] = B(l)[i]
             \/ /\ l = LoopOf[J.req[1]] /\ i \notin DOMAIN B(l)
                /\ \A j \in DOMAIN B(l)' : j <= i
                /\ B(l)'[i] = J.req
        /\ J' = J /\ \A k \in Loops : Q(k)' = Q(k)
        /\ stage[TheWorker] = "run" /\ stage'[TheWorker] = "return"
    BY <1>4, HandlePlaces
  <2>2. ASSUME NEW l \in Loops, NEW i \in DOMAIN B(l)', NEW j \in DOMAIN B(l)',
               i < j
        PROVE  Earlier(B(l)'[i], B(l)'[j])
    <3>1. i \in Nat /\ j \in Nat
      <4>1. B(l)' \in Seq(Request)
        BY TypeStep, TaskParts DEF TypeOK, B, TheWorker
      <4> QED BY <4>1, <2>2
    <3>2. i \in DOMAIN B(l) /\ B(l)'[i] = B(l)[i]
      BY <2>1, <2>2, <3>1
    <3> QED BY <1>0, <2>1, <2>2, <3>2
  <2>3. ASSUME NEW l \in Loops, NEW i \in DOMAIN B(l)',
               NEW k \in Loops, NEW j \in DOMAIN Q(k)
        PROVE  Earlier(B(l)'[i], Q(k)[j].req)
    BY <1>0, <2>1 DEF QueueInLine
  <2> QED BY <2>1, <2>2, <2>3 DEF InboxInLine, TheWorker, Earlier
<1>5. ASSUME NEW w \in Worker, Return(w)
      PROVE  InboxInLine'
  BY <1>0, <1>5, ReturnEffect DEF InboxInLine, Earlier
<1>6. ASSUME NEW w \in Worker, NEW k \in Loops, Reply(k, w)
      PROVE  InboxInLine'
  <2>1. /\ \A l \in Loops : \A i \in DOMAIN B(l)' :
             \/ l = k /\ i + 1 \in DOMAIN B(l) /\ i \in Nat
                /\ B(l)'[i] = B(l)[i + 1]
             \/ l # k /\ i \in DOMAIN B(l) /\ B(l)'[i] = B(l)[i]
        /\ J' = J /\ \A l \in Loops : Q(l)' = Q(l)
        /\ stage' = stage
    BY <1>6, ReplyPlaces DEF worker
  <2>2. ASSUME NEW l \in Loops, NEW i \in DOMAIN B(l)', NEW j \in DOMAIN B(l)',
               i < j
        PROVE  Earlier(B(l)'[i], B(l)'[j])
    BY <1>0, <2>1, <2>2
  <2> QED BY <1>0, <2>1, <2>2 DEF InboxInLine, TheWorker, Earlier
<1> QED BY <1>1, <1>2, <1>3, <1>4, <1>5, <1>6, QuietOrMoves DEF Moves

LEMMA WrittenInLineStep ==
  ASSUME IInv, [Next]_vars
  PROVE  WrittenInLine'
<1> USE DEF IInv
<1>0. \A c \in Channels : \A i \in DOMAIN written[c] :
        /\ stage[TheWorker] = "run" => Earlier(<<c, written[c][i]>>, J.req)
        /\ \A l \in Loops :
             /\ \A j \in DOMAIN B(l) : Earlier(<<c, written[c][i]>>, B(l)[j])
             /\ \A j \in DOMAIN Q(l) : Earlier(<<c, written[c][i]>>, Q(l)[j].req)
  BY DEF WrittenInLine
<1>1. CASE Quiet
  BY <1>0, <1>1, QuietPlaces DEF WrittenInLine, Earlier
<1>2. ASSUME NEW c \in Channels, Dispatch(c)
      PROVE  WrittenInLine'
  <2>0. PICK m \in Message \ used, r \in Request \ asked : Queues(c, m, r)
    BY <1>2, DispatchPlaces
  <2>1. /\ r = <<c, read[c] + 1>> /\ read[c] \in Nat
        /\ \A l \in Loops : \A i \in DOMAIN Q(l)' :
             \/ i \in DOMAIN Q(l) /\ Q(l)'[i] = Q(l)[i]
             \/ Q(l)'[i] = [req |-> r, msg |-> m]
        /\ \A l \in Loops : B(l)' = B(l)
        /\ J' = J /\ stage' = stage /\ written' = written
    BY <2>0 DEF Queues, worker
  <2>2. \A s \in asked : Earlier(s, r)
    BY <2>1, NewIsLast
  <2>3. ASSUME NEW d \in Channels, NEW i \in DOMAIN written[d],
               NEW l \in Loops, NEW j \in DOMAIN Q(l)'
        PROVE  Earlier(<<d, written[d][i]>>, Q(l)'[j].req)
    <3>1. <<d, written[d][i]>> \in asked
      BY DEF Known
    <3> QED BY <1>0, <2>1, <2>2, <3>1
  <2> QED BY <1>0, <2>1, <2>3 DEF WrittenInLine, TheWorker, Earlier
<1>3. ASSUME NEW w \in Worker, NEW k \in Loops, Take(w, k)
      PROVE  WrittenInLine'
  <2>1. /\ 1 \in DOMAIN Q(k) /\ J' = Q(k)[1]
        /\ \A l \in Loops : \A i \in DOMAIN Q(l)' :
             \/ i + 1 \in DOMAIN Q(l) /\ Q(l)'[i] = Q(l)[i + 1]
             \/ i \in DOMAIN Q(l) /\ Q(l)'[i] = Q(l)[i]
        /\ \A l \in Loops : B(l)' = B(l)
        /\ written' = written
    BY <1>3, TakePlaces DEF history
  <2> QED BY <1>0, <2>1 DEF WrittenInLine, Earlier
<1>4. ASSUME NEW w \in Worker, Handle(w)
      PROVE  WrittenInLine'
  <2>1. /\ \A l \in Loops : \A i \in DOMAIN B(l)' :
             \/ i \in DOMAIN B(l) /\ B(l)'[i] = B(l)[i]
             \/ B(l)'[i] = J.req
        /\ J' = J /\ \A k \in Loops : Q(k)' = Q(k)
        /\ stage[TheWorker] = "run" /\ stage'[TheWorker] = "return"
        /\ written' = written
    BY <1>4, HandlePlaces DEF history
  <2> QED BY <1>0, <2>1 DEF WrittenInLine, Earlier
<1>5. ASSUME NEW w \in Worker, Return(w)
      PROVE  WrittenInLine'
  BY <1>0, <1>5, ReturnEffect DEF WrittenInLine, Earlier, history
<1>6. ASSUME NEW w \in Worker, NEW k \in Loops, Reply(k, w)
      PROVE  WrittenInLine'
  <2>1. /\ 1 \in DOMAIN B(k)
        /\ \A l \in Loops : \A i \in DOMAIN B(l)' :
             \/ l = k /\ i + 1 \in DOMAIN B(l) /\ i \in Nat /\ i + 1 > 1
                /\ B(l)'[i] = B(l)[i + 1]
             \/ l # k /\ i \in DOMAIN B(l) /\ B(l)'[i] = B(l)[i]
        /\ \A c \in Channels : \A i \in DOMAIN written'[c] :
             \/ i \in DOMAIN written[c] /\ written'[c][i] = written[c][i]
             \/ B(k)[1] = <<c, written'[c][i]>>
        /\ J' = J /\ \A l \in Loops : Q(l)' = Q(l)
        /\ stage' = stage
    BY <1>6, ReplyPlaces DEF worker
  <2>2. ASSUME NEW l \in Loops, NEW j \in DOMAIN B(l)'
        PROVE  Earlier(B(k)[1], B(l)'[j])
    <3>1. CASE l = k
      BY <2>1, <3>1 DEF InboxInLine
    <3>2. CASE l # k
      <4>1. LoopOf[B(k)[1][1]] = k /\ LoopOf[B(l)'[j][1]] = l
        BY <2>1, <3>2 DEF Belongs
      <4> QED BY <3>2, <4>1 DEF Earlier
    <3> QED BY <3>1, <3>2
  <2>3. ASSUME NEW c \in Channels, NEW i \in DOMAIN written'[c]
        PROVE  /\ stage[TheWorker] = "run" => Earlier(<<c, written'[c][i]>>, J.req)
               /\ \A l \in Loops :
                    /\ \A j \in DOMAIN B(l)' :
                         Earlier(<<c, written'[c][i]>>, B(l)'[j])
                    /\ \A j \in DOMAIN Q(l) :
                         Earlier(<<c, written'[c][i]>>, Q(l)[j].req)
    <3>1. CASE i \in DOMAIN written[c] /\ written'[c][i] = written[c][i]
      BY <1>0, <2>1, <3>1
    <3>2. CASE B(k)[1] = <<c, written'[c][i]>>
      BY <2>1, <2>2, <3>2 DEF InboxInLine
    <3> QED BY <2>1, <3>1, <3>2
  <2> QED BY <2>1, <2>3 DEF WrittenInLine, TheWorker, Earlier
<1> QED BY <1>1, <1>2, <1>3, <1>4, <1>5, <1>6, QuietOrMoves DEF Moves

LEMMA RepliesStep ==
  ASSUME IInv, [Next]_vars
  PROVE  RepliesInOrder'
<1> USE DEF IInv
<1>1. CASE written' = written
  BY <1>1 DEF RepliesInOrder
<1>2. ASSUME NEW w \in Worker, NEW k \in Loops, Reply(k, w)
      PROVE  RepliesInOrder'
  <2>1. /\ 1 \in DOMAIN B(k)
        /\ \A c \in Channels : \A i \in DOMAIN written'[c] :
             \/ i \in DOMAIN written[c] /\ written'[c][i] = written[c][i]
             \/ /\ i \notin DOMAIN written[c]
                /\ \A j \in DOMAIN written'[c] : j <= i
                /\ B(k)[1] = <<c, written'[c][i]>>
    BY <1>2, ReplyPlaces
  <2>2. ASSUME NEW c \in Channels,
               NEW i \in DOMAIN written'[c], NEW j \in DOMAIN written'[c], i < j
        PROVE  written'[c][i] < written'[c][j]
    <3>1. i \in Nat /\ j \in Nat
      BY TypeStep, SMTT(30) DEF TypeOK
    <3>2. i \in DOMAIN written[c] /\ written'[c][i] = written[c][i]
      BY <2>1, <2>2, <3>1
    <3>3. CASE j \in DOMAIN written[c] /\ written'[c][j] = written[c][j]
      BY <2>2, <3>2, <3>3 DEF RepliesInOrder
    <3>4. CASE B(k)[1] = <<c, written'[c][j]>>
      BY <2>1, <3>2, <3>4 DEF WrittenInLine, Earlier
    <3> QED BY <2>1, <3>3, <3>4
  <2> QED BY <2>2 DEF RepliesInOrder
<1>3. ASSUME NEW c \in Channels, Dispatch(c) PROVE written' = written
  BY <1>3 DEF Dispatch
<1>4. ASSUME NEW w \in Worker, Handle(w) \/ Return(w) PROVE written' = written
  BY <1>4 DEF Handle, Return, history
<1>5. ASSUME NEW w \in Worker, NEW l \in Loops, Take(w, l)
      PROVE  written' = written
  BY <1>5 DEF Take, history
<1>6. CASE Quiet
  BY <1>1, <1>6, QuietPlaces
<1> QED BY <1>1, <1>2, <1>3, <1>4, <1>5, <1>6, QuietOrMoves DEF Moves

-----------------------------------------------------------------------------
(* The theorems.                                                           *)

LEMMA InvInit == Init => IInv
<1> SUFFICES ASSUME Init PROVE IInv
  OBVIOUS
<1> USE DEF Init
<1>1. TypeOK
  BY PipelineAssumption, TaskParts DEF TypeOK
<1>2. /\ \A l \in Loops : Q(l) = <<>> /\ B(l) = <<>>
      /\ stage[TheWorker] = "idle"
  BY TaskParts DEF Q, B
<1>3. SoleWorker
  BY DEF SoleWorker
<1>4. Belongs /\ Known /\ Carried /\ Distinct /\ NoMessageLeaks
  BY <1>2 DEF Belongs, Known, Carried, Distinct, NoMessageLeaks
<1>5. QueueInLine /\ InboxInLine /\ WrittenInLine /\ RepliesInOrder
  BY <1>2 DEF QueueInLine, InboxInLine, WrittenInLine, RepliesInOrder
<1> QED BY <1>1, <1>3, <1>4, <1>5 DEF IInv

LEMMA InvStep == IInv /\ [Next]_vars => IInv'
<1> SUFFICES ASSUME IInv, [Next]_vars PROVE IInv'
  OBVIOUS
<1> QED BY TypeStep, SoleWorkerStep, BelongsStep, KnownStep, CarriedStep,
           DistinctStep, LeaksStep, QueueInLineStep, InboxInLineStep,
           WrittenInLineStep, RepliesStep DEF IInv

(* Every execution of the pipeline keeps the invariant                     *)
(* (GameServerNetWorkHandler.cpp:29-46, ThreadPool.cpp:23-72).             *)
THEOREM PipelineInvariant == Spec => []IInv
BY InvInit, InvStep, PTL DEF Spec

(* Tasks, messages and replies keep their types: in particular there is    *)
(* always a message left for a request, within the bound on requests       *)
(* (Dispatcher.h:45-73).                                                   *)
THEOREM PipelineTypes == Spec => []TypeOK
<1>1. IInv => TypeOK
  BY DEF IInv
<1> QED BY <1>1, PipelineInvariant, PTL

(* However requests cross the worker's queues and the loops', a channel's  *)
(* replies leave in the order its requests came in, each at most once      *)
(* (GameServerNetWorkHandler.cpp:43-45).                                   *)
THEOREM RepliesKeepOrder == Spec => []RepliesInOrder
<1>1. IInv => RepliesInOrder
  BY DEF IInv
<1> QED BY <1>1, PipelineInvariant, PTL

(* Whatever the number of workers, loops and channels, two handlers never  *)
(* run at the same time (ThreadPool.cpp:23-72, PlayerMgr's map).           *)
THEOREM HandlersExclude == Spec => []OneHandlerAtATime
<1>1. IInv => OneHandlerAtATime
  BY DEF IInv, SoleWorker, OneHandlerAtATime
<1> QED BY <1>1, PipelineInvariant, PTL

(* A handler sees the message of its own request: no message is reused     *)
(* while a task that holds it waits or runs (Dispatcher.h:45-73).          *)
THEOREM MessagesExclusive == Spec => []HandlerSeesItsMessage
<1>1. IInv => HandlerSeesItsMessage
  BY DEF IInv, SoleWorker, Carried, Holds, J, HandlerSeesItsMessage
<1> QED BY <1>1, PipelineInvariant, PTL

(* Every message out of the pool is with a task that will return it,       *)
(* whether or not its channel is still open (Dispatcher.h:66-73).          *)
THEOREM MessagesReturned == Spec => []NoMessageLeaks
<1>1. IInv => NoMessageLeaks
  BY DEF IInv
<1> QED BY <1>1, PipelineInvariant, PTL
=============================================================================
