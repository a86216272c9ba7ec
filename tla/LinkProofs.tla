----------------------------- MODULE LinkProofs -----------------------------
(***************************************************************************)
(* Theorems about Link: types, the descriptor of the accepted socket, and  *)
(* the idle times.                                                         *)
(***************************************************************************)
EXTENDS Link, SequenceTheorems, TLAPS

\* Who sends what: the gateway requests, the game server answers.
Directions ==
  /\ tasks["gate"] \in Seq(Requests) /\ wire["game"] \in Seq(Requests)
  /\ work["game"] \in Seq(Requests)
  /\ tasks["game"] \in Seq(Answers \cup {"accept"})
  /\ wire["gate"] \in Seq(Answers) /\ work["gate"] \in Seq(Answers)

Types == TypeOK /\ Directions

\* How far the accepted socket has come: nothing yet, waiting in the backlog,
\* on its way to the reactor, or at the reactor.
Untouched == st["game"] = "none" /\ tasks["game"] = <<>> /\ ~backlog

Handover ==
  /\ st["gate"] \in {"none", "connecting", "failed"} => Untouched
  /\ st["game"] = "none" =>
       /\ work = [s \in Sides |-> <<>>] /\ wire["gate"] = <<>> /\ ~greeted
       /\ \/ tasks["game"] = <<>>
          \/ tasks["game"] = <<"accept">> /\ ~backlog /\ sock = "open"
  /\ st["game"] # "none" => ~backlog /\ tasks["game"] \in Seq(Answers)
  /\ st["game"] = "open" => sock = "open"

\* No end has failed, closed or stopped so far.
Up == /\ st["gate"] = "open" /\ st["game"] \in {"none", "open"}
      /\ ~eof["gate"] /\ ~eof["game"] /\ ~hung

\* A request on its way, or its answer.
InFlight == \/ tasks["gate"] # <<>> \/ wire["game"] # <<>>
            \/ work["game"] # <<>> \/ tasks["game"] # <<>>
            \/ wire["gate"] # <<>>

Heard == greeted \/ work["gate"] # <<>>

\* Until the game server has opened its channel the handshake is on its way
\* and the socket waits somewhere.
Opening ==
  st["game"] = "none" => /\ tasks["gate"] # <<>> \/ wire["game"] # <<>>
                         /\ backlog \/ tasks["game"] # <<>>

\* A request is queued as soon as a firing finds sent above WriteIdle.
SentYoung == tasks["gate"] = <<>> => 0 <= sent /\ sent <= WriteIdle + phase

\* An answer makes rcvd younger than the request it answers; while one is
\* awaited, it was asked for at the last firing or the one before.
RcvdYoung ==
  Heard => \/ ~InFlight /\ rcvd <= sent
           \/ InFlight /\ rcvd <= WriteIdle + Period + phase
           \/ /\ InFlight /\ Period + phase <= waited
              /\ rcvd <= WriteIdle + 2 * Period + phase

\* The clocks while the connection is up.
Clocks == /\ phase \in 0..Period /\ Opening
          /\ InFlight => phase <= waited
          /\ SentYoung /\ RcvdYoung

ClocksInv == Up => Clocks

\* What the idle times and the delays have to satisfy.
Timing == /\ 0 < WriteIdle
          /\ MaxDelay < 2 * Period
          /\ WriteIdle + 2 * Period <= ReadIdle

-----------------------------------------------------------------------------
(* Taking from a queue and adding to one.                                  *)
LEMMA QueueFacts ==
  ASSUME NEW S, NEW q \in Seq(S)
  PROVE  /\ q # <<>> => Head(q) \in S /\ Tail(q) \in Seq(S)
         /\ \A x \in S : Append(q, x) \in Seq(S) /\ Append(q, x) # <<>>
         /\ \A T : S \subseteq T => q \in Seq(T)
         /\ <<>> \in Seq(S)
BY HeadTailProperties, AppendProperties, EmptySeq, SeqMonotonic

(* The variables that are not queues.                                      *)
Plain ==
  /\ st \in [Sides -> States] /\ phase \in NoTimer..Period
  /\ sent \in Ages /\ rcvd \in Ages /\ eof \in [Sides -> BOOLEAN]
  /\ backlog \in BOOLEAN
  /\ sock \in {"none", "open", "closed"}
  /\ temp \in {"none", "waiting", "closed"}
  /\ hung \in BOOLEAN /\ greeted \in BOOLEAN /\ alarm \in BOOLEAN

Queues ==
  /\ wire = [s \in Sides |-> wire[s]] /\ work = [s \in Sides |-> work[s]]
  /\ tasks = [s \in Sides |-> tasks[s]]
  /\ Directions

LEMMA TypesSplit == Types <=> Plain /\ Queues /\ waited \in 0..MaxDelay
<1>1. Requests \subseteq Messages /\ Answers \subseteq Messages
  BY DEF Messages
<1>2. Messages \subseteq Messages \cup {"accept"}
  OBVIOUS
<1>3. ASSUME Queues
      PROVE  /\ wire \in [Sides -> Seq(Messages)]
             /\ work \in [Sides -> Seq(Messages)]
             /\ tasks \in [Sides -> Seq(Messages \cup {"accept"})]
  <2>1. /\ wire["gate"] \in Seq(Messages) /\ wire["game"] \in Seq(Messages)
        /\ work["gate"] \in Seq(Messages) /\ work["game"] \in Seq(Messages)
        /\ tasks["gate"] \in Seq(Messages \cup {"accept"})
        /\ tasks["game"] \in Seq(Messages \cup {"accept"})
    BY <1>1, <1>2, <1>3, QueueFacts DEF Queues, Directions
  <2> QED BY <1>3, <2>1 DEF Queues, Sides
<1> QED BY <1>3 DEF Types, TypeOK, Plain, Queues

LEMMA StartTypes == Init => Types
<1> SUFFICES ASSUME Init PROVE Plain /\ Queues /\ waited \in 0..MaxDelay
  BY TypesSplit
<1> USE LinkAssumption
<1>1. Plain
  <2>1. st \in [Sides -> States] /\ eof \in [Sides -> BOOLEAN]
    BY DEF Init, States
  <2>2. phase \in NoTimer..Period /\ sent \in Ages /\ rcvd \in Ages
    BY DEF Init, Ages, Unset, Future, NoTimer
  <2> QED BY <2>1, <2>2 DEF Init, Plain
<1>2. Queues
  BY QueueFacts DEF Init, Queues, Directions, Sides
<1> QED BY <1>1, <1>2 DEF Init

-----------------------------------------------------------------------------
(* Every step of the program and of the world keeps the types.             *)
LEMMA PlainStep ==
  ASSUME Plain, ProgramStep \/ WorldStep \/ Tick
  PROVE  Plain'
<1> USE LinkAssumption DEF Plain, history, ages, accept, queues
<1>1. CASE Tick
  BY <1>1 DEF Tick, TempCloses, Older, Ages, Unset, Future, NoTimer
<1>2. CASE Connect \/ ConnectRefused \/ OnConnect \/ OnConnectFails
  <2>1. UNCHANGED <<ages, eof, sock, temp, hung, history>> /\ phase' \in {phase, 0}
    BY <1>2 DEF Connect, ConnectRefused, OnConnect, OnConnectFails
  <2>2. st' \in [Sides -> States]
    BY <1>2 DEF Connect, ConnectRefused, OnConnect, OnConnectFails, States
  <2>3. backlog' \in BOOLEAN
    BY <1>2 DEF Connect, ConnectRefused, OnConnect, OnConnectFails
  <2>4. phase' \in NoTimer..Period
    BY <2>1 DEF NoTimer
  <2> QED BY <2>1, <2>2, <2>3, <2>4
<1>3. CASE Accept \/ AcceptFails \/ OpenChannel
  BY <1>3 DEF Accept, AcceptFails, OpenChannel, States
<1>4. CASE TimerFires
  BY <1>4 DEF TimerFires, NoTimer, Expired
<1>5. ASSUME NEW s \in Sides, RunSend(s) \/ Receive(s) \/ Handle(s)
      PROVE  Plain'
  <2>1. UNCHANGED <<st, phase, eof, accept, hung, alarm>>
    BY <1>5 DEF RunSend, Receive, Handle
  <2>2. sent' \in {0, sent} /\ rcvd' \in {0, rcvd}
    BY <1>5 DEF RunSend, Receive, Handle
  <2>3. greeted' \in BOOLEAN
    BY <1>5 DEF RunSend, Receive, Handle
  <2> QED BY <2>1, <2>2, <2>3 DEF Ages
<1>6. ASSUME NEW s \in Sides, ReadEnd(s) \/ ReadZero(s)
      PROVE  Plain'
  BY <1>6 DEF ReadEnd, ReadZero, Close, States
<1>7. CASE Cut \/ Hang
  BY <1>7 DEF Cut, Hang
<1> QED BY <1>1, <1>2, <1>3, <1>4, <1>5, <1>6, <1>7 DEF ProgramStep, WorldStep

LEMMA QueuesStep ==
  ASSUME Queues, ProgramStep \/ WorldStep \/ Tick
  PROVE  Queues'
<1> USE DEF Queues, Directions, history, ages, accept, queues, Push
<1>1. CASE Tick \/ Connect \/ ConnectRefused
  BY <1>1 DEF Tick, Connect, ConnectRefused
<1>2. CASE OnConnect \/ OnConnectFails
  <2>1. Append(tasks["gate"], "HAND_SHAKE_REQ") \in Seq(Requests)
    BY QueueFacts DEF Requests
  <2> QED BY <1>2, <2>1 DEF OnConnect, OnConnectFails, Sides
<1>3. CASE Accept
  <2>1. Append(tasks["game"], "accept") \in Seq(Answers \cup {"accept"})
    BY QueueFacts
  <2> QED BY <1>3, <2>1 DEF Accept, Sides
<1>4. CASE AcceptFails \/ Cut \/ Hang
  <2>1. \A S : <<>> \in Seq(S)
    BY QueueFacts
  <2>2. CASE AcceptFails
    BY <2>2 DEF AcceptFails
  <2>3. CASE Cut
    BY <2>1, <2>3 DEF Cut, Sides
  <2>4. CASE Hang
    BY <2>1, <2>4 DEF Hang, Sides
  <2> QED BY <1>4, <2>2, <2>3, <2>4
<1>5. CASE OpenChannel
  <2>1. /\ Tail(tasks["game"]) \in Seq(Answers \cup {"accept"})
        /\ <<>> \in Seq(Requests)
    BY <1>5, QueueFacts DEF OpenChannel
  <2> QED BY <1>5, <2>1 DEF OpenChannel, Sides
<1>6. CASE TimerFires
  <2>1. Append(tasks["gate"], "HEART_BEAT_REQ") \in Seq(Requests)
    BY QueueFacts DEF Requests
  <2> QED BY <1>6, <2>1 DEF TimerFires, Sides
<1>7. CASE RunSend("gate")
  <2>1. /\ Tail(tasks["gate"]) \in Seq(Requests)
        /\ Append(wire["game"], Head(tasks["gate"])) \in Seq(Requests)
    BY <1>7, QueueFacts DEF RunSend
  <2> QED BY <1>7, <2>1 DEF RunSend, Sides, Peer
<1>8. CASE RunSend("game")
  <2>1. /\ Tail(tasks["game"]) \in Seq(Answers \cup {"accept"})
        /\ Head(tasks["game"]) \in Answers
    BY <1>8, QueueFacts DEF RunSend
  <2>2. Append(wire["gate"], Head(tasks["game"])) \in Seq(Answers)
    BY <2>1, QueueFacts
  <2> QED BY <1>8, <2>1, <2>2 DEF RunSend, Sides, Peer
<1>9. CASE Receive("gate")
  <2>1. /\ Tail(wire["gate"]) \in Seq(Answers)
        /\ Append(work["gate"], Head(wire["gate"])) \in Seq(Answers)
    BY <1>9, QueueFacts DEF Receive
  <2> QED BY <1>9, <2>1 DEF Receive, Sides
<1>10. CASE Receive("game")
  <2>1. /\ Tail(wire["game"]) \in Seq(Requests)
        /\ Append(work["game"], Head(wire["game"])) \in Seq(Requests)
    BY <1>10, QueueFacts DEF Receive
  <2> QED BY <1>10, <2>1 DEF Receive, Sides
<1>11. CASE Handle("gate")
  <2>1. Tail(work["gate"]) \in Seq(Answers) /\ Head(work["gate"]) \in Answers
    BY <1>11, QueueFacts DEF Handle
  <2>2. Head(work["gate"]) \notin Requests
    BY <2>1 DEF Answers, Requests
  <2> QED BY <1>11, <2>1, <2>2 DEF Handle, Sides
<1>12. CASE Handle("game")
  <2>1. Tail(work["game"]) \in Seq(Requests)
    BY <1>12, QueueFacts DEF Handle
  <2>2. AnswerTo(Head(work["game"])) \in Answers \cup {"accept"}
    BY DEF AnswerTo, Answers
  <2>3. Append(tasks["game"], AnswerTo(Head(work["game"])))
          \in Seq(Answers \cup {"accept"})
    BY <2>2, QueueFacts
  <2> QED BY <1>12, <2>1, <2>3 DEF Handle, Sides
<1>13. ASSUME NEW s \in Sides, Close(s) PROVE Queues'
  <2>1. \A S : <<>> \in Seq(S)
    BY QueueFacts
  <2> QED BY <1>13, <2>1 DEF Close, Sides
<1> QED BY <1>1, <1>2, <1>3, <1>4, <1>5, <1>6, <1>7, <1>8, <1>9, <1>10,
           <1>11, <1>12, <1>13
        DEF ProgramStep, WorldStep, Sides, ReadEnd, ReadZero

LEMMA TypesStep ==
  ASSUME Types, [Next]_vars
  PROVE  Types'
<1>1. CASE UNCHANGED vars
  BY <1>1, TypesSplit
     DEF vars, ages, queues, accept, history, Types, TypeOK, Directions
<1>2. CASE Next
  <2>1. Plain' /\ Queues'
    BY <1>2, TypesSplit, PlainStep, QueuesStep DEF Next
  <2>2. waited' \in 0..MaxDelay
    BY <1>2, TypesSplit, LinkAssumption DEF Next, Tick
  <2>3. (Plain /\ Queues /\ waited \in 0..MaxDelay)'
    BY <2>1, <2>2
  <2> QED BY <2>3, TypesSplit, PTL
<1> QED BY <1>1, <1>2

(* Every variable of a connection keeps its type, whatever the idle times, *)
(* and requests travel one way and answers the other                       *)
(* (SystemMsgHandler.cpp, GateClientNetWorkHandler.cpp:53-59).             *)
THEOREM LinkTypes == Spec => []TypeOK
<1>1. Spec => []Types
  BY StartTypes, TypesStep, PTL DEF Spec
<1>2. Types => TypeOK
  BY DEF Types
<1> QED BY <1>1, <1>2, PTL

-----------------------------------------------------------------------------
(* The temporary handle never closes the descriptor.                       *)
LEMMA TempStays == ~TempCloses
BY DEF TempCloses, TempTimerLoop, RunningLoops

LEMMA StartHandover == Init => Handover
BY DEF Init, Handover, Untouched, Sides

LEMMA HandoverStep ==
  ASSUME Types, Handover, [Next]_vars
  PROVE  Handover'
<1> USE DEF Handover, Untouched, history, ages, accept, queues, Push
<1>0. Queues /\ Plain
  BY TypesSplit
<1> USE <1>0 DEF Queues, Directions, Plain
<1>1. CASE UNCHANGED vars
  BY <1>1 DEF vars
<1>2. CASE Tick
  BY <1>2, TempStays DEF Tick
<1>3. CASE Connect \/ ConnectRefused \/ OnConnect \/ OnConnectFails
  BY <1>3 DEF Connect, ConnectRefused, OnConnect, OnConnectFails, Sides
<1>4. CASE Accept
  <2>1. st["game"] = "none" /\ tasks["game"] = <<>>
    BY <1>4 DEF Accept
  <2>2. tasks' = [tasks EXCEPT !["game"] = <<"accept">>]
    <3>1. Append(<<>>, "accept") = <<"accept">>
      OBVIOUS
    <3>2. tasks' = [tasks EXCEPT !["game"] = Append(tasks["game"], "accept")]
      BY <1>4 DEF Accept
    <3> QED BY <2>1, <3>1, <3>2
  <2> QED BY <1>4, <2>1, <2>2 DEF Accept, Sides
<1>5. CASE AcceptFails \/ Cut
  BY <1>5 DEF AcceptFails, Cut, Sides
<1>6. CASE Hang
  <2>1. <<>> \in Seq(Answers)
    BY QueueFacts
  <2> QED BY <1>6, <2>1 DEF Hang, Sides
<1>7. CASE OpenChannel
  <2>1. tasks["game"] # <<>> /\ Head(tasks["game"]) = "accept"
    BY <1>7 DEF OpenChannel
  <2>2. "accept" \notin Answers
    BY DEF Answers
  <2>3. st["game"] = "none"
    BY <2>1, <2>2, QueueFacts
  <2>4. tasks["game"] = <<"accept">> /\ ~backlog /\ sock = "open"
    BY <2>1, <2>3
  <2>5. Tail(<<"accept">>) = <<>> /\ <<>> \in Seq(Answers)
    BY QueueFacts
  <2> QED BY <1>7, <2>3, <2>4, <2>5 DEF OpenChannel, Sides, States
<1>8. CASE TimerFires
  BY <1>8 DEF TimerFires, Sides
<1>9. CASE RunSend("gate")
  BY <1>9 DEF RunSend, Peer, Sides
<1>10. CASE RunSend("game")
  <2>1. st["game"] # "none"
    BY <1>10, Head(<<"accept">>) = "accept" DEF RunSend
  <2>2. tasks["game"] \in Seq(Answers) /\ tasks["game"] # <<>>
    BY <1>10, <2>1 DEF RunSend
  <2>3. Tail(tasks["game"]) \in Seq(Answers)
    BY <2>2, QueueFacts
  <2> QED BY <1>10, <2>1, <2>3 DEF RunSend, Peer, Sides
<1>11. ASSUME NEW s \in Sides, Receive(s) PROVE Handover'
  BY <1>11 DEF Receive, Sides
<1>12. CASE Handle("gate")
  <2>1. Head(work["gate"]) \notin Requests
    BY <1>12, QueueFacts DEF Handle, Answers, Requests
  <2> QED BY <1>12, <2>1 DEF Handle, Sides
<1>13. CASE Handle("game")
  <2>1. st["game"] # "none"
    BY <1>13 DEF Handle, Sides
  <2>2. AnswerTo(Head(work["game"])) \in Answers
    BY DEF AnswerTo, Answers
  <2>3. Append(tasks["game"], AnswerTo(Head(work["game"]))) \in Seq(Answers)
    BY <2>1, <2>2, QueueFacts
  <2> QED BY <1>13, <2>1, <2>3 DEF Handle, Sides
<1>14. ASSUME NEW s \in Sides, Close(s) PROVE Handover'
  BY <1>14 DEF Close, Sides
<1> QED BY <1>1, <1>2, <1>3, <1>4, <1>5, <1>6, <1>7, <1>8, <1>9, <1>10,
           <1>11, <1>12, <1>13, <1>14
        DEF Next, ProgramStep, WorldStep, Sides, ReadEnd, ReadZero

(* Whatever fails and in whatever order the loops run, the descriptor      *)
(* under the reactor's open handle is not closed by the main loop's        *)
(* temporary handle (AthenaTcpServer.cpp:42-49).                           *)
THEOREM SocketStays == Spec => []SocketKept
<1>1. Init => Types /\ Handover
  BY StartTypes, StartHandover
<1>2. Types /\ Handover /\ [Next]_vars => (Types /\ Handover)'
  BY TypesStep, HandoverStep
<1>3. Handover => SocketKept
  BY DEF Handover, SocketKept
<1> QED BY <1>1, <1>2, <1>3, PTL DEF Spec

-----------------------------------------------------------------------------
(* Work in flight on a connection that is up is somebody's work.           *)
LEMMA FlightIsWork ==
  ASSUME Up, Opening, InFlight
  PROVE  Busy
BY DEF Up, Opening, InFlight, Busy, Alive, Sides

LEMMA NothingForgotten ==
  ASSUME Up', Opening', InFlight', waited' = IF Busy' THEN waited ELSE 0
  PROVE  waited' = waited
<1>1. Busy'
  BY FlightIsWork, PTL
<1> QED BY <1>1

(* A connection that is up was up before, or has just been made.           *)
LEMMA UpBefore ==
  ASSUME Types, Handover, Next, Up'
  PROVE  Up \/ OnConnect
<1> USE DEF Up, history, ages, accept, queues, Push
<1>0. Plain
  BY TypesSplit
<1>1. CASE Tick
  BY <1>1 DEF Tick
<1>2. CASE Connect \/ ConnectRefused \/ OnConnectFails \/ OnConnect
  BY <1>0, <1>2 DEF Connect, ConnectRefused, OnConnectFails, Plain, Sides
<1>3. CASE Accept \/ AcceptFails \/ TimerFires
  BY <1>0, <1>3 DEF Accept, AcceptFails, TimerFires, Plain, Sides
<1>7. CASE OpenChannel
  <2>1. st["game"] = "none" /\ st'["gate"] = st["gate"]
    <3>1. "accept" \notin Answers
      BY DEF Answers
    <3> QED BY <1>0, <1>7, <3>1, QueueFacts
            DEF OpenChannel, Plain, Sides, Handover
  <2> QED BY <1>7, <2>1 DEF OpenChannel
<1>4. ASSUME NEW s \in Sides, RunSend(s) \/ Receive(s) \/ Handle(s)
      PROVE  Up
  BY <1>4 DEF RunSend, Receive, Handle
<1>5. ASSUME NEW s \in Sides, Close(s) PROVE Up
  BY <1>0, <1>5 DEF Close, Plain, Sides
<1>6. CASE Cut \/ Hang
  BY <1>6 DEF Cut, Hang, Sides
<1> QED BY <1>1, <1>2, <1>3, <1>4, <1>5, <1>6, <1>7
        DEF Next, ProgramStep, WorldStep, ReadEnd, ReadZero

(* The connection is made: nothing has been heard, the handshake is queued. *)
LEMMA ConnectClocks ==
  ASSUME Types, Types', Handover, OnConnect, Next
  PROVE  Clocks'
<1> USE DEF OnConnect, Push, history, ages, accept
<1>1. /\ Queues /\ Plain /\ waited' \in 0..MaxDelay
  BY TypesSplit DEF Types, TypeOK
<1>2. tasks'["gate"] # <<>> /\ backlog' /\ phase' = 0
  BY <1>1, QueueFacts, SMTT(30) DEF Queues, Directions, Requests, Sides
<1>3. ~greeted' /\ work'["gate"] = <<>>
  BY <1>1 DEF Handover, Untouched, Sides
<1> QED BY <1>1, <1>2, <1>3, LinkAssumption
        DEF Clocks, Opening, InFlight, SentYoung, RcvdYoung, Heard

LEMMA TickClocks ==
  ASSUME Timing, Types, Up, Clocks, Tick
  PROVE  Clocks'
<1> USE LinkAssumption DEF Tick, history, queues
<1>1. /\ sent \in -1..MaxAge /\ rcvd \in -1..MaxAge /\ waited \in 0..MaxDelay
      /\ phase \in 0..Period
  BY DEF Types, TypeOK, Ages, Clocks
<1>2. phase' = phase + 1 /\ phase' \in 0..Period
  BY <1>1 DEF NoTimer
<1>3. /\ UNCHANGED <<st, wire, work, tasks, backlog, greeted>>
      /\ (InFlight' <=> InFlight) /\ (Heard' <=> Heard) /\ Opening'
  BY DEF InFlight, Heard, Clocks, Opening
<1>4. InFlight => waited' = waited + 1
  BY FlightIsWork DEF Clocks
<1>5. /\ sent' \in Int /\ rcvd' \in Int
      /\ sent <= sent' /\ sent' <= sent + 1
      /\ rcvd <= rcvd' /\ rcvd' <= rcvd + 1
      /\ rcvd <= sent => rcvd' <= sent' \/ sent = -1
  BY <1>1 DEF Older, Unset, Future
<1>6. SentYoung'
  BY <1>1, <1>2, <1>3, <1>5 DEF SentYoung, Clocks, Timing, Older
<1>7. RcvdYoung'
  <2>1. CASE ~InFlight
    <3>1. tasks["gate"] = <<>>
      BY <2>1 DEF InFlight
    <3> QED BY <1>1, <1>3, <1>5, <2>1, <3>1 DEF RcvdYoung, SentYoung, Clocks
  <2>2. CASE InFlight
    <3> SUFFICES ASSUME Heard PROVE RcvdYoung'
      BY <1>3 DEF RcvdYoung
    <3>1. waited' = waited + 1 /\ InFlight'
      BY <1>3, <1>4, <2>2
    <3>2. \/ rcvd <= WriteIdle + Period + phase
          \/ /\ Period + phase <= waited
             /\ rcvd <= WriteIdle + 2 * Period + phase
      BY <2>2 DEF RcvdYoung, Clocks
    <3>3. \/ rcvd' <= WriteIdle + Period + phase'
          \/ /\ Period + phase' <= waited'
             /\ rcvd' <= WriteIdle + 2 * Period + phase'
      BY <1>1, <1>2, <1>5, <3>1, <3>2
    <3> QED BY <3>1, <3>3 DEF RcvdYoung
  <2> QED BY <2>1, <2>2
<1> QED BY <1>1, <1>2, <1>3, <1>4, <1>6, <1>7 DEF Clocks

(* A step that takes no time and leaves the clocks as they are, when what  *)
(* was in flight still is and nothing has been heard that was not before.  *)
LEMMA StillInFlight ==
  ASSUME Clocks, UNCHANGED phase, waited' = waited, InFlight, InFlight',
         Opening', SentYoung', Heard' => (Heard /\ rcvd' = rcvd) \/ rcvd' = 0,
         Types
  PROVE  Clocks'
<1> USE LinkAssumption
<1>1. phase \in 0..Period /\ phase <= waited
  BY DEF Clocks
<1>2. RcvdYoung'
  BY <1>1 DEF Clocks, RcvdYoung
<1> QED BY <1>1, <1>2 DEF Clocks

LEMMA SendClocks ==
  ASSUME NEW s \in Sides, Types, Handover, Up, Up', Clocks, RunSend(s),
         waited' = IF Busy' THEN waited ELSE 0
  PROVE  Clocks'
<1> USE LinkAssumption DEF RunSend, history, accept
<1>1. Queues /\ phase \in 0..Period
  BY TypesSplit DEF Clocks
<1>2. CASE s = "gate"
  <2>1. wire'["game"] = Append(wire["game"], Head(tasks["gate"]))
    BY <1>1, <1>2 DEF Up, WillRead, Alive, Peer, Queues, Sides
  <2>2. Head(tasks["gate"]) \in Requests /\ wire'["game"] # <<>>
    <3>1. tasks["gate"] \in Seq(Requests) /\ wire["game"] \in Seq(Requests)
      BY <1>1 DEF Queues, Directions
    <3>2. Head(tasks["gate"]) \in Requests
      BY <1>2, <3>1, QueueFacts
    <3> QED BY <2>1, <3>1, <3>2, QueueFacts
  <2>3. InFlight /\ InFlight'
    BY <1>2, <2>2 DEF InFlight
  <2>4. tasks'["game"] = tasks["game"]
    BY <1>1, <1>2 DEF Queues, Sides
  <2>5. Opening'
    BY <2>2, <2>4 DEF Opening, Clocks
  <2>6. waited' = waited
    BY <2>3, <2>5, NothingForgotten
  <2>7. SentYoung'
    BY <1>1, <1>2 DEF SentYoung
  <2>8. (Heard' <=> Heard) /\ rcvd' = rcvd
    BY DEF Heard
  <2> QED BY <2>3, <2>5, <2>6, <2>7, <2>8, StillInFlight
<1>3. CASE s = "game"
  <2>1. st["game"] # "none"
    BY <1>3, Head(<<"accept">>) = "accept" DEF Handover
  <2>2. wire'["gate"] = Append(wire["gate"], Head(tasks["game"]))
    BY <1>1, <1>3, <2>1 DEF Up, WillRead, Alive, Peer, Queues, Sides
  <2>3. Head(tasks["game"]) \in Answers /\ wire'["gate"] # <<>>
    <3>1. tasks["game"] \in Seq(Answers) /\ wire["gate"] \in Seq(Answers)
      BY <1>1, <2>1 DEF Queues, Directions, Handover
    <3>2. Head(tasks["game"]) \in Answers
      BY <1>3, <3>1, QueueFacts
    <3> QED BY <2>2, <3>1, <3>2, QueueFacts
  <2>4. InFlight /\ InFlight'
    BY <1>3, <2>3 DEF InFlight
  <2>5. Opening'
    BY <2>1 DEF Opening
  <2>6. waited' = waited
    BY <2>4, <2>5, NothingForgotten
  <2>7. tasks'["gate"] = tasks["gate"] /\ sent' = sent
    BY <1>1, <1>3 DEF Queues, Sides
  <2>8. SentYoung'
    BY <2>7 DEF SentYoung, Clocks
  <2>9. (Heard' <=> Heard) /\ rcvd' = rcvd
    BY DEF Heard
  <2> QED BY <2>4, <2>5, <2>6, <2>8, <2>9, StillInFlight
<1> QED BY <1>2, <1>3 DEF Sides

LEMMA ReceiveClocks ==
  ASSUME NEW s \in Sides, Types, Handover, Up, Up', Clocks, Receive(s),
         waited' = IF Busy' THEN waited ELSE 0
  PROVE  Clocks'
<1> USE LinkAssumption DEF Receive, history, accept
<1>1. Queues /\ phase \in 0..Period /\ phase' = phase
  BY TypesSplit DEF Clocks
<1>2. st["game"] # "none" /\ Opening'
  BY <1>1 DEF Handover, Opening, Sides
<1>3. InFlight
  BY DEF InFlight, Sides
<1>4. SentYoung'
  BY DEF SentYoung, Clocks
<1>5. CASE s = "game"
  <2>1. Head(wire["game"]) \in Requests
    BY <1>1, <1>5, QueueFacts DEF Queues, Directions
  <2>2. work'["game"] = Append(work["game"], Head(wire["game"]))
    BY <1>1, <1>5, <2>1 DEF Queues, Registered, Messages, Sides
  <2>3. work'["game"] # <<>>
    <3>1. work["game"] \in Seq(Requests)
      BY <1>1 DEF Queues, Directions
    <3> QED BY <2>1, <2>2, <3>1, QueueFacts
  <2>4. InFlight'
    BY <2>3 DEF InFlight
  <2>5. waited' = waited
    BY <1>2, <2>4, NothingForgotten
  <2>6. work'["gate"] = work["gate"]
    BY <1>1, <1>5 DEF Queues, Sides
  <2>7. (Heard' => Heard) /\ rcvd' = rcvd
    BY <1>5, <2>6 DEF Heard
  <2> QED BY <1>1, <1>2, <1>3, <1>4, <2>4, <2>5, <2>7, StillInFlight
<1>6. CASE s = "gate"
  <2>1. rcvd' = 0
    BY <1>6
  <2>2. CASE InFlight'
    <3>1. waited' = waited
      BY <1>2, <2>2, NothingForgotten
    <3> QED BY <1>1, <1>2, <1>3, <1>4, <2>1, <2>2, <3>1, StillInFlight
  <2>3. CASE ~InFlight'
    <3>1. tasks'["gate"] = <<>>
      BY <2>3 DEF InFlight
    <3> QED BY <1>1, <1>2, <1>4, <2>1, <2>3, <3>1
            DEF Clocks, RcvdYoung, SentYoung
  <2> QED BY <2>2, <2>3
<1> QED BY <1>5, <1>6 DEF Sides

LEMMA HandleClocks ==
  ASSUME NEW s \in Sides, Types, Handover, Up, Up', Clocks, Handle(s),
         waited' = IF Busy' THEN waited ELSE 0
  PROVE  Clocks'
<1> USE LinkAssumption DEF Handle, history, accept
<1>1. Queues /\ phase \in 0..Period /\ phase' = phase
  BY TypesSplit DEF Clocks
<1>2. st["game"] # "none" /\ Opening'
  BY <1>1 DEF Handover, Opening, Sides
<1>3. CASE s = "game"
  <2>1. Head(work["game"]) \in Requests
    BY <1>1, <1>3, QueueFacts DEF Queues, Directions
  <2>2. tasks'["game"] = Append(tasks["game"], AnswerTo(Head(work["game"])))
    BY <1>1, <1>3, <2>1 DEF Queues, Push, Sides
  <2>3. tasks["game"] \in Seq(Answers)
    BY <1>2 DEF Handover
  <2>4. AnswerTo(Head(work["game"])) \in Answers
    BY DEF AnswerTo, Answers
  <2>5. tasks'["game"] # <<>>
    BY <2>2, <2>3, <2>4, QueueFacts
  <2>6. InFlight /\ InFlight'
    BY <1>3, <2>5 DEF InFlight
  <2>7. waited' = waited
    BY <1>2, <2>6, NothingForgotten
  <2>8. work'["gate"] = work["gate"] /\ tasks'["gate"] = tasks["gate"]
    BY <1>1, <1>3, <2>1 DEF Queues, Push, Sides
  <2>9. (Heard' => Heard) /\ rcvd' = rcvd
    BY <1>3, <2>8 DEF Heard, ages
  <2>10. SentYoung'
    BY <1>1, <2>8 DEF SentYoung, Clocks, ages
  <2> QED BY <1>1, <1>2, <2>6, <2>7, <2>9, <2>10, StillInFlight
<1>4. CASE s = "gate"
  <2>1. Head(work["gate"]) \notin Requests
    BY <1>1, <1>4, QueueFacts DEF Queues, Directions, Answers, Requests
  <2>2. UNCHANGED <<tasks, wire, ages>> /\ work'["game"] = work["game"]
    BY <1>1, <1>4, <2>1 DEF Queues, Sides
  <2>3. (InFlight' <=> InFlight) /\ SentYoung'
    BY <1>1, <2>2 DEF InFlight, SentYoung, Clocks, ages
  <2>4. Heard
    BY <1>4 DEF Heard
  <2>5. CASE InFlight'
    <3>1. waited' = waited
      BY <1>2, <2>5, NothingForgotten
    <3> QED BY <1>1, <1>2, <2>2, <2>3, <2>4, <2>5, <3>1, StillInFlight DEF ages
  <2>6. CASE ~InFlight'
    BY <1>1, <1>2, <2>2, <2>3, <2>4, <2>6 DEF Clocks, RcvdYoung, ages
  <2> QED BY <2>5, <2>6
<1> QED BY <1>3, <1>4 DEF Sides

LEMMA TimerClocks ==
  ASSUME Timing, Types, Handover, Up, Up', Clocks, TimerFires,
         waited' = IF Busy' THEN waited ELSE 0
  PROVE  Clocks'
<1> USE LinkAssumption DEF TimerFires, accept
<1>1. /\ Queues /\ phase = Period /\ phase' = 0
      /\ waited \in 0..MaxDelay /\ waited' \in 0..MaxDelay
      /\ sent \in Int /\ rcvd \in Int
      /\ UNCHANGED <<st, sent, rcvd, wire, work, backlog, greeted>>
  BY TypesSplit DEF Types, TypeOK, Ages, ages
<1>2. /\ tasks'["game"] = tasks["game"]
      /\ IF sent > WriteIdle THEN tasks'["gate"] # <<>> ELSE tasks' = tasks
      /\ tasks["gate"] # <<>> => tasks'["gate"] # <<>>
  <2>1. /\ tasks["gate"] \in Seq(Requests)
        /\ "HEART_BEAT_REQ" \in Requests
    BY <1>1 DEF Queues, Directions, Requests
  <2>2. Append(tasks["gate"], "HEART_BEAT_REQ") # <<>>
    BY <2>1, QueueFacts
  <2>3. Expired(sent, WriteIdle) <=> sent > WriteIdle
    BY <1>1 DEF Expired, Timing
  <2> QED BY <1>1, <2>2, <2>3 DEF Queues, Push, Sides
<1>3. Opening' /\ (InFlight => InFlight') /\ (Heard' <=> Heard)
  BY <1>1, <1>2 DEF Opening, InFlight, Heard, Clocks
<1>4. SentYoung'
  BY <1>1, <1>2 DEF SentYoung, Clocks
<1>5. RcvdYoung'
  <2> SUFFICES ASSUME Heard PROVE RcvdYoung'
    BY <1>3 DEF RcvdYoung
  <2>1. CASE InFlight
    <3>1. waited' = waited /\ InFlight' /\ Period <= waited
      BY <1>1, <1>3, <2>1, NothingForgotten DEF Clocks
    <3>2. \/ rcvd <= WriteIdle + Period + phase
          \/ /\ Period + phase <= waited
             /\ rcvd <= WriteIdle + 2 * Period + phase
      BY <2>1 DEF RcvdYoung, Clocks
    <3>3. Period + phase' <= waited' /\ rcvd' <= WriteIdle + 2 * Period + phase'
      BY <1>1, <3>1, <3>2 DEF Timing
    <3> QED BY <3>1, <3>3 DEF RcvdYoung
  <2>2. CASE ~InFlight
    <3>1. rcvd <= sent /\ sent <= WriteIdle + Period
      BY <1>1, <2>2 DEF RcvdYoung, SentYoung, InFlight, Clocks
    <3>2. rcvd' <= sent' /\ rcvd' <= WriteIdle + Period + phase'
      BY <1>1, <3>1
    <3> QED BY <3>2 DEF RcvdYoung
  <2> QED BY <2>1, <2>2
<1> QED BY <1>1, <1>3, <1>4, <1>5 DEF Clocks

LEMMA OpenClocks ==
  ASSUME Types, Handover, Up, Up', Clocks, OpenChannel,
         waited' = IF Busy' THEN waited ELSE 0
  PROVE  Clocks'
<1> USE DEF OpenChannel, history
<1>1. Queues /\ Plain /\ phase' = phase
  BY TypesSplit
<1>2. st["game"] = "none" /\ st'["game"] = "open" /\ wire' = wire
  <2>1. "accept" \notin Answers
    BY DEF Answers
  <2>2. st["game"] = "none"
    BY <2>1, QueueFacts DEF Handover
  <2> QED BY <1>1, <2>2 DEF Up, Plain, Sides
<1>3. UNCHANGED <<work, greeted, sent, rcvd>> /\ tasks'["gate"] = tasks["gate"]
  BY <1>1 DEF ages, Queues, Sides
<1>4. InFlight /\ InFlight' /\ Opening'
  BY <1>2, <1>3 DEF InFlight, Opening, Clocks
<1>5. waited' = waited
  BY <1>4, NothingForgotten
<1>6. (Heard' => Heard) /\ SentYoung'
  BY <1>1, <1>3 DEF Heard, SentYoung, Clocks
<1> QED BY <1>1, <1>3, <1>4, <1>5, <1>6, StillInFlight

LEMMA AcceptClocks ==
  ASSUME Types, Handover, Up, Up', Clocks, Accept,
         waited' = IF Busy' THEN waited ELSE 0
  PROVE  Clocks'
<1> USE DEF Accept, history
<1>1. Queues /\ phase' = phase /\ st["game"] = "none" /\ st' = st
  BY TypesSplit DEF Handover
<1>2. /\ UNCHANGED <<wire, work, greeted, sent, rcvd>>
      /\ tasks'["gate"] = tasks["gate"] /\ tasks'["game"] # <<>>
  <2>1. tasks' = [tasks EXCEPT !["game"] = Append(tasks["game"], "accept")]
    BY DEF Push
  <2>2. Append(tasks["game"], "accept") # <<>>
    <3>1. tasks["game"] \in Seq(Answers \cup {"accept"})
      BY <1>1 DEF Queues, Directions
    <3> QED BY <3>1, QueueFacts
  <2> QED BY <1>1, <2>1, <2>2 DEF ages, Queues, Sides
<1>3. InFlight /\ InFlight' /\ Opening'
  BY <1>1, <1>2 DEF InFlight, Opening, Clocks
<1>4. waited' = waited
  BY <1>3, NothingForgotten
<1>5. (Heard' => Heard) /\ SentYoung'
  BY <1>1, <1>2 DEF Heard, SentYoung, Clocks
<1> QED BY <1>1, <1>2, <1>3, <1>4, <1>5, StillInFlight

LEMMA ClocksStep ==
  ASSUME Timing, Types, Types', Handover, ClocksInv, [Next]_vars
  PROVE  ClocksInv'
<1> SUFFICES ASSUME Up' PROVE Clocks'
  BY DEF ClocksInv
<1>1. CASE UNCHANGED vars
  <2>1. Up
    BY <1>1 DEF Up, vars, queues
  <2> QED BY <1>1, <2>1
          DEF ClocksInv, Clocks, Opening, SentYoung, RcvdYoung, InFlight,
              Heard, vars, ages, queues, accept, history
<1>2. CASE OnConnect /\ Next
  BY <1>2, ConnectClocks
<1>3. CASE Up /\ Next
  <2> USE <1>3
  <2>1. Clocks
    BY DEF ClocksInv
  <2>2. CASE Tick
    BY <2>1, <2>2, TickClocks
  <2>3. CASE ~Tick
    <3>1. waited' = IF Busy' THEN waited ELSE 0
      BY <2>3 DEF Next
    <3>2. CASE \E s \in Sides : RunSend(s)
      BY <2>1, <3>1, <3>2, SendClocks
    <3>3. CASE \E s \in Sides : Receive(s)
      BY <2>1, <3>1, <3>3, ReceiveClocks
    <3>4. CASE \E s \in Sides : Handle(s)
      BY <2>1, <3>1, <3>4, HandleClocks
    <3>5. CASE TimerFires
      BY <2>1, <3>1, <3>5, TimerClocks
    <3>6. CASE OpenChannel
      BY <2>1, <3>1, <3>6, OpenClocks
    <3>7. CASE Accept
      BY <2>1, <3>1, <3>7, AcceptClocks
    <3>8. ~(Connect \/ ConnectRefused \/ OnConnect \/ OnConnectFails)
      BY DEF Up, Connect, ConnectRefused, OnConnect, OnConnectFails
    <3>9. ~(AcceptFails \/ Cut \/ Hang)
      <4>1. Plain
        BY TypesSplit
      <4> QED BY <4>1 DEF Up, AcceptFails, Cut, Hang, Plain, Sides
    <3>10. ASSUME NEW s \in Sides PROVE ~Close(s)
      <4>1. Plain
        BY TypesSplit
      <4> QED BY <4>1 DEF Up, Close, Plain, Sides
    <3> QED BY <2>3, <3>2, <3>3, <3>4, <3>5, <3>6, <3>7, <3>8, <3>9, <3>10
            DEF Next, ProgramStep, WorldStep, ReadEnd, ReadZero
  <2> QED BY <2>2, <2>3
<1> QED BY <1>1, <1>2, <1>3, UpBefore

(* With any period and any idle times such that ReadIdle is at least       *)
(* WriteIdle and two periods more, and with a game server that answers in  *)
(* less than two periods, no timer of the gateway takes a connection that  *)
(* is up for read-idle: 15 s is just enough for 5 s and 5 s                *)
(* (IdleStateHandler.cpp:9-21, gateway/src/main.cpp:50).                   *)
THEOREM InTouch ==
  ASSUME Timing
  PROVE  Spec => []StaysInTouch
<1>1. Init => Types /\ Handover /\ ClocksInv
  <2>1. Init => ~Up
    BY DEF Init, Up, Sides
  <2> QED BY <2>1, StartTypes, StartHandover DEF ClocksInv
<1>2. Types /\ Handover /\ ClocksInv /\ [Next]_vars
        => (Types /\ Handover /\ ClocksInv)'
  BY TypesStep, HandoverStep, ClocksStep
<1>3. Types /\ Handover /\ ClocksInv => StaysInTouch
  <2> SUFFICES ASSUME Types, Handover, ClocksInv, greeted, ~hung,
                      st = [s \in Sides |-> "open"], ~eof["gate"], ~eof["game"],
                      phase = Period
               PROVE  rcvd <= ReadIdle
    BY DEF StaysInTouch
  <2>1. Clocks /\ Heard
    BY DEF ClocksInv, Up, Heard, Sides
  <2>2. /\ sent \in Int /\ rcvd \in Int /\ waited \in 0..MaxDelay
    BY DEF Types, TypeOK, Ages
  <2>3. CASE InFlight
    BY <2>1, <2>2, <2>3, LinkAssumption DEF Clocks, RcvdYoung, Timing
  <2>4. CASE ~InFlight
    BY <2>1, <2>2, <2>4, LinkAssumption
       DEF Clocks, RcvdYoung, SentYoung, InFlight, Timing
  <2> QED BY <2>3, <2>4
<1> QED BY <1>1, <1>2, <1>3, PTL DEF Spec
=============================================================================
