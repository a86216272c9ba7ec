-------------------------------- MODULE Link --------------------------------
(***************************************************************************)
(* One connection from the gateway to the game server, from                *)
(* TcpClient::connect and AthenaTcpServer::onAccept to the close: the      *)
(* hand-over of the accepted socket to a reactor, the handshake, the       *)
(* 5-second timer of the gateway's channel, the idle times it tests, the   *)
(* heartbeats it sends on them, and the ways a connection ends.  The game  *)
(* server's channel has the same timer, but does nothing on it except log, *)
(* so its timer and its two clocks are left out.                           *)
(*                                                                         *)
(* Each side is one event loop and one worker (every request is queued     *)
(* with the same hash code, see RequestPipeline).  Time advances in ticks, *)
(* Period of them to a firing of the timers; a clock in the code is its    *)
(* age here, and last_send_time + idle < now reads age > idle.             *)
(***************************************************************************)
EXTENDS Integers, Sequences

CONSTANTS
  Period,     \* ticks between two firings of a channel's timer (5000 ms)
  WriteIdle,  \* max_write_idle_time of the gateway, 0 for none
  ReadIdle,   \* max_read_idle_time of the gateway, 0 for none
  MaxAge,     \* bound: an age is counted up to here
  MaxDelay    \* bound: ticks that work in flight may take to be done

Sides == {"gate", "game"}
Peer(s) == IF s = "gate" THEN "game" ELSE "gate"

ASSUME LinkAssumption ==
  /\ Period \in Nat \ {0} /\ MaxAge \in Nat /\ MaxDelay \in Nat
  /\ WriteIdle \in 0..(MaxAge - 1) /\ ReadIdle \in 0..(MaxAge - 1)

VARIABLES
  st,       \* st[s]: the handle of side s
  phase,    \* ticks since the gateway's timer fired, or NoTimer
  sent,     \* age of its channel's last_send_time
  rcvd,     \* age of its channel's last_recv_time
  wire,     \* wire[s]: messages on their way to side s
  eof,      \* eof[s]: what comes after them is an end or an error
  work,     \* work[s]: parsed messages queued for the worker of s
  tasks,    \* tasks[s]: the task queue of the event loop of s
  backlog,  \* a connection waits to be accepted
  sock,     \* the descriptor of the accepted socket
  temp,     \* the main loop's handle for it and its 100 ms timer
  hung,     \* the game server has stopped for good, its kernel has not
  waited,   \* ticks since nothing was in flight
  greeted,  \* history: the gateway handled the answer to its handshake
  alarm     \* history: the last firing of the timer raised READ_IDLE

ages    == <<sent, rcvd>>
queues  == <<wire, eof, work, tasks>>
accept  == <<backlog, sock, temp>>
history == <<greeted, alarm>>
vars    == <<st, phase, ages, queues, accept, hung, waited, history>>

States   == {"none", "connecting", "open", "failed", "closed"}
Requests == {"HAND_SHAKE_REQ", "HEART_BEAT_REQ"}
Answers  == {"HAND_SHAKE_RES", "HEART_BEAT_RES"}
Messages == Requests \cup Answers

NoTimer == -1

\* The two clocks of a Channel are not initialised: until they are set they
\* hold a time long past or one yet to come, which no tick makes older.
Future == -1
Unset  == {Future, MaxAge}

Alive(s) == s = "gate" \/ ~hung

Init ==
  /\ st = [s \in Sides |-> "none"]
  /\ phase = NoTimer /\ sent \in Unset /\ rcvd \in Unset
  /\ wire = [s \in Sides |-> <<>>] /\ eof = [s \in Sides |-> FALSE]
  /\ work = [s \in Sides |-> <<>>] /\ tasks = [s \in Sides |-> <<>>]
  /\ backlog = FALSE /\ sock = "none" /\ temp = "none"
  /\ hung = FALSE /\ waited = 0 /\ greeted = FALSE /\ alarm = FALSE

Push(s, task) == tasks' = [tasks EXCEPT ![s] = Append(@, task)]

-----------------------------------------------------------------------------
(* Connecting: the closure of asyncConnect, then uv_on_connect.            *)

Connect ==
  /\ st["gate"] = "none"
  /\ st' = [st EXCEPT !["gate"] = "connecting"]
  /\ UNCHANGED <<phase, ages, queues, accept, hung, history>>

\* uv_tcp_connect fails at once: the error is logged, no callback comes.
ConnectRefused ==
  /\ st["gate"] = "none"
  /\ st' = [st EXCEPT !["gate"] = "failed"]
  /\ UNCHANGED <<phase, ages, queues, accept, hung, history>>

\* Mutant: no handshake.
OnConnectSilent ==
  /\ st["gate"] = "connecting"
  /\ st' = [st EXCEPT !["gate"] = "open"]
  /\ phase' = 0
  /\ backlog' = TRUE
  /\ UNCHANGED <<ages, queues, sock, temp, hung, history>>

\* onNewConnect queues the handshake; then startHeartbeatTimer.
OnConnect ==
  /\ st["gate"] = "connecting"
  /\ st' = [st EXCEPT !["gate"] = "open"]
  /\ Push("gate", "HAND_SHAKE_REQ")
  /\ phase' = 0
  /\ backlog' = TRUE
  /\ UNCHANGED <<ages, wire, eof, work, sock, temp, hung, history>>

\* status < 0: onNewConnect does not look at it and queues a handshake all
\* the same; there is no timer, and the handle is not closed.
OnConnectFails ==
  /\ st["gate"] = "connecting"
  /\ st' = [st EXCEPT !["gate"] = "failed"]
  /\ Push("gate", "HAND_SHAKE_REQ")
  /\ UNCHANGED <<phase, ages, wire, eof, work, accept, hung, history>>

-----------------------------------------------------------------------------
(* Accepting: the main loop accepts into a temporary handle, hands its     *)
(* descriptor to a reactor, and starts a timer to close the handle after   *)
(* 100 ms.  The reactor opens a handle of its own on the same descriptor.  *)

Accept ==
  /\ backlog /\ ~hung
  /\ backlog' = FALSE /\ sock' = "open" /\ temp' = "waiting"
  /\ Push("game", "accept")
  /\ UNCHANGED <<st, phase, ages, wire, eof, work, hung, history>>

\* uv_accept or uv_fileno fails: the temporary handle is closed at once.
AcceptFails ==
  /\ backlog /\ ~hung
  /\ backlog' = FALSE
  /\ eof' = [eof EXCEPT !["gate"] = TRUE]
  /\ UNCHANGED <<st, phase, ages, wire, work, tasks, sock, temp, hung, history>>

\* The closure of asyncAccept.  A failure of uv_tcp_open is only logged:
\* the channel then reads nothing.
OpenChannel ==
  /\ ~hung /\ tasks["game"] # <<>>
  /\ Head(tasks["game"]) = "accept"
  /\ tasks' = [tasks EXCEPT !["game"] = Tail(@)]
  /\ \E outcome \in {"open", "failed"} :
       /\ st' = [st EXCEPT !["game"] = outcome]
       /\ wire' = IF outcome = "open" THEN wire ELSE [wire EXCEPT !["game"] = <<>>]
  /\ UNCHANGED <<phase, ages, eof, work, accept, hung, history>>

\* Mutant: the timer is started on the loop that runs.
TempTimerMain == "main"

\* The temporary handle's timer is started on uv_default_loop().
TempTimerLoop == "default"

\* The loops somebody runs.
RunningLoops == {"main", "reactor", "client"}

TempCloses == temp = "waiting" /\ TempTimerLoop \in RunningLoops

-----------------------------------------------------------------------------
(* Messages: eventLoopDoSend, uv_read_cb with onMsg, and the handlers.     *)

\* Whether side s may still read its socket.  What it will never read is not
\* kept here; in a socket buffer it would stay.
WillRead(s) == Alive(s) /\ st[s] \notin {"failed", "closed"}

\* A handle that is not open, or whose peer is gone, drops what it is given.
RunSend(s) ==
  /\ Alive(s) /\ tasks[s] # <<>>
  /\ Head(tasks[s]) # "accept"
  /\ tasks' = [tasks EXCEPT ![s] = Tail(@)]
  /\ sent' = IF s = "gate" THEN 0 ELSE sent
  /\ wire' = IF st[s] = "open" /\ ~eof[s] /\ WillRead(Peer(s))
             THEN [wire EXCEPT ![Peer(s)] = Append(@, Head(tasks[s]))]
             ELSE wire
  /\ UNCHANGED <<st, phase, rcvd, eof, work, accept, hung, history>>

\* Mutant: the heartbeat request is not registered.
RegisteredPartly == Messages \ {"HEART_BEAT_REQ"}

\* The ids registMsg registers, the same ones on both sides.
Registered == Messages

Receive(s) ==
  /\ Alive(s) /\ st[s] = "open" /\ wire[s] # <<>>
  /\ wire' = [wire EXCEPT ![s] = Tail(@)]
  /\ rcvd' = IF s = "gate" THEN 0 ELSE rcvd
  /\ work' = IF Head(wire[s]) \in Registered
             THEN [work EXCEPT ![s] = Append(@, Head(wire[s]))] ELSE work
  /\ UNCHANGED <<st, phase, sent, eof, tasks, accept, hung, history>>

\* Mutant: an answer sent under the id of another message.
AnswerToOther(m) ==
  IF m = "HAND_SHAKE_REQ" THEN "HAND_SHAKE_RES" ELSE "LOGIN_RES"

\* onShakHandReq and onHeartBeatReq answer.
AnswerTo(m) ==
  IF m = "HAND_SHAKE_REQ" THEN "HAND_SHAKE_RES" ELSE "HEART_BEAT_RES"

Handle(s) ==
  /\ Alive(s) /\ work[s] # <<>>
  /\ work' = [work EXCEPT ![s] = Tail(@)]
  /\ IF Head(work[s]) \in Requests
     THEN Push(s, AnswerTo(Head(work[s]))) ELSE UNCHANGED tasks
  /\ greeted' = (greeted \/ (s = "gate" /\ Head(work[s]) = "HAND_SHAKE_RES"))
  /\ UNCHANGED <<st, phase, ages, wire, eof, accept, hung, alarm>>

-----------------------------------------------------------------------------
(* The timer of the channel, which nothing stops, and IdleStateHandler.    *)

Expired(age, idle) == idle > 0 /\ age > idle

\* Mutant: the timer does not repeat.
TimerFiresOnce ==
  /\ phase = Period
  /\ phase' = NoTimer
  /\ IF Expired(sent, WriteIdle)
     THEN Push("gate", "HEART_BEAT_REQ") ELSE UNCHANGED tasks
  /\ alarm' = Expired(rcvd, ReadIdle)
  /\ UNCHANGED <<st, ages, wire, eof, work, accept, hung, greeted>>

\* onEventTrigger sends a heartbeat on WRITE_IDLE and logs READ_IDLE.
TimerFires ==
  /\ phase = Period
  /\ phase' = 0
  /\ IF Expired(sent, WriteIdle)
     THEN Push("gate", "HEART_BEAT_REQ") ELSE UNCHANGED tasks
  /\ alarm' = Expired(rcvd, ReadIdle)
  /\ UNCHANGED <<st, ages, wire, eof, work, accept, hung, greeted>>

-----------------------------------------------------------------------------
(* Closing: Channel::onRead closes on anything but bytes, an nread of 0,   *)
(* which libuv uses for "nothing to read just now", included.              *)

Close(s) ==
  /\ Alive(s) /\ st[s] = "open"
  /\ st' = [st EXCEPT ![s] = "closed"]
  /\ wire' = [wire EXCEPT ![s] = <<>>]
  /\ eof' = [eof EXCEPT ![Peer(s)] = TRUE]
  /\ sock' = IF s = "game" THEN "closed" ELSE sock
  /\ UNCHANGED <<phase, ages, work, tasks, backlog, temp, hung, history>>

ReadEnd(s) == eof[s] /\ wire[s] = <<>> /\ Close(s)

ReadZero(s) == Close(s)

-----------------------------------------------------------------------------
(* The world: a reset, a game server that stops, and time.                 *)

Cut ==
  /\ st["gate"] = "open" /\ ~eof["gate"]
  /\ eof' = [s \in Sides |-> TRUE]
  /\ wire' = [s \in Sides |-> <<>>]
  /\ UNCHANGED <<st, phase, ages, work, tasks, accept, hung, history>>

\* What waited for the game server will never be read or run.
Hang ==
  /\ ~hung
  /\ hung' = TRUE
  /\ wire' = [wire EXCEPT !["game"] = <<>>]
  /\ work' = [work EXCEPT !["game"] = <<>>]
  /\ tasks' = [tasks EXCEPT !["game"] = <<>>]
  /\ UNCHANGED <<st, phase, ages, eof, accept, history>>

\* What one of the loops or workers still has to do.
Busy ==
  \/ st["gate"] \in {"none", "connecting"}
  \/ backlog /\ ~hung
  \/ \E s \in Sides : /\ Alive(s)
                      /\ \/ tasks[s] # <<>> \/ work[s] # <<>>
                         \/ st[s] = "open" /\ (wire[s] # <<>> \/ eof[s])

Older(age) == IF age \in Unset THEN age ELSE age + 1

\* A timer fires when it is due, never later: libuv's may be late by what
\* the loop is busy with, which is not counted here.  What is in flight waits
\* for MaxDelay ticks at most.
Tick ==
  /\ phase # Period
  /\ Busy => waited < MaxDelay
  /\ waited' = IF Busy THEN waited + 1 ELSE 0
  /\ phase' = IF phase = NoTimer THEN phase ELSE phase + 1
  /\ sent' = Older(sent) /\ rcvd' = Older(rcvd)
  /\ temp' = IF TempCloses THEN "closed" ELSE temp
  /\ sock' = IF TempCloses THEN "closed" ELSE sock
  /\ UNCHANGED <<st, queues, backlog, hung, history>>

-----------------------------------------------------------------------------
ProgramStep ==
  \/ Connect \/ OnConnect \/ Accept \/ OpenChannel \/ TimerFires
  \/ \E s \in Sides : RunSend(s) \/ Receive(s) \/ Handle(s) \/ ReadEnd(s)

WorldStep ==
  \/ ConnectRefused \/ OnConnectFails \/ AcceptFails \/ Cut \/ Hang
  \/ \E s \in Sides : ReadZero(s)

Next ==
  \/ Tick
  \/ /\ ProgramStep \/ WorldStep
     /\ waited' = IF Busy' THEN waited ELSE 0

(* Loops and workers run as long as their process does, and time passes;   *)
(* nothing is assumed of failures.                                         *)
Fairness ==
  /\ WF_vars(Tick)
  /\ WF_vars(Next /\ (Connect \/ OnConnect \/ Accept))
  /\ WF_vars(Next /\ OpenChannel)
  /\ WF_vars(Next /\ TimerFires)
  /\ \A s \in Sides :
       /\ WF_vars(Next /\ RunSend(s))
       /\ WF_vars(Next /\ (Receive(s) \/ ReadEnd(s)))
       /\ WF_vars(Next /\ Handle(s))

Spec == Init /\ [][Next]_vars
FairSpec == Spec /\ Fairness

-----------------------------------------------------------------------------
Ages == -1..MaxAge

TypeOK ==
  /\ st \in [Sides -> States]
  /\ phase \in NoTimer..Period /\ sent \in Ages /\ rcvd \in Ages
  /\ wire \in [Sides -> Seq(Messages)] /\ eof \in [Sides -> BOOLEAN]
  /\ work \in [Sides -> Seq(Messages)]
  /\ tasks \in [Sides -> Seq(Messages \cup {"accept"})]
  /\ backlog \in BOOLEAN
  /\ sock \in {"none", "open", "closed"}
  /\ temp \in {"none", "waiting", "closed"}
  /\ hung \in BOOLEAN /\ waited \in 0..MaxDelay
  /\ greeted \in BOOLEAN /\ alarm \in BOOLEAN

(* The descriptor under a reactor's open handle stays open: the main       *)
(* loop's temporary handle, which shares it, is never the one to close it  *)
(* (AthenaTcpServer.cpp:42-49).                                            *)
SocketKept == st["game"] = "open" => sock = "open"

(* While the game server answers within MaxDelay ticks and the handshake   *)
(* is done, no timer of the gateway finds its channel read-idle: the       *)
(* heartbeats that writing silence provokes keep the other clock young     *)
(* (IdleStateHandler.cpp:9-18, GateClientNetWorkHandler.cpp:53-59).        *)
StaysInTouch ==
  greeted /\ ~hung /\ st = [s \in Sides |-> "open"] /\ ~eof["gate"] /\ ~eof["game"]
    => (phase = Period => rcvd <= ReadIdle)

(* A game server that falls silent is noticed: READ_IDLE is raised at the  *)
(* gateway, unless its connection ends.                                    *)
SilenceNoticed == greeted /\ hung ~> alarm \/ st["gate"] = "closed"

(* The gateway's handshake is answered, unless the game server stops, its  *)
(* handle fails to open, or the connection ends.                           *)
HandshakeCompletes ==
  st["gate"] = "open" ~> \/ greeted \/ hung
                         \/ st["game"] = "failed" \/ st["gate"] = "closed"
=============================================================================
