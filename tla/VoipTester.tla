------------------------------ MODULE VoipTester ------------------------------
(***************************************************************************)
(* The threads of a running vt_shell together: the listener (vt_listenEvent*)
(* of vt_event.c), the processor (vt_processEvent of vt_fsm.c) and the     *)
(* operator's command line, with what they share                           *)
(*   - the connection to the VoIP server and the semaphore g_connectedSem, *)
(*     over which the operator hands a new connection to the listener      *)
(*     (vt_send.c);                                                        *)
(*   - the table of session sockets under l_sessFdsMutex;                  *)
(*   - the event queue.  It is a bounded FIFO here, as EventQueue shows;   *)
(*     only the wakeup that vt_initMsgQueue omits is kept.                 *)
(* What an event makes its handler do is reduced to the steps that touch   *)
(* these: puts of further events, and the locking of the session table.    *)
(***************************************************************************)
EXTENDS Integers, Sequences, FiniteSets

CONSTANTS
  StoreEventMax,  (* g_vtConfig.storeEventMax                              *)
  SessFdsMax,     (* VT_SESS_FDS_MAX                                       *)
  MaxConnects,    (* bound on the connections made to the server           *)
  MaxInputs       (* bound on what arrives from outside and on the timers  *)

ASSUME SizeAssumption == StoreEventMax \in Nat \ {0} /\ SessFdsMax \in Nat \ {0}
ASSUME BoundAssumption ==
  MaxConnects \in Nat /\ MaxInputs \in Nat

VARIABLES
  op,        (* where the operator is in vt_connectToServer                *)
  connects,  (* connections made; the newest has this number               *)
  sockFd,    (* l_connStatus.sockFd: a connection, or -1                   *)
  sem,       (* the value of g_connectedSem                                *)
  semLost,   (* the semaphore was initialised under the waiting listener   *)
  down,      (* connections that were shut down at either end              *)
  lpc,       (* where the listener is                                      *)
  voIPSock,  (* the listener's copy of the connection, or -1               *)
  readfds,   (* what is still to be looked at in this round of the listener*)
  from,      (* the session whose message it is putting                    *)
  ppc,       (* where the processor is                                     *)
  event,     (* the event it handles                                       *)
  mutex,     (* the owner of l_sessFdsMutex                                *)
  active,    (* l_activeSessFds                                            *)
  sessions,  (* sessions opened so far, by their numbers                   *)
  queue,     (* the unread events                                          *)
  asleep,    (* threads left in pthread_cond_wait by vt_initMsgQueue       *)
  server,    (* connections on which a message of the server waits         *)
  message,   (* sessions on which a peer's message or its close waits      *)
  backlog,   (* peers that connected and were not yet accepted             *)
  inputs     (* how much arrived from outside so far                       *)

linkVars == <<op, connects, sockFd, sem, semLost>>
listenerVars == <<lpc, voIPSock, readfds, from>>
processorVars == <<ppc, event>>
tableVars == <<mutex, active, sessions>>
queueVars == <<queue, asleep>>
outside == <<server, message, backlog, inputs>>
vars == <<linkVars, down, listenerVars, processorVars, tableVars, queueVars, outside>>

Connections == 1 .. MaxConnects
Sessions == 1 .. MaxInputs

(* What events make their handlers do: nothing here, put two further       *)
(* events (hookFlashAny), open a session and put an event (callNumber), or *)
(* close the session they came over (closeFd) or, for a late NUM_CALLED    *)
(* that carries none, any session (closeFd reads beyond its data).         *)
Kinds == {"plain", "flash", "dial", "close", "misread"}
Event(kind, s) == [kind |-> kind, session |-> s]
NoSession == 0

Init ==
  /\ op = "idle" /\ connects = 0 /\ sockFd = -1
  /\ sem = 0 /\ semLost = FALSE /\ down = {}
  /\ lpc = "none" /\ voIPSock = -1 /\ readfds = {} /\ from = NoSession
  /\ ppc = "none" /\ event = Event("plain", NoSession)
  /\ mutex = "nobody" /\ active = {} /\ sessions = 0
  /\ queue = << >> /\ asleep = {}
  /\ server = {} /\ message = {} /\ backlog = 0 /\ inputs = 0

-----------------------------------------------------------------------------
(* vt_putEvent, and vt_initMsgQueue, which wakes nobody.                   *)
Full == Len(queue) = StoreEventMax
Put(thread, ev) ==
  /\ ~Full /\ thread \notin asleep
  /\ queue' = Append(queue, ev)
  /\ UNCHANGED asleep

Putting(thread) ==
  IF thread = "listener" THEN lpc \in {"putDsp", "putCall"}
  ELSE ppc \in {"put1", "put2"}

InitMsgQueue ==
  /\ queue' = << >>
  /\ asleep' = asleep \union {t \in {"listener", "processor"} : Putting(t) /\ Full}

(* Some later signal may reach such a thread; nothing promises it.         *)
WakeUp ==
  /\ \E t \in asleep : asleep' = asleep \ {t}
  /\ UNCHANGED <<linkVars, down, listenerVars, processorVars, tableVars, queue, outside>>

-----------------------------------------------------------------------------
(* What arrives from outside.                                              *)
Arrives == inputs < MaxInputs /\ inputs' = inputs + 1

ServerSends ==
  /\ Arrives
  /\ \E c \in 1 .. connects : c \notin down \union server /\ server' = server \union {c}
  /\ UNCHANGED <<linkVars, down, listenerVars, processorVars, tableVars, queueVars,
                 message, backlog>>

ServerCloses ==
  /\ Arrives
  /\ \E c \in (1 .. connects) \ down : down' = down \union {c}
  /\ UNCHANGED <<linkVars, listenerVars, processorVars, tableVars, queueVars,
                 server, message, backlog>>

PeerConnects ==
  /\ Arrives
  /\ lpc # "none"
  /\ backlog' = backlog + 1
  /\ UNCHANGED <<linkVars, down, listenerVars, processorVars, tableVars, queueVars,
                 server, message>>

(* Over a socket that is not in the table nothing is ever read.            *)
PeerSends ==
  /\ Arrives
  /\ \E s \in active \ message : message' = message \union {s}
  /\ UNCHANGED <<linkVars, down, listenerVars, processorVars, tableVars, queueVars,
                 server, backlog>>

Outside == ServerSends \/ ServerCloses \/ PeerConnects \/ PeerSends

-----------------------------------------------------------------------------
(* The operator.                                                           *)
Shut(fd) == down' = down \union ({fd} \ {-1})

(* vt_connectToServer, beginning with initConnStatus.                      *)
(* Mutant: the old socket is forgotten and not shut down.                  *)
MutConnectBegin ==
  /\ op = "idle" /\ connects < MaxConnects
  /\ sockFd' = -1
  /\ op' = "connect"
  /\ UNCHANGED <<connects, sem, semLost, down, listenerVars, processorVars, tableVars,
                 queueVars, outside>>

ConnectBegin ==
  /\ op = "idle" /\ connects < MaxConnects
  /\ Shut(sockFd)
  /\ sockFd' = -1
  /\ op' = "connect"
  /\ UNCHANGED <<connects, sem, semLost, listenerVars, processorVars, tableVars,
                 queueVars, outside>>

ConnectFails ==
  /\ op = "connect"
  /\ op' = "idle"
  /\ UNCHANGED <<connects, sockFd, sem, semLost, down, listenerVars, processorVars,
                 tableVars, queueVars, outside>>

Connected ==
  /\ op = "connect"
  /\ connects' = connects + 1
  /\ sockFd' = connects'
  /\ op' = "semInit"
  /\ UNCHANGED <<sem, semLost, down, listenerVars, processorVars, tableVars,
                 queueVars, outside>>

(* To initialise a semaphore on which a thread waits is undefined: it may  *)
(* forget that anyone waits, and then no post wakes the thread.            *)
SemInit ==
  /\ op = "semInit"
  /\ sem' = 0
  /\ semLost' \in {semLost, semLost \/ (lpc = "semWait" /\ sem = 0)}
  /\ op' = "initQueue"
  /\ UNCHANGED <<connects, sockFd, down, listenerVars, processorVars, tableVars,
                 queueVars, outside>>

(* Both threads are created by the first connect.                          *)
CreateThreads ==
  /\ lpc' = IF lpc = "none" THEN "start" ELSE lpc
  /\ ppc' = IF ppc = "none" THEN "get" ELSE ppc
  /\ UNCHANGED <<voIPSock, readfds, from, event>>

ConnectInitsQueue ==
  /\ op = "initQueue"
  /\ InitMsgQueue /\ CreateThreads
  /\ op' = "post"
  /\ UNCHANGED <<connects, sockFd, sem, semLost, down, tableVars, outside>>

SemPost ==
  /\ op = "post"
  /\ sem' = IF sem <= 0 THEN sem + 1 ELSE sem
  /\ op' = "idle"
  /\ UNCHANGED <<connects, sockFd, semLost, down, listenerVars, processorVars,
                 tableVars, queueVars, outside>>

ShutdownSocket ==
  /\ op = "idle" /\ sockFd > 0
  /\ Shut(sockFd)
  /\ sockFd' = -1
  /\ UNCHANGED <<op, connects, sem, semLost, listenerVars, processorVars, tableVars,
                 queueVars, outside>>

(* vt_msgClear and vt_msgRefresh, which wake whoever waits for room.       *)
DropEvents ==
  /\ op = "idle" /\ queue # << >>
  /\ queue' = << >>
  /\ UNCHANGED <<linkVars, down, listenerVars, processorVars, tableVars, asleep, outside>>

Connecting == ConnectFails \/ Connected \/ SemInit \/ ConnectInitsQueue \/ SemPost
Operator == ConnectBegin \/ Connecting \/ ShutdownSocket \/ DropEvents

-----------------------------------------------------------------------------
(* vt_registerSessionFd, and the same loop behind accept: a full table     *)
(* drops the socket.                                                       *)
RegisterSession ==
  /\ sessions' = sessions + 1
  /\ active' = IF Cardinality(active) < SessFdsMax
               THEN active \union {sessions'} ELSE active

-----------------------------------------------------------------------------
(* The listener.  In readfds a session stands for its socket.              *)
VoIPFd == 0
ListenFd == -1

(* The listener's loop begins by waiting for a connection if it has none.  *)
RoundBegins == IF voIPSock < 0 THEN "semWait" ELSE "watch"

ListenerStart ==
  /\ lpc = "start"
  /\ voIPSock' = sockFd
  /\ active' = {}
  /\ lpc' = RoundBegins'
  /\ UNCHANGED <<linkVars, down, readfds, from, processorVars, mutex, sessions,
                 queueVars, outside>>

SemWait ==
  /\ lpc = "semWait"
  /\ sem > 0 /\ ~semLost
  /\ sem' = sem - 1
  /\ lpc' = "semDone"
  /\ UNCHANGED <<op, connects, sockFd, semLost, down, voIPSock, readfds, from,
                 processorVars, tableVars, queueVars, outside>>

TakeSocket ==
  /\ lpc = "semDone"
  /\ voIPSock' = sockFd
  /\ lpc' = "watch"
  /\ UNCHANGED <<linkVars, down, readfds, from, processorVars, tableVars,
                 queueVars, outside>>

(* FD_SET of -1 is undefined: it does no harm, or a build that checks the  *)
(* bounds of the set ends here.                                            *)
Watch ==
  /\ lpc = "watch"
  /\ \/ mutex = "nobody" /\ lpc' = "select" /\ readfds' = active
     \/ voIPSock = -1 /\ lpc' = "undefined" /\ UNCHANGED readfds
  /\ UNCHANGED <<linkVars, down, voIPSock, from, processorVars, tableVars,
                 queueVars, outside>>

AfterDsp == IF ListenFd \in readfds THEN "accept" ELSE "lock"

Select ==
  /\ lpc = "select"
  /\ readfds' = (IF voIPSock \in server \union down THEN {VoIPFd} ELSE {})
                \union (IF backlog > 0 THEN {ListenFd} ELSE {})
                \union (readfds \intersect message)
  /\ lpc' = IF readfds' = {} THEN RoundBegins
            ELSE IF VoIPFd \in readfds' THEN "dsp" ELSE AfterDsp'
  /\ UNCHANGED <<linkVars, down, voIPSock, from, processorVars, tableVars,
                 queueVars, outside>>

(* putDspEvent: what was sent before the close is read first.              *)
ReadDsp ==
  /\ lpc = "dsp"
  /\ IF voIPSock \in server
     THEN lpc' = "putDsp" /\ server' = server \ {voIPSock} /\ UNCHANGED <<voIPSock, down>>
     ELSE lpc' = AfterDsp /\ voIPSock' = -1 /\ Shut(voIPSock) /\ UNCHANGED server
  /\ UNCHANGED <<linkVars, readfds, from, processorVars, tableVars, queueVars,
                 message, backlog, inputs>>

PutDsp ==
  /\ lpc = "putDsp"
  /\ \E kind \in {"plain", "flash"} : Put("listener", Event(kind, NoSession))
  /\ lpc' = AfterDsp
  /\ UNCHANGED <<linkVars, down, voIPSock, readfds, from, processorVars, tableVars, outside>>

Accept ==
  /\ lpc = "accept" /\ mutex = "nobody"
  /\ backlog' = backlog - 1
  /\ RegisterSession
  /\ lpc' = "lock"
  /\ UNCHANGED <<linkVars, down, voIPSock, readfds, from, processorVars, mutex,
                 queueVars, server, message, inputs>>

(* The mutex is held while the sessions are read and their events put.     *)
LockTable ==
  /\ lpc = "lock" /\ mutex = "nobody"
  /\ mutex' = "listener"
  /\ lpc' = "read"
  /\ UNCHANGED <<linkVars, down, voIPSock, readfds, from, processorVars, active,
                 sessions, queueVars, outside>>

(* Mutant: the mutex is left before the event is put.                      *)
MutReadSession ==
  /\ lpc = "read"
  /\ \E s \in readfds \intersect active :
       /\ message' = message \ {s}
       /\ mutex' = "nobody" /\ from' = s /\ lpc' = "putCall"
       /\ UNCHANGED <<active, readfds>>
  /\ UNCHANGED <<linkVars, down, voIPSock, processorVars, sessions, queueVars,
                 server, backlog, inputs>>

(* putCallEvent: a message, or the end of the session.                     *)
ReadSession ==
  /\ lpc = "read"
  /\ \E s \in readfds \intersect active :
       /\ message' = message \ {s}
       /\ \/ lpc' = "putCall" /\ from' = s /\ UNCHANGED <<active, readfds>>
          \/ /\ active' = active \ {s} /\ readfds' = readfds \ {s}
             /\ UNCHANGED <<lpc, from>>
  /\ UNCHANGED <<linkVars, down, voIPSock, processorVars, mutex, sessions, queueVars,
                 server, backlog, inputs>>

PutCall ==
  /\ lpc = "putCall"
  /\ \E kind \in {"plain", "close"} : Put("listener", Event(kind, from))
  /\ readfds' = readfds \ {from}
  /\ from' = NoSession
  /\ lpc' = "read"
  /\ UNCHANGED <<linkVars, down, voIPSock, processorVars, tableVars, outside>>

(* Mutant: the mutex is kept.                                              *)
MutRoundEnds ==
  /\ lpc = "read" /\ readfds \intersect active = {}
  /\ lpc' = RoundBegins /\ readfds' = {}
  /\ UNCHANGED <<linkVars, down, voIPSock, from, processorVars, tableVars,
                 queueVars, outside>>

RoundEnds ==
  /\ lpc = "read" /\ readfds \intersect active = {}
  /\ mutex' = "nobody"
  /\ lpc' = RoundBegins /\ readfds' = {}
  /\ UNCHANGED <<linkVars, down, voIPSock, from, processorVars, active, sessions,
                 queueVars, outside>>

Listener ==
  \/ ListenerStart \/ SemWait \/ TakeSocket \/ Watch \/ Select
  \/ ReadDsp \/ PutDsp \/ Accept \/ LockTable \/ ReadSession \/ PutCall \/ RoundEnds

-----------------------------------------------------------------------------
(* The processor.                                                          *)
FirstStep ==
  [flash |-> "put1", dial |-> "connect", close |-> "unregister", misread |-> "unregister"]
Idle == Event("plain", NoSession)

GetEvent ==
  /\ ppc = "get" /\ queue # << >>
  /\ queue' = Tail(queue)
  /\ IF Head(queue).kind = "plain" THEN UNCHANGED processorVars
     ELSE event' = Head(queue) /\ ppc' = FirstStep[event'.kind]
  /\ UNCHANGED <<linkVars, down, listenerVars, tableVars, asleep, outside>>

(* digitTimeoutHandler puts NUM_DONE.                                      *)
TimerRuns ==
  /\ Arrives
  /\ ppc = "get"
  /\ event' = Event("timer", NoSession)
  /\ ppc' = "put2"
  /\ UNCHANGED <<linkVars, down, listenerVars, tableVars, queueVars, server, message, backlog>>

(* What event.kind makes its handler put.                                  *)
FurtherEvents ==
  CASE event.kind = "timer" -> {"dial"}
    [] event.kind = "flash" -> {"plain"}
    [] OTHER -> {"plain", "misread"}

HandlerPuts ==
  /\ ppc \in {"put1", "put2"}
  /\ \E kind \in FurtherEvents : Put("processor", Event(kind, NoSession))
  /\ IF ppc = "put1" THEN ppc' = "put2" /\ UNCHANGED event
     ELSE ppc' = "get" /\ event' = Idle
  /\ UNCHANGED <<linkVars, down, listenerVars, tableVars, outside>>

(* callNumber: NUM_CALLED or NUM_ERR is put afterwards.                    *)
CallConnects ==
  /\ ppc = "connect"
  /\ ppc' \in {"register", "put2"}
  /\ UNCHANGED <<linkVars, down, listenerVars, event, tableVars, queueVars, outside>>

CallRegisters ==
  /\ ppc = "register" /\ mutex = "nobody"
  /\ RegisterSession
  /\ ppc' = "put2"
  /\ UNCHANGED <<linkVars, down, listenerVars, event, mutex, queueVars, outside>>

(* closeFd                                                                 *)
CloseUnregisters ==
  /\ ppc = "unregister" /\ mutex = "nobody"
  /\ \E s \in IF event.kind = "misread" THEN active \union {NoSession}
                                        ELSE {event.session} :
       active' = active \ {s}
  /\ ppc' = "get" /\ event' = Idle
  /\ UNCHANGED <<linkVars, down, listenerVars, mutex, sessions, queueVars, outside>>

ProcessorSteps == GetEvent \/ HandlerPuts \/ CallConnects \/ CallRegisters \/ CloseUnregisters

Next == Outside \/ Operator \/ Listener \/ ProcessorSteps \/ TimerRuns \/ WakeUp

Spec == Init /\ [][Next]_vars

(* The threads run, and a connect that was begun goes on.                  *)
FairSpec ==
  /\ Spec
  /\ WF_vars(Listener) /\ WF_vars(ProcessorSteps) /\ WF_vars(Connecting)

-----------------------------------------------------------------------------
TypeOK ==
  /\ op \in {"idle", "connect", "semInit", "initQueue", "post"}
  /\ connects \in 0 .. MaxConnects /\ sockFd \in Connections \union {-1}
  /\ sem \in 0 .. 1 /\ semLost \in BOOLEAN /\ down \subseteq Connections
  /\ lpc \in {"none", "start", "semWait", "semDone", "watch", "select", "dsp",
              "putDsp", "accept", "lock", "read", "putCall", "undefined"}
  /\ voIPSock \in Connections \union {-1}
  /\ readfds \subseteq Sessions \union {VoIPFd, ListenFd}
  /\ from \in Sessions \union {NoSession}
  /\ ppc \in {"none", "get", "put1", "put2", "connect", "register", "unregister"}
  /\ event \in [kind : Kinds \union {"timer"}, session : Sessions \union {NoSession}]
  /\ mutex \in {"nobody", "listener"}
  /\ active \subseteq Sessions /\ Cardinality(active) <= SessFdsMax
  /\ sessions \in 0 .. MaxInputs
  /\ queue \in Seq([kind : Kinds, session : Sessions \union {NoSession}])
  /\ Len(queue) <= StoreEventMax
  /\ asleep \subseteq {"listener", "processor"}
  /\ server \subseteq Connections /\ message \subseteq Sessions
  /\ backlog \in Nat /\ inputs \in 0 .. MaxInputs

(* Once a handler has closed a session (closeFd) no further event of it    *)
(* enters the queue: the listener reads a session's socket and puts what   *)
(* it read in one critical section of l_sessFdsMutex.                      *)
ClosedSessionsSilent ==
  [][Len(queue') > Len(queue) =>
       queue'[Len(queue')].session \in active \union {NoSession}]_vars

(* The processor waits for room in a queue that only it empties, or for    *)
(* the mutex of a listener that waits for room.                            *)
SelfWait == Full /\ ppc \in {"put1", "put2"}
MutualWait == Full /\ lpc = "putCall" /\ ppc \in {"register", "unregister"}

(* Why a thread may not get on.  Each of these has a counterexample or a   *)
(* hazard of its own; the promises below hold but for them.                *)
Excused ==
  semLost \/ lpc = "undefined" \/ asleep # {} \/ SelfWait \/ MutualWait

(* A connection that vt_connectToServer has made comes to be the one that  *)
(* the listener reads, unless the operator gives it up: shutting down the  *)
(* old socket sends the listener to sem_wait, where the token waits.  (One  *)
(* that the server closed may have been read and given up already.)        *)
ConnectReachesListener ==
  \A c \in Connections :
    (sockFd = c /\ op = "idle") ~> (voIPSock = c \/ sockFd # c \/ c \in down \/ Excused)

(* What a peer sent over a registered session is read, unless the session  *)
(* is closed first or the listener waits for a server.                     *)
SessionsServed ==
  \A s \in Sessions :
    (s \in active \intersect message) ~>
      (s \notin active \intersect message \/ lpc = "semWait" \/ Excused)

(* vt_putEvent waits "for consuming", and the consumer can always come:    *)
(* it is not itself kept waiting by the thread that waits for it.  The     *)
(* listener calls vt_putEvent while it holds l_sessFdsMutex.               *)
ConsumerCanCome == ~MutualWait

(* g_connectedSem is what the listener uses "to wait for connection        *)
(* success": a connection made while it waits there reaches it.  The       *)
(* semaphore is initialised anew under the waiting listener.               *)
ConnectWakesListener ==
  \A c \in Connections :
    (sockFd = c /\ op = "idle" /\ lpc = "semWait") ~> (lpc # "semWait" \/ sockFd # c)
=============================================================================
