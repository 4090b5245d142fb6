----------------------------- MODULE VoipHelper -----------------------------
(***************************************************************************)
(* The VoIP helper (src/voiphelper): the second telephone of a test.  It   *)
(* has one session (l_sessionStatus), an operator who types commands, a    *)
(* listener thread that accepts connections, and one thread per connection *)
(* that obeys the call messages the far end writes.  All of them use the   *)
(* session, the descriptor table and the process that plays the voice      *)
(* without any lock, so that a step reads or writes one field of the       *)
(* session at most.  destPort and destCtrport are written next to destIP   *)
(* and stand for it; callNumber and openChannel are read nowhere.          *)
(*                                                                         *)
(* Descriptors are numbers, given out lowest first and used again once     *)
(* closed, because the code keeps numbers after it closed them.  A far end *)
(* is named by its connection: what its CALL_MSG says of its own number    *)
(* and address is the connection itself.                                   *)
(***************************************************************************)
EXTENDS Integers, Sequences, FiniteSets

CONSTANTS
  Conn,        \* connections, each used for one call of either direction
  NONE,        \* no connection
  LISTEN,      \* what a listening descriptor refers to
  Default,     \* CLIENT_NUM of voiphelper_config.c
  Own,         \* the number the configuration file gives
  MaxFd,       \* the last descriptor of the table (3 is the first free one)
  Bounds       \* bound: commands the operator types and messages the far ends write

ASSUME HelperAssumption ==
  /\ IsFiniteSet(Conn) /\ NONE \notin Conn /\ LISTEN \notin Conn
  /\ NONE # LISTEN /\ Default # Own
  /\ MaxFd \in Nat /\ MaxFd >= 3 /\ Bounds \subseteq [typed : Nat, told : Nat]

Fd == 3..MaxFd
FdValue == Fd \cup {-1, 0}

\* CALL_MSG, of which the handlers look at the type and, of a CALL_NUMBER, at
\* the number called.  CALL_REJECT is handled as CALL_DOWN is and not told apart.
CALL_MSG == [type : {"NUMBER"}, dest : {Default, Own}]
              \cup [type : {"ACCEPT", "DOWN"}, dest : {Default}]

VARIABLES
  alive,      \* the process has not been killed by a signal
  config,     \* g_voiphConfig, of which the handlers test the number
  session,    \* l_sessionStatus; destIP and destNumber name a connection
  voice,      \* l_sendVoicePid: none (0) or sent
  fds,        \* what each descriptor refers to
  queue,      \* connections made but not accepted
  inbox,      \* what the far end wrote and nobody read
  gone,       \* connections the far end has closed
  listener,   \* handleClientConn: where it is, its listenfd and connectfd
  thread,     \* handleClient, one per connection; sock is rejectCall's
  operator,   \* main: where it is, its sockfd or fd, whom it calls
  typed, told, \* how much of the bounds is left
  caller,     \* history: whose CALL_NUMBER made it ring last
  together    \* history: that call was handled while another one was, or
              \* while the listener initialised the session

sockets == << fds, queue, inbox, gone >>
bounds == << typed, told >>
histories == << caller, together >>
vars == << alive, config, session, voice, sockets, listener, thread, operator, bounds,
           histories >>

Init ==
  /\ alive = TRUE
  /\ config \in {[number |-> Own], [number |-> Default]}
  /\ session = [fxsState |-> "ZERO", destIP |-> NONE, destNumber |-> NONE, connectfd |-> 0]
  /\ voice = "none"
  /\ fds = [f \in Fd |-> NONE]
  /\ queue = <<>>
  /\ inbox = [c \in Conn |-> <<>>]
  /\ gone = {}
  /\ listener = [pc |-> "start", listenfd |-> -1, connectfd |-> -1]
  /\ thread = [c \in Conn |-> [pc |-> "none", arg |-> "none", fd |-> -1, file |-> NONE,
                               dest |-> Default, sock |-> -1]]
  /\ operator = [pc |-> "prompt", fd |-> -1, conn |-> NONE]
  /\ \E b \in Bounds : typed = b.typed /\ told = b.told
  /\ caller = NONE /\ together = FALSE

-----------------------------------------------------------------------------
(* The descriptor table and the sockets. *)

Open(c) == \E f \in Fd : fds[f] = c
FreeFds == {f \in Fd : fds[f] = NONE}
LowestFree == CHOOSE f \in FreeFds : \A g \in FreeFds : f <= g
File(fd) == IF fd \in Fd THEN fds[fd] ELSE NONE
Live(c) == \/ Open(c)
           \/ \E t \in Conn : thread[t].file = c
           \/ \E i \in DOMAIN queue : queue[i] = c

\* A connection is used once: it has a thread, or the operator is about to
\* make one.
Begun(c) == thread[c].pc # "none" \/ operator.conn = c
Unused(c) == ~Begun(c) /\ \A i \in DOMAIN queue : queue[i] # c

Close(fd) == fds' = [f \in Fd |-> IF f = fd THEN NONE ELSE fds[f]]

\* sock_tcpWrite.  A write to a connection whose far end has gone, or to a
\* listening socket, may raise SIGPIPE, which nobody catches.
WriteKills(fd) == File(fd) = LISTEN \/ File(fd) \in gone
WriteTo(fd) == alive' \in {TRUE, ~WriteKills(fd)}

\* kill(l_sendVoicePid, SIGQUIT): before any voice was played the pid is 0,
\* and the signal goes to the helper's own process group.
KillSpares == voice = "sent"

\* rejectCall and downCall: the write, and the end of the voice.
WriteAndKill(fd) == alive' \in {KillSpares, KillSpares /\ ~WriteKills(fd)}

\* sendVoice: fork and exec wav2rtp; the pid is kept for good, also when the
\* process has ended or (-1) was never made.
SendVoice == voice' = "sent"

\* sock_tcpRead on the file a descriptor referred to when reading began.
ReadResult(d) ==
  CASE d \notin Conn -> "SOCKERR_IO"
    [] d \in Conn /\ inbox[d] # <<>> -> "message"
    [] d \in gone /\ inbox[d] = <<>> -> "SOCKERR_CLOSED"
    [] OTHER -> "blocks"

\* One field of the session is written.
SetState(state) == session' = [session EXCEPT !.fxsState = state]

-----------------------------------------------------------------------------
(* The configuration. *)

\* voiph_initConfig: no file gives the defaults, a bad IP leaves the number alone.
InitConfig(file) ==
  CASE file = "missing" -> [number |-> Default]
    [] file = "badIP"   -> config
    [] file = "good"    -> [number |-> Own]

-----------------------------------------------------------------------------
(* The operator.  A word that begins with no name of the command table, and *)
(* a call without a number, only print a message.                          *)

Type == alive /\ operator.pc = "prompt" /\ typed > 0 /\ typed' = typed - 1
OperatorAt(pc) == alive /\ operator.pc = pc
OperatorGoes(pc) == operator' = [operator EXCEPT !.pc = pc]
Done == operator' = [pc |-> "prompt", fd |-> -1, conn |-> NONE]

\* rejectCall and downCall: write to the session's connection, stop the
\* voice, hang up.
RejectOrDown ==
  /\ Type
  /\ operator' = [operator EXCEPT !.pc = "reject", !.fd = session.connectfd]
  /\ UNCHANGED << alive, config, session, voice, sockets, listener, thread, told, histories >>

WriteReject ==
  /\ OperatorAt("reject")
  /\ WriteAndKill(operator.fd)
  /\ OperatorGoes("hookOn")
  /\ UNCHANGED << config, session, voice, sockets, listener, thread, bounds, histories >>

HangUp ==
  /\ OperatorAt("hookOn")
  /\ SetState("HOOK_ON")
  /\ Done
  /\ UNCHANGED << alive, config, voice, sockets, listener, thread, bounds, histories >>

\* acceptCall: nobody asks whether the telephone rings.
AcceptCall ==
  /\ Type
  /\ operator' = [operator EXCEPT !.pc = "accept", !.fd = session.connectfd]
  /\ UNCHANGED << alive, config, session, voice, sockets, listener, thread, told, histories >>

WriteAccept ==
  /\ OperatorAt("accept")
  /\ WriteTo(operator.fd)
  /\ OperatorGoes("talking")
  /\ UNCHANGED << config, session, voice, sockets, listener, thread, bounds, histories >>

Talk ==
  /\ OperatorAt("talking")
  /\ SetState("TALKING")
  /\ OperatorGoes("sleep")
  /\ UNCHANGED << alive, config, voice, sockets, listener, thread, bounds, histories >>

AcceptSends ==
  /\ OperatorAt("sleep")
  /\ SendVoice
  /\ Done
  /\ UNCHANGED << alive, config, session, sockets, listener, thread, bounds, histories >>

\* call: the connection is made, or not (nobody listens at the port called,
\* no descriptor is left).
Call(c) ==
  /\ Type
  /\ Unused(c) /\ FreeFds # {}
  /\ fds' = [fds EXCEPT ![LowestFree] = c]
  /\ operator' = [pc |-> "connected", fd |-> LowestFree, conn |-> c]
  /\ UNCHANGED << alive, config, session, voice, queue, inbox, gone, listener, thread, told,
                  histories >>

CallFails ==
  /\ Type
  /\ OperatorGoes("calling")
  /\ UNCHANGED << alive, config, session, voice, sockets, listener, thread, told, histories >>

CallSetsFd ==
  /\ OperatorAt("connected")
  /\ session' = [session EXCEPT !.connectfd = operator.fd]
  /\ OperatorGoes("number")
  /\ UNCHANGED << alive, config, voice, sockets, listener, thread, bounds, histories >>

CallSetsNumber ==
  /\ OperatorAt("number")
  /\ session' = [session EXCEPT !.destNumber = NONE]
  /\ OperatorGoes("write")
  /\ UNCHANGED << alive, config, voice, sockets, listener, thread, bounds, histories >>

\* The write may fail.  The thread is made all the same; it is given the
\* address of the session's descriptor, and reads the descriptor when it
\* begins.  The state stays as it was when the write went well.
WriteNumber ==
  /\ OperatorAt("write")
  /\ WriteTo(operator.fd)
  /\ IF alive'
       THEN /\ thread' = [thread EXCEPT ![operator.conn].pc = "born",
                                        ![operator.conn].arg = "session"]
            /\ \/ Done
               \/ operator' = [pc |-> "calling", fd |-> -1, conn |-> NONE]
       ELSE UNCHANGED << thread, operator >>
  /\ UNCHANGED << config, session, voice, sockets, listener, bounds, histories >>

CallFailed ==
  /\ OperatorAt("calling")
  /\ SetState("CALLING")
  /\ Done
  /\ UNCHANGED << alive, config, voice, sockets, listener, thread, bounds, histories >>

Reload ==
  /\ Type
  /\ \E file \in {"missing", "badIP", "good"} : config' = InitConfig(file)
  /\ UNCHANGED << alive, session, voice, sockets, listener, thread, operator, told, histories >>

-----------------------------------------------------------------------------
(* The listener thread: handleClientConn. *)

ListenerAt(pc) == alive /\ listener.pc = pc
ListenerGoes(pc) == listener' = [listener EXCEPT !.pc = pc]

\* The threads that handle a CALL_NUMBER, from the test of the state to the
\* last write.
Ringing(c) == thread[c].pc \in {"fxsState", "destIP", "destNumber", "connectfd"}

\* sock_tcpServer: bind or listen may fail, and the thread ends.
Listen ==
  /\ ListenerAt("start")
  /\ \/ /\ FreeFds # {}
        /\ fds' = [fds EXCEPT ![LowestFree] = LISTEN]
        /\ listener' = [listener EXCEPT !.pc = "init", !.listenfd = LowestFree]
     \/ ListenerGoes("ended") /\ UNCHANGED fds
  /\ UNCHANGED << alive, config, session, voice, queue, inbox, gone, thread, operator, bounds,
                  histories >>

\* initSessionStatus.  The operator may have been typing, and called, before.
InitState ==
  /\ ListenerAt("init")
  /\ SetState("HOOK_ON")
  /\ together' = (together \/ \E c \in Conn : Ringing(c))
  /\ ListenerGoes("initIP")
  /\ UNCHANGED << alive, config, voice, sockets, thread, operator, bounds, caller >>

InitIP ==
  /\ ListenerAt("initIP")
  /\ session' = [session EXCEPT !.destIP = NONE]
  /\ ListenerGoes("initFd")
  /\ UNCHANGED << alive, config, voice, sockets, thread, operator, bounds, histories >>

InitFd ==
  /\ ListenerAt("initFd")
  /\ session' = [session EXCEPT !.connectfd = -1]
  /\ ListenerGoes("accept")
  /\ UNCHANGED << alive, config, voice, sockets, thread, operator, bounds, histories >>

\* The thread is given the address of the listener's own connectfd, which
\* the next accept overwrites.
Accept ==
  /\ ListenerAt("accept") /\ queue # <<>>
  /\ File(listener.listenfd) = LISTEN /\ FreeFds # {}
  /\ fds' = [fds EXCEPT ![LowestFree] = Head(queue)]
  /\ thread' = [thread EXCEPT ![Head(queue)].pc = "born", ![Head(queue)].arg = "listener"]
  /\ queue' = Tail(queue)
  /\ listener' = [listener EXCEPT !.connectfd = LowestFree]
  /\ UNCHANGED << alive, config, session, voice, inbox, gone, operator, bounds, histories >>

\* MUTANT of AcceptFails: the lost listening descriptor is not noticed.
MutAcceptFails ==
  /\ ListenerAt("accept") /\ queue # <<>> /\ FreeFds = {}
  /\ Close(listener.listenfd)
  /\ listener' = [pc |-> "spins", listenfd |-> -1, connectfd |-> -1]
  /\ UNCHANGED << alive, config, session, voice, queue, inbox, gone, thread, operator, bounds,
                  histories >>

\* No descriptor is left, or the listening one was closed by a thread.  The
\* "redo" calls listen() with the port for a descriptor, which fails, so that
\* accept fails for ever.
AcceptFails ==
  /\ ListenerAt("accept")
  /\ File(listener.listenfd) # LISTEN \/ (queue # <<>> /\ FreeFds = {})
  /\ Close(listener.listenfd)
  /\ listener' = [pc |-> "spins", listenfd |-> -1, connectfd |-> -1]
  /\ UNCHANGED << alive, config, session, voice, queue, inbox, gone, thread, operator, bounds,
                  histories >>

-----------------------------------------------------------------------------
(* The thread of a connection: handleClient. *)

At(c, pc) == alive /\ thread[c].pc = pc
Goes(c, pc) == thread' = [thread EXCEPT ![c].pc = pc]

\* pthread_create's argument is read only now.
Begin(c) ==
  LET fd == IF thread[c].arg = "listener" THEN listener.connectfd ELSE session.connectfd IN
  /\ At(c, "born")
  /\ thread' = [thread EXCEPT ![c].pc = "read", ![c].fd = fd, ![c].file = File(fd)]
  /\ UNCHANGED << alive, config, session, voice, sockets, listener, operator, bounds, histories >>

\* Reading stays with the file it began with, and the next read asks the table
\* again what the descriptor refers to.
ReadsAgain(c) ==
  thread' = [thread EXCEPT ![c].pc = "read", ![c].file = File(thread[c].fd),
                           ![c].dest = Default]

Read(c) ==
  LET d == thread[c].file
      m == Head(inbox[d])
  IN /\ At(c, "read") /\ ReadResult(d) = "message"
     /\ inbox' = [inbox EXCEPT ![d] = Tail(@)]
     /\ thread' = [thread EXCEPT ![c].pc = m.type, ![c].dest = m.dest]
     /\ UNCHANGED << alive, config, session, voice, fds, queue, gone, listener, operator,
                     bounds, histories >>

\* CALL_NUMBER when the telephone hangs: it rings.  MUTANT: a busy telephone
\* is not told from a hanging one.
MutMayRing == TRUE
MayRing == session.fxsState = "HOOK_ON"

TestState(c) ==
  /\ At(c, "NUMBER")
  /\ IF MayRing
       THEN /\ Goes(c, "fxsState")
            /\ together' = (\/ \E t \in Conn \ {c} : Ringing(t)
                            \/ listener.pc \in {"initIP", "initFd"})
       ELSE ReadsAgain(c) /\ UNCHANGED together
  /\ UNCHANGED << alive, config, session, voice, sockets, listener, operator, bounds, caller >>

RingState(c) ==
  /\ At(c, "fxsState")
  /\ SetState("BECALLED")
  /\ caller' = thread[c].file
  /\ Goes(c, "destIP")
  /\ UNCHANGED << alive, config, voice, sockets, listener, operator, bounds, together >>

RingIP(c) ==
  /\ At(c, "destIP")
  /\ session' = [session EXCEPT !.destIP = thread[c].file]
  /\ Goes(c, "destNumber")
  /\ UNCHANGED << alive, config, voice, sockets, listener, operator, bounds, histories >>

RingNumber(c) ==
  /\ At(c, "destNumber")
  /\ session' = [session EXCEPT !.destNumber = thread[c].file]
  /\ Goes(c, "connectfd")
  /\ UNCHANGED << alive, config, voice, sockets, listener, operator, bounds, histories >>

\* MUTANT: the session keeps its old descriptor.
MutSetFd(c) == session
SetFd(c) == [session EXCEPT !.connectfd = thread[c].fd]

RingFd(c) ==
  /\ At(c, "connectfd")
  /\ session' = SetFd(c)
  /\ Goes(c, "compare")
  /\ UNCHANGED << alive, config, voice, sockets, listener, operator, bounds, histories >>

\* The number called is not ours: rejectCall, on whatever connection the
\* session has by now.
Compare(c) ==
  /\ At(c, "compare")
  /\ IF thread[c].dest = config.number THEN ReadsAgain(c) ELSE Goes(c, "reject")
  /\ UNCHANGED << alive, config, session, voice, sockets, listener, operator, bounds, histories >>

Reject(c) ==
  /\ At(c, "reject")
  /\ thread' = [thread EXCEPT ![c].pc = "write", ![c].sock = session.connectfd]
  /\ UNCHANGED << alive, config, session, voice, sockets, listener, operator, bounds, histories >>

RejectWrites(c) ==
  /\ At(c, "write")
  /\ WriteAndKill(thread[c].sock)
  /\ thread' = [thread EXCEPT ![c].pc = "hookOn", ![c].sock = -1]
  /\ UNCHANGED << config, session, voice, sockets, listener, operator, bounds, histories >>

\* The end of rejectCall, or a CALL_DOWN: the call is over.
HookOn(c) ==
  /\ alive /\ thread[c].pc \in {"hookOn", "DOWN"}
  /\ SetState("HOOK_ON")
  /\ Goes(c, "close")
  /\ UNCHANGED << alive, config, voice, sockets, listener, operator, bounds, histories >>

Accepted(c) ==
  /\ At(c, "ACCEPT")
  /\ SendVoice
  /\ Goes(c, "talking")
  /\ UNCHANGED << alive, config, session, sockets, listener, operator, bounds, histories >>

Talks(c) ==
  /\ At(c, "talking")
  /\ SetState("TALKING")
  /\ ReadsAgain(c)
  /\ UNCHANGED << alive, config, voice, sockets, listener, operator, bounds, histories >>

\* MUTANT of ReadEnds: the end of the stream is taken for no message yet.
MutReadEnds(c) ==
  /\ At(c, "read") /\ ReadResult(thread[c].file) = "SOCKERR_IO"
  /\ Goes(c, "close")
  /\ UNCHANGED << alive, config, session, voice, sockets, listener, operator, bounds, histories >>

\* SOCKERR_CLOSED and SOCKERR_IO: the telephone's state is left as it is.
ReadEnds(c) ==
  /\ At(c, "read")
  /\ ReadResult(thread[c].file) \in {"SOCKERR_CLOSED", "SOCKERR_IO"}
  /\ Goes(c, "close")
  /\ UNCHANGED << alive, config, session, voice, sockets, listener, operator, bounds, histories >>

\* close and kill, and then close once more: by then the number may belong to
\* another connection.
Finish(c) ==
  /\ At(c, "close")
  /\ Close(thread[c].fd)
  /\ alive' = KillSpares
  /\ thread' = [thread EXCEPT ![c].pc = "close2", ![c].file = NONE, ![c].dest = Default]
  /\ UNCHANGED << config, session, voice, queue, inbox, gone, listener, operator, bounds,
                  histories >>

CloseAgain(c) ==
  /\ At(c, "close2")
  /\ Close(thread[c].fd)
  /\ thread' = [thread EXCEPT ![c].pc = "done", ![c].fd = -1]
  /\ UNCHANGED << alive, config, session, voice, queue, inbox, gone, listener, operator, bounds,
                  histories >>

-----------------------------------------------------------------------------
(* The far ends, external. *)

FarConnects(c) ==
  /\ alive /\ Unused(c)
  /\ \E f \in Fd : fds[f] = LISTEN
  /\ queue' = Append(queue, c)
  /\ UNCHANGED << alive, config, session, voice, fds, inbox, gone, listener, thread, operator,
                  bounds, histories >>

FarWrites(c, m) ==
  /\ alive /\ Live(c) /\ c \notin gone /\ told > 0
  /\ inbox' = [inbox EXCEPT ![c] = Append(@, m)]
  /\ told' = told - 1
  /\ UNCHANGED << alive, config, session, voice, fds, queue, gone, listener, thread, operator,
                  typed, histories >>

FarCloses(c) ==
  /\ alive /\ Live(c) /\ c \notin gone
  /\ gone' = gone \cup {c}
  /\ UNCHANGED << alive, config, session, voice, fds, queue, inbox, listener, thread, operator,
                  bounds, histories >>

-----------------------------------------------------------------------------
Listener == Listen \/ InitState \/ InitIP \/ InitFd \/ Accept \/ AcceptFails

Rings(c) == TestState(c) \/ RingState(c) \/ RingIP(c) \/ RingNumber(c) \/ RingFd(c)
Refuses(c) == Compare(c) \/ Reject(c) \/ RejectWrites(c)
HandleClient(c) ==
  \/ Begin(c) \/ Read(c) \/ ReadEnds(c)
  \/ Rings(c) \/ Refuses(c) \/ HookOn(c) \/ Accepted(c) \/ Talks(c)
  \/ Finish(c) \/ CloseAgain(c)

Commands ==
  \/ RejectOrDown \/ AcceptCall \/ CallFails \/ Reload
  \/ \E c \in Conn : Call(c)

\* What the operator's thread does by itself once a command is typed.
Executes ==
  \/ WriteReject \/ HangUp
  \/ WriteAccept \/ Talk \/ AcceptSends
  \/ CallSetsFd \/ CallSetsNumber \/ WriteNumber \/ CallFailed

FarEnd(c) == FarConnects(c) \/ FarCloses(c) \/ \E m \in CALL_MSG : FarWrites(c, m)

Next ==
  \/ Commands
  \/ Executes
  \/ Listener
  \/ \E c \in Conn : HandleClient(c)
  \/ \E c \in Conn : FarEnd(c)

\* The threads are scheduled; the operator and the far ends may do nothing.
Spec == Init /\ [][Next]_vars /\ WF_vars(Listener) /\ \A c \in Conn : WF_vars(HandleClient(c))

-----------------------------------------------------------------------------
\* Every variable keeps its shape, over all handlers of voiphelper_main.c.
TypeOK ==
  /\ alive \in BOOLEAN
  /\ config \in [number : {Default, Own}]
  /\ session \in [fxsState : {"ZERO", "HOOK_ON", "BECALLED", "TALKING", "CALLING"},
                  destIP : Conn \cup {NONE, LISTEN}, destNumber : Conn \cup {NONE, LISTEN},
                  connectfd : FdValue]
  /\ voice \in {"none", "sent"}
  /\ fds \in [Fd -> Conn \cup {NONE, LISTEN}]
  /\ queue \in Seq(Conn) /\ inbox \in [Conn -> Seq(CALL_MSG)] /\ gone \subseteq Conn
  /\ listener \in [pc : {"start", "init", "initIP", "initFd", "accept", "spins", "ended"},
                   listenfd : FdValue, connectfd : FdValue]
  /\ thread \in [Conn -> [pc : {"none", "born", "read", "NUMBER", "fxsState", "destIP",
                                "destNumber", "connectfd", "compare", "reject", "write",
                                "hookOn", "DOWN", "ACCEPT", "talking", "close", "close2",
                                "done"},
                          arg : {"none", "listener", "session"},
                          fd : FdValue, file : Conn \cup {NONE, LISTEN},
                          dest : {Default, Own}, sock : FdValue]]
  /\ operator \in [pc : {"prompt", "reject", "hookOn", "accept", "talking", "sleep",
                         "connected", "number", "write", "calling"},
                   fd : FdValue, conn : Conn \cup {NONE}]
  /\ typed \in Nat /\ told \in Nat
  /\ caller \in Conn \cup {NONE, LISTEN} /\ together \in BOOLEAN

\* The telephone rings and the session is complete: no thread is in the middle
\* of writing it, nor is the operator's call.
Rung ==
  /\ session.fxsState = "BECALLED"
  /\ \A c \in Conn : ~Ringing(c)
  /\ operator.pc # "number"

\* While the telephone rings, and the operator has called nobody since, the
\* session names the caller who made it ring, and as long as his connection is
\* open the answer the operator would type (acceptCall, rejectCall) goes to
\* it, whatever was closed and opened meanwhile.  Two calls handled at once,
\* or one while the session is initialised, may mix: that is excepted.
AnswersReachCaller ==
  alive /\ Rung /\ ~together /\ session.destNumber # NONE =>
    /\ session.destNumber = caller /\ session.destIP = caller
    /\ Open(caller) => File(session.connectfd) = caller

\* As long as it rings, no second caller takes the place of the first (the
\* state test of handleClient's CALL_NUMBER), unless both had passed the test
\* before one of them was through.
RingingCallerKept ==
  [][session.fxsState = "BECALLED" /\ session'.fxsState = "BECALLED" /\ ~together'
       => caller' = caller]_vars

\* A connection some thread reads, whose far end is gone, is closed: the
\* thread reaches the end of handleClient whatever it is doing.
ConnectionsEnd ==
  \A c \in Conn :
    (c \in gone /\ \E t \in Conn : thread[t].file = c) ~> (~alive \/ ~Open(c))

\* A caller who connects is accepted, unless the listener ended (it could not
\* listen) or spins on an accept that fails.
CallersGetAccepted ==
  \A c \in Conn :
    (\E i \in DOMAIN queue : queue[i] = c)
      ~> (~alive \/ Open(c) \/ thread[c].pc # "none" \/ listener.pc \in {"spins", "ended"})

\* The thread of a call reads the connection of that call ("When connect to
\* another client, we create a pthread to read information from it.",
\* voiphelper_main.c).  The code does not keep this.
CallIsRead ==
  \A c \in Conn :
    thread[c].arg = "session" /\ thread[c].pc = "read" /\ Open(c) => File(thread[c].fd) = c
=============================================================================
