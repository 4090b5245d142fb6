--------------------------- MODULE VoipHelperProofs ---------------------------
(***************************************************************************)
(* Theorems about VoipHelper for any number of connections, descriptors    *)
(* and commands: types, that the operator's answer reaches the caller for  *)
(* whom the telephone rings, and that no one takes this caller's place,    *)
(* with the exceptions the properties name.                                *)
(***************************************************************************)
EXTENDS VoipHelper, WellFoundedInduction, SequenceTheorems, TLAPS

(* Descriptors are used again once closed, connections are not: wherever a *)
(* connection is open, it is open as fd.                                   *)
Follows(fd, d) == \A f \in Fd : fds[f] = d => f = fd

(* A connection has one descriptor at most, and it has one only after it   *)
(* was waiting in the queue.                                               *)
OneDescriptor ==
  /\ \A f \in Fd : fds[f] \in Conn => Begun(fds[f]) /\ Follows(f, fds[f])
  /\ \A i \in DOMAIN queue : ~Begun(queue[i])
  /\ \A i, j \in DOMAIN queue : queue[i] = queue[j] => i = j

(* A thread that reads a connection knows its descriptor as long as it is  *)
(* open, whoever closed descriptors meanwhile.                             *)
ThreadsFollow ==
  \A t \in Conn :
    /\ thread[t].file \in Conn => Begun(thread[t].file) /\ Follows(thread[t].fd, thread[t].file)
    /\ thread[t].pc = "close2" => thread[t].file = NONE

(* A thread that handles a CALL_NUMBER read it from a connection, and the  *)
(* operator's call has one until the thread is made.                       *)
Places ==
  /\ \A t \in Conn : thread[t].pc = "NUMBER" \/ Ringing(t) => thread[t].file \in Conn
  /\ operator.pc \in {"connected", "number", "write"} \/ operator.conn = NONE
  /\ \A t \in Conn : operator.conn = t => thread[t].pc = "none"

(* Unless calls were handled together, one thread writes the session, and  *)
(* it found the telephone hanging.                                         *)
RingsAlone ==
  ~together =>
    /\ \A t, u \in Conn : Ringing(t) /\ Ringing(u) => t = u
    /\ listener.pc \in {"initIP", "initFd"} =>
         session.fxsState # "BECALLED" /\ \A t \in Conn : ~Ringing(t)
    /\ session.fxsState = "BECALLED" => \A t \in Conn : thread[t].pc # "fxsState"

(* The fields a thread has written are its caller's.                       *)
RingsInOrder ==
  ~together =>
    \A t \in Conn :
      /\ thread[t].pc \in {"destIP", "destNumber", "connectfd"} => caller = thread[t].file
      /\ thread[t].pc \in {"destNumber", "connectfd"} => session.destIP = thread[t].file
      /\ thread[t].pc = "connectfd" => session.destNumber \in {thread[t].file, NONE}

(* The session of a telephone that rings, once it is complete.             *)
SessionFollows ==
  Rung /\ ~together /\ session.destNumber # NONE =>
    /\ session.destNumber = caller /\ session.destIP = caller
    /\ caller \in Conn /\ Begun(caller) /\ Follows(session.connectfd, caller)

(* Types, part by part.                                                    *)
SESSION == [fxsState : {"ZERO", "HOOK_ON", "BECALLED", "TALKING", "CALLING"},
            destIP : Conn \cup {NONE, LISTEN}, destNumber : Conn \cup {NONE, LISTEN},
            connectfd : FdValue]
LISTENER == [pc : {"start", "init", "initIP", "initFd", "accept", "spins", "ended"},
             listenfd : FdValue, connectfd : FdValue]
THREAD == [pc : {"none", "born", "read", "NUMBER", "fxsState", "destIP", "destNumber",
                 "connectfd", "compare", "reject", "write", "hookOn", "DOWN", "ACCEPT",
                 "talking", "close", "close2", "done"},
           arg : {"none", "listener", "session"},
           fd : FdValue, file : Conn \cup {NONE, LISTEN},
           dest : {Default, Own}, sock : FdValue]
OPERATOR == [pc : {"prompt", "reject", "hookOn", "accept", "talking", "sleep",
                   "connected", "number", "write", "calling"},
             fd : FdValue, conn : Conn \cup {NONE}]

DataOK ==
  /\ config \in [number : {Default, Own}]
  /\ voice \in {"none", "sent"}
  /\ typed \in Nat /\ told \in Nat
  /\ caller \in Conn \cup {NONE, LISTEN} /\ together \in BOOLEAN

FilesOK ==
  /\ fds \in [Fd -> Conn \cup {NONE, LISTEN}]
  /\ queue \in Seq(Conn) /\ inbox \in [Conn -> Seq(CALL_MSG)] /\ gone \subseteq Conn

ThreadsOK == listener \in LISTENER /\ thread \in [Conn -> THREAD]
OperatorOK == operator \in OPERATOR
SessionOK == session \in SESSION
AliveOK == alive \in BOOLEAN

TypesOK == DataOK /\ FilesOK /\ ThreadsOK /\ OperatorOK /\ SessionOK /\ AliveOK

Descriptors == OneDescriptor /\ ThreadsFollow /\ Places
RingsRight == RingsAlone /\ RingsInOrder /\ SessionFollows

IInv == TypesOK /\ Descriptors /\ RingsRight

-----------------------------------------------------------------------------
(* A nonempty set of naturals has a least element.                         *)
LEMMA LeastNumber ==
  ASSUME NEW T, T \subseteq Nat, T # {}
  PROVE  \E x \in T : \A y \in T : x <= y
<1>1. PICK x \in T : \A y \in T : ~ (<<y, x>> \in OpToRel(<, Nat))
  BY WFMin, NatLessThanWellFounded, Zenon
<1>2. ASSUME NEW y \in T
      PROVE  x <= y
  <2>1. ~ (<<y, x>> \in {ss \in Nat \X Nat : ss[1] < ss[2]})
    BY <1>1, Zenon DEF OpToRel
  <2>2. x \in Nat /\ y \in Nat
    OBVIOUS
  <2>3. QED
    BY <2>1, <2>2
<1>3. QED
  BY <1>2

(* The descriptor given out is free.                                       *)
LEMMA LowestIsFree ==
  ASSUME FreeFds # {}
  PROVE  LowestFree \in Fd /\ fds[LowestFree] = NONE
<1>1. FreeFds \subseteq Nat
  BY DEF FreeFds, Fd
<1>2. \E f \in FreeFds : \A g \in FreeFds : f <= g
  BY <1>1, LeastNumber
<1>3. LowestFree \in FreeFds
  BY <1>2 DEF LowestFree
<1>4. QED
  BY <1>3 DEF FreeFds

LEMMA InitHolds == Init => IInv
<1>. SUFFICES ASSUME Init PROVE IInv
  OBVIOUS
<1>1. PICK b \in Bounds : typed = b.typed /\ told = b.told
  BY DEF Init
<1>2. typed \in Nat /\ told \in Nat
  BY <1>1, HelperAssumption
<1>3. TypesOK
  <2>1. DataOK /\ AliveOK
    <3>1. config \in [number : {Default, Own}]
      BY DEF Init
    <3>2. together \in BOOLEAN /\ AliveOK
      BY Zenon DEF Init, AliveOK
    <3>3. voice \in {"none", "sent"} /\ caller \in Conn \cup {NONE, LISTEN}
      BY DEF Init
    <3>4. QED
      BY <1>2, <3>1, <3>2, <3>3 DEF DataOK
  <2>2. FilesOK
    BY DEF Init, FilesOK
  <2>3. SessionOK /\ OperatorOK
    BY DEF Init, SessionOK, OperatorOK, SESSION, OPERATOR, FdValue
  <2>4. ThreadsOK
    BY DEF Init, ThreadsOK, LISTENER, THREAD, FdValue
  <2>5. QED
    BY <2>1, <2>2, <2>3, <2>4 DEF TypesOK
<1>4. OneDescriptor /\ ThreadsFollow
  BY HelperAssumption DEF Init, OneDescriptor, ThreadsFollow, Begun
<1>5. Places /\ RingsAlone /\ RingsInOrder /\ SessionFollows
  BY HelperAssumption DEF Init, Places, RingsAlone, RingsInOrder, SessionFollows, Ringing, Rung
<1>6. QED
  BY <1>3, <1>4, <1>5 DEF IInv, Descriptors, RingsRight

-----------------------------------------------------------------------------
(* Types.                                                                  *)
LEMMA StateTypes ==
  ASSUME SessionOK,
         NEW s \in {"ZERO", "HOOK_ON", "BECALLED", "TALKING", "CALLING"}, SetState(s)
  PROVE  SessionOK' /\ session' = [session EXCEPT !.fxsState = s] /\ session'.fxsState = s
BY DEF SetState, SessionOK, SESSION

LEMMA AliveTypes ==
  ASSUME AliveOK, NEW fd, WriteTo(fd) \/ WriteAndKill(fd) \/ alive' = KillSpares \/ alive' = alive
  PROVE  AliveOK'
<1>1. KillSpares \in BOOLEAN /\ WriteKills(fd) \in BOOLEAN
  BY DEF KillSpares, WriteKills
<1>2. CASE WriteTo(fd)
  BY <1>1, <1>2 DEF WriteTo, AliveOK
<1>3. CASE WriteAndKill(fd)
  BY <1>1, <1>3 DEF WriteAndKill, AliveOK
<1>4. QED
  BY <1>1, <1>2, <1>3 DEF AliveOK

(* The operator's thread: where it is, and what else his step writes.      *)
OperatorSteps ==
  \/ RejectOrDown \/ WriteReject \/ HangUp
  \/ AcceptCall \/ WriteAccept \/ Talk \/ AcceptSends
  \/ CallFails \/ CallSetsFd \/ CallSetsNumber \/ CallFailed
  \/ Reload

LEMMA OperatorTypes ==
  ASSUME TypesOK, OperatorSteps
  PROVE  TypesOK'
<1>. USE DEF TypesOK
<1>1. CASE RejectOrDown \/ AcceptCall \/ CallFails \/ Reload
  <2>1. DataOK'
    BY <1>1 DEF RejectOrDown, AcceptCall, CallFails, Reload, Type, InitConfig, histories, DataOK
  <2>2. FilesOK' /\ ThreadsOK' /\ SessionOK' /\ AliveOK'
    BY <1>1 DEF RejectOrDown, AcceptCall, CallFails, Reload, sockets, FilesOK, ThreadsOK,
                SessionOK, AliveOK
  <2>3. OperatorOK'
    BY <1>1 DEF RejectOrDown, AcceptCall, CallFails, Reload, OperatorGoes, OperatorOK, OPERATOR,
                SessionOK, SESSION
  <2>4. QED
    BY <2>1, <2>2, <2>3
<1>2. CASE \/ WriteReject \/ HangUp \/ WriteAccept \/ Talk \/ AcceptSends
           \/ CallSetsFd \/ CallSetsNumber \/ CallFailed
  <2>1. DataOK'
    BY <1>2 DEF WriteReject, HangUp, WriteAccept, Talk, AcceptSends, CallSetsFd, CallSetsNumber,
                CallFailed, SendVoice, bounds, histories, DataOK
  <2>2. FilesOK' /\ ThreadsOK'
    BY <1>2 DEF WriteReject, HangUp, WriteAccept, Talk, AcceptSends, CallSetsFd, CallSetsNumber,
                CallFailed, sockets, FilesOK, ThreadsOK
  <2>3. OperatorOK'
    BY <1>2 DEF WriteReject, HangUp, WriteAccept, Talk, AcceptSends, CallSetsFd, CallSetsNumber,
                CallFailed, OperatorGoes, Done, OperatorOK, OPERATOR, FdValue
  <2>4. AliveOK'
    BY <1>2, AliveTypes DEF WriteReject, HangUp, WriteAccept, Talk, AcceptSends, CallSetsFd,
                CallSetsNumber, CallFailed
  <2>5. SessionOK'
    <3>1. CASE HangUp \/ Talk \/ CallFailed
      BY <3>1, StateTypes DEF HangUp, Talk, CallFailed
    <3>2. CASE CallSetsFd \/ CallSetsNumber
      BY <3>2 DEF CallSetsFd, CallSetsNumber, SessionOK, SESSION, OperatorOK, OPERATOR
    <3>3. CASE WriteReject \/ WriteAccept \/ AcceptSends
      BY <3>3 DEF WriteReject, WriteAccept, AcceptSends, SessionOK
    <3>4. QED
      BY <1>2, <3>1, <3>2, <3>3
  <2>6. QED
    BY <2>1, <2>2, <2>3, <2>4, <2>5
<1>3. QED
  BY <1>1, <1>2 DEF OperatorSteps

LEMMA CallTypes ==
  ASSUME TypesOK, NEW c \in Conn, Call(c)
  PROVE  TypesOK'
<1>. USE DEF TypesOK
<1>1. LowestFree \in Fd /\ fds[LowestFree] = NONE
  BY LowestIsFree DEF Call
<1>2. DataOK' /\ AliveOK' /\ ThreadsOK' /\ SessionOK'
  BY DEF Call, Type, histories, DataOK, AliveOK, ThreadsOK, SessionOK
<1>3. FilesOK'
  BY <1>1 DEF Call, FilesOK
<1>4. OperatorOK'
  BY <1>1 DEF Call, OperatorOK, OPERATOR, FdValue
<1>5. QED
  BY <1>2, <1>3, <1>4

LEMMA WriteNumberTypes ==
  ASSUME TypesOK, WriteNumber
  PROVE  TypesOK'
<1>. USE DEF TypesOK
<1>1. DataOK' /\ FilesOK' /\ SessionOK'
  BY DEF WriteNumber, bounds, histories, sockets, DataOK, FilesOK, SessionOK
<1>2. AliveOK'
  BY AliveTypes DEF WriteNumber
<1>3. OperatorOK'
  BY DEF WriteNumber, Done, OperatorOK, OPERATOR, FdValue
<1>4. ThreadsOK'
  BY DEF WriteNumber, ThreadsOK, THREAD
<1>5. QED
  BY <1>1, <1>2, <1>3, <1>4

LEMMA ListenerTypes ==
  ASSUME TypesOK, Listener
  PROVE  TypesOK'
<1>. USE DEF TypesOK
<1>1. CASE Listen
  <2>1. DataOK' /\ SessionOK' /\ AliveOK' /\ OperatorOK'
    BY <1>1 DEF Listen, bounds, histories, DataOK, SessionOK, AliveOK, OperatorOK
  <2>2. FilesOK' /\ ThreadsOK'
    BY <1>1, LowestIsFree DEF Listen, ListenerGoes, FilesOK, ThreadsOK, LISTENER, FdValue
  <2>3. QED
    BY <2>1, <2>2
<1>2. CASE InitState
  <2>1. FilesOK' /\ AliveOK' /\ OperatorOK'
    BY <1>2 DEF InitState, sockets, FilesOK, AliveOK, OperatorOK
  <2>2. DataOK'
    BY <1>2 DEF InitState, bounds, DataOK
  <2>3. SessionOK'
    BY <1>2, StateTypes DEF InitState
  <2>4. ThreadsOK'
    BY <1>2 DEF InitState, ListenerGoes, ThreadsOK, LISTENER
  <2>5. QED
    BY <2>1, <2>2, <2>3, <2>4
<1>3. CASE InitIP \/ InitFd
  <2>1. DataOK' /\ FilesOK' /\ AliveOK' /\ OperatorOK'
    BY <1>3 DEF InitIP, InitFd, sockets, bounds, histories, DataOK, FilesOK, AliveOK, OperatorOK
  <2>2. SessionOK' /\ ThreadsOK'
    BY <1>3 DEF InitIP, InitFd, ListenerGoes, SessionOK, ThreadsOK, SESSION, LISTENER, FdValue
  <2>3. QED
    BY <2>1, <2>2
<1>4. CASE Accept
  <2>1. DataOK' /\ SessionOK' /\ AliveOK' /\ OperatorOK'
    BY <1>4 DEF Accept, bounds, histories, DataOK, SessionOK, AliveOK, OperatorOK
  <2>2. LowestFree \in Fd
    BY <1>4, LowestIsFree DEF Accept
  <2>3. Head(queue) \in Conn /\ Tail(queue) \in Seq(Conn)
    BY <1>4 DEF Accept, FilesOK
  <2>4. FilesOK'
    BY <1>4, <2>2, <2>3 DEF Accept, FilesOK
  <2>5. ThreadsOK'
    <3>1. listener' \in LISTENER
      BY <1>4, <2>2 DEF Accept, ThreadsOK, LISTENER, FdValue
    <3>2. thread' \in [Conn -> THREAD]
      <4>1. [thread[Head(queue)] EXCEPT !.pc = "born", !.arg = "listener"] \in THREAD
        BY <2>3 DEF ThreadsOK, THREAD
      <4>2. thread' = [thread EXCEPT ![Head(queue)] =
                         [thread[Head(queue)] EXCEPT !.pc = "born", !.arg = "listener"]]
        BY <1>4 DEF Accept
      <4>3. QED
        BY <2>3, <4>1, <4>2 DEF ThreadsOK
    <3>3. QED
      BY <3>1, <3>2 DEF ThreadsOK
  <2>6. QED
    BY <2>1, <2>4, <2>5
<1>5. CASE AcceptFails
  BY <1>5 DEF AcceptFails, Close, bounds, histories, DataOK, FilesOK, ThreadsOK, OperatorOK,
              SessionOK, AliveOK, LISTENER, FdValue
<1>6. QED
  BY <1>1, <1>2, <1>3, <1>4, <1>5 DEF Listener

LEMMA FileTypes ==
  ASSUME FilesOK, NEW fd
  PROVE  File(fd) \in Conn \cup {NONE, LISTEN}
BY DEF File, FilesOK

(* Threads.                                                                *)
LEMMA GoesTypes ==
  ASSUME ThreadsOK, listener' = listener, NEW c \in Conn, NEW t \in THREAD,
         thread' = [thread EXCEPT ![c] = t]
  PROVE  ThreadsOK'
BY DEF ThreadsOK

LEMMA ThreadTypes ==
  ASSUME TypesOK, NEW c \in Conn, HandleClient(c)
  PROVE  TypesOK'
<1>. USE DEF TypesOK
<1>. thread[c] \in THREAD /\ thread \in [Conn -> THREAD] /\ session \in SESSION
  BY DEF ThreadsOK, SessionOK
<1>0. File(thread[c].fd) \in Conn \cup {NONE, LISTEN}
  BY FileTypes
<1>1. DataOK' /\ OperatorOK'
  <2>1. voice' \in {voice, "sent"} /\ caller' \in {caller, thread[c].file}
    BY DEF HandleClient, Rings, Refuses, Begin, Read, ReadEnds, TestState, RingState, RingIP,
           RingNumber, RingFd, Compare, Reject, RejectWrites, HookOn, Accepted, Talks, Finish,
           CloseAgain, histories, SendVoice
  <2>2. together' \in BOOLEAN
    BY DEF HandleClient, Rings, Refuses, Begin, Read, ReadEnds, TestState, RingState, RingIP,
           RingNumber, RingFd, Compare, Reject, RejectWrites, HookOn, Accepted, Talks, Finish,
           CloseAgain, histories, DataOK
  <2>3. UNCHANGED << config, typed, told, operator >>
    BY DEF HandleClient, Rings, Refuses, Begin, Read, ReadEnds, TestState, RingState, RingIP,
           RingNumber, RingFd, Compare, Reject, RejectWrites, HookOn, Accepted, Talks, Finish,
           CloseAgain, bounds
  <2>4. thread[c].file \in Conn \cup {NONE, LISTEN}
    BY DEF THREAD
  <2>5. QED
    BY <2>1, <2>2, <2>3, <2>4 DEF DataOK, OperatorOK
<1>2. AliveOK'
  <2>1. \/ alive' = alive \/ alive' = KillSpares \/ WriteAndKill(thread[c].sock)
    BY DEF HandleClient, Rings, Refuses, Begin, Read, ReadEnds, TestState, RingState, RingIP,
           RingNumber, RingFd, Compare, Reject, RejectWrites, HookOn, Accepted, Talks, Finish,
           CloseAgain
  <2>2. QED
    BY <2>1, AliveTypes
<1>3. SessionOK'
  <2>1. CASE RingState(c) \/ HookOn(c) \/ Talks(c)
    BY <2>1, StateTypes DEF RingState, HookOn, Talks
  <2>2. CASE RingIP(c) \/ RingNumber(c) \/ RingFd(c)
    BY <2>2 DEF RingIP, RingNumber, RingFd, SetFd, SessionOK, SESSION, THREAD
  <2>3. CASE session' = session
    BY <2>3 DEF SessionOK
  <2>4. QED
    BY <2>1, <2>2, <2>3 DEF HandleClient, Rings, Refuses, Begin, Read, ReadEnds, TestState,
       Compare, Reject, RejectWrites, Accepted, Finish, CloseAgain
<1>4. FilesOK'
  <2>1. CASE Read(c)
    BY <2>1 DEF Read, ReadResult, FilesOK, ThreadsOK
  <2>2. CASE Finish(c) \/ CloseAgain(c)
    BY <2>2 DEF Finish, CloseAgain, Close, FilesOK
  <2>3. CASE UNCHANGED sockets
    BY <2>3 DEF FilesOK, sockets
  <2>4. QED
    BY <2>1, <2>2, <2>3 DEF HandleClient, Rings, Refuses, Begin, ReadEnds, TestState, RingState,
       RingIP, RingNumber, RingFd, Compare, Reject, RejectWrites, HookOn, Accepted, Talks
<1>5. ThreadsOK'
  <2>1. listener' = listener
    BY DEF HandleClient, Rings, Refuses, Begin, Read, ReadEnds, TestState, RingState, RingIP,
           RingNumber, RingFd, Compare, Reject, RejectWrites, HookOn, Accepted, Talks, Finish,
           CloseAgain
  <2>2. CASE Begin(c)
    <3>1. listener.connectfd \in FdValue /\ session.connectfd \in FdValue
      BY DEF ThreadsOK, LISTENER, SESSION
    <3>2. PICK fd \in FdValue :
            thread' = [thread EXCEPT ![c].pc = "read", ![c].fd = fd, ![c].file = File(fd)]
      BY <2>2, <3>1 DEF Begin
    <3>3. [thread[c] EXCEPT !.pc = "read", !.fd = fd, !.file = File(fd)] \in THREAD
      BY FileTypes DEF THREAD
    <3>4. thread' = [thread EXCEPT ![c] = [thread[c] EXCEPT !.pc = "read", !.fd = fd,
                                                            !.file = File(fd)]]
      BY <3>2
    <3>5. QED
      BY <2>1, <3>3, <3>4, GoesTypes
  <2>3. CASE Read(c)
    <3>1. thread[c].file \in Conn /\ inbox[thread[c].file] # << >>
      BY <2>3 DEF Read, ReadResult
    <3>2. PICK m \in CALL_MSG :
            thread' = [thread EXCEPT ![c] = [thread[c] EXCEPT !.pc = m.type, !.dest = m.dest]]
      <4>1. Head(inbox[thread[c].file]) \in CALL_MSG
        BY <3>1 DEF FilesOK
      <4>2. QED
        BY <2>3, <4>1 DEF Read
    <3>3. [thread[c] EXCEPT !.pc = m.type, !.dest = m.dest] \in THREAD
      BY DEF THREAD, CALL_MSG
    <3>4. QED
      BY <2>1, <3>2, <3>3, GoesTypes
  <2>4. CASE ReadsAgain(c)
    <3>1. [thread[c] EXCEPT !.pc = "read", !.file = File(thread[c].fd), !.dest = Default]
             \in THREAD
      BY <1>0 DEF THREAD
    <3>2. thread' = [thread EXCEPT ![c] = [thread[c] EXCEPT !.pc = "read",
                                             !.file = File(thread[c].fd), !.dest = Default]]
      BY <2>4 DEF ReadsAgain
    <3>3. QED
      BY <2>1, <3>1, <3>2, GoesTypes
  <2>5. CASE \E pc \in {"fxsState", "destIP", "destNumber", "connectfd", "compare", "reject",
                        "talking", "close"} : Goes(c, pc)
    BY <2>1, <2>5 DEF Goes, THREAD, ThreadsOK
  <2>6. CASE Reject(c) \/ RejectWrites(c) \/ Finish(c) \/ CloseAgain(c)
    BY <2>1, <2>6 DEF Reject, RejectWrites, Finish, CloseAgain, THREAD, ThreadsOK, SESSION, FdValue
  <2>7. QED
    BY <2>2, <2>3, <2>4, <2>5, <2>6 DEF HandleClient, Rings, Refuses, ReadEnds, TestState,
       RingState, RingIP, RingNumber, RingFd, Compare, HookOn, Accepted, Talks
<1>6. QED
  BY <1>1, <1>2, <1>3, <1>4, <1>5

LEMMA FarTypes ==
  ASSUME TypesOK, NEW c \in Conn, FarEnd(c)
  PROVE  TypesOK'
<1>. USE DEF TypesOK, DataOK, FilesOK, ThreadsOK, OperatorOK, SessionOK, AliveOK
<1>1. CASE FarConnects(c)
  BY <1>1 DEF FarConnects, bounds, histories
<1>2. CASE FarCloses(c)
  BY <1>2 DEF FarCloses, bounds, histories
<1>3. ASSUME NEW m \in CALL_MSG, FarWrites(c, m) PROVE TypesOK'
  BY <1>3 DEF FarWrites, histories
<1>4. QED
  BY <1>1, <1>2, <1>3 DEF FarEnd

-----------------------------------------------------------------------------
(* Who follows a connection goes on to follow it, when none is opened that *)
(* was begun before.                                                       *)
NotReopened == \A f \in Fd : fds'[f] \in Conn /\ Begun(fds'[f]) => fds[f] = fds'[f]
ThreadsGoOn == \A t \in Conn : Begun(t) => Begun(t)'

LEMMA FollowsKept ==
  ASSUME NotReopened
  PROVE  \A d \in Conn : \A fd : Begun(d) /\ Follows(fd, d) => Follows(fd, d)'
BY DEF NotReopened, Follows

LEMMA ClosingKeeps ==
  ASSUME IInv, NEW fd, Close(fd), UNCHANGED queue, \A t \in Conn : Begun(t)' <=> Begun(t)
  PROVE  NotReopened /\ ThreadsGoOn /\ OneDescriptor'
<1>1. \A f \in Fd : fds'[f] \in Conn => fds[f] = fds'[f]
  BY HelperAssumption DEF Close
<1>2. NotReopened /\ ThreadsGoOn
  BY <1>1 DEF NotReopened, ThreadsGoOn
<1>3. \A i \in DOMAIN queue : queue[i] \in Conn
  BY DEF IInv, TypesOK, FilesOK
<1>4. ASSUME NEW f \in Fd, fds'[f] \in Conn
      PROVE  (Begun(fds[f]) /\ Follows(f, fds[f]))'
  <2>1. PICK d : d = fds'[f]
    OBVIOUS
  <2>2. d \in Conn /\ Begun(d) /\ Follows(f, d)
    BY <1>1, <1>4, <2>1 DEF IInv, Descriptors, OneDescriptor
  <2>3. Begun(d)' /\ Follows(f, d)'
    BY <1>2, <2>2, FollowsKept
  <2>4. QED
    BY <2>1, <2>3 DEF Begun, Follows
<1>5. /\ \A i \in DOMAIN queue' : ~Begun(queue[i])'
      /\ \A i, j \in DOMAIN queue' : queue'[i] = queue'[j] => i = j
  BY <1>3 DEF IInv, Descriptors, OneDescriptor, Begun
<1>6. QED
  BY <1>2, <1>4, <1>5 DEF OneDescriptor

(* Nothing is opened or closed.                                            *)
LEMMA TableKept ==
  ASSUME IInv, UNCHANGED << fds, queue >>, \A t \in Conn : Begun(t)' <=> Begun(t)
  PROVE  NotReopened /\ ThreadsGoOn /\ OneDescriptor'
<1>1. NotReopened /\ ThreadsGoOn
  BY DEF NotReopened, ThreadsGoOn
<1>2. \A i \in DOMAIN queue : queue[i] \in Conn
  BY DEF IInv, TypesOK, FilesOK
<1>3. ASSUME NEW f \in Fd, fds'[f] \in Conn
      PROVE  (Begun(fds[f]) /\ Follows(f, fds[f]))'
  BY <1>3 DEF IInv, Descriptors, OneDescriptor, Begun, Follows
<1>4. /\ \A i \in DOMAIN queue' : ~Begun(queue[i])'
      /\ \A i, j \in DOMAIN queue' : queue'[i] = queue'[j] => i = j
  BY <1>2 DEF IInv, Descriptors, OneDescriptor, Begun
<1>5. QED
  BY <1>1, <1>3, <1>4 DEF OneDescriptor

(* A descriptor is opened for a listening socket, or a connection not yet  *)
(* begun.                                                                  *)
LEMMA OpeningKeeps ==
  ASSUME IInv, NEW c \in Conn \cup {LISTEN}, FreeFds # {}, fds' = [fds EXCEPT ![LowestFree] = c],
         c \in Conn => ~Begun(c)
  PROVE  /\ NotReopened
         /\ \A f \in Fd : fds'[f] \in Conn => fds'[f] = c \/ Begun(fds'[f])
         /\ \A f \in Fd : fds'[f] = c /\ c \in Conn => f = LowestFree
<1>1. LowestFree \in Fd /\ fds[LowestFree] = NONE
  BY LowestIsFree
<1>2. QED
  BY <1>1, HelperAssumption
     DEF NotReopened, IInv, TypesOK, FilesOK, Descriptors, OneDescriptor

LEMMA OpenedKeeps ==
  ASSUME IInv, NEW c \in Conn, FreeFds # {}, fds' = [fds EXCEPT ![LowestFree] = c],
         ~Begun(c), Begun(c)', ThreadsGoOn
  PROVE  \A f \in Fd : fds'[f] \in Conn => (Begun(fds[f]) /\ Follows(f, fds[f]))'
<1>1. /\ NotReopened
      /\ \A f \in Fd : fds'[f] \in Conn => fds'[f] = c \/ Begun(fds'[f])
      /\ \A f \in Fd : fds'[f] = c => f = LowestFree
  BY OpeningKeeps
<1>. SUFFICES ASSUME NEW f \in Fd, fds'[f] \in Conn
              PROVE  (Begun(fds[f]) /\ Follows(f, fds[f]))'
  OBVIOUS
<1>2. PICK d : d = fds'[f]
  OBVIOUS
<1>3. CASE d = c
  BY <1>1, <1>2, <1>3 DEF Begun, Follows
<1>4. CASE d # c
  <2>1. Begun(d) /\ fds[f] = d
    BY <1>1, <1>2, <1>4 DEF NotReopened
  <2>2. Follows(f, d)
    BY <1>2, <2>1 DEF IInv, Descriptors, OneDescriptor
  <2>3. Begun(d)' /\ Follows(f, d)'
    BY <1>1, <1>2, <2>1, <2>2, FollowsKept DEF ThreadsGoOn
  <2>4. QED
    BY <1>2, <2>3 DEF Begun, Follows
<1>5. QED
  BY <1>3, <1>4

(* What a thread reads next is what the table says.                        *)
LEMMA FileFollows ==
  ASSUME IInv, NEW fd, File(fd) \in Conn
  PROVE  Begun(File(fd)) /\ Follows(fd, File(fd))
BY HelperAssumption DEF File, IInv, Descriptors, OneDescriptor

LEMMA ThreadsKept ==
  ASSUME IInv, NotReopened, ThreadsGoOn,
         \A t \in Conn :
           \/ thread'[t] = thread[t]
           \/ /\ thread'[t].pc = "close2" => thread'[t].file = NONE
              /\ \/ thread'[t].fd = thread[t].fd /\ thread'[t].file = thread[t].file
                 \/ thread'[t].file \notin Conn
                 \/ Begun(thread'[t].file) /\ Follows(thread'[t].fd, thread'[t].file)
  PROVE  ThreadsFollow'
<1>1. ASSUME NEW t \in Conn, thread'[t].file \in Conn
      PROVE  Begun(thread'[t].file) /\ Follows(thread'[t].fd, thread'[t].file)
  BY <1>1 DEF IInv, Descriptors, ThreadsFollow
<1>2. ASSUME NEW t \in Conn, thread'[t].file \in Conn
      PROVE  (Begun(thread[t].file) /\ Follows(thread[t].fd, thread[t].file))'
  <2>1. PICK d : d = thread'[t].file
    OBVIOUS
  <2>2. PICK fd : fd = thread'[t].fd
    OBVIOUS
  <2>3. d \in Conn /\ Begun(d) /\ Follows(fd, d)
    BY <1>1, <1>2, <2>1, <2>2
  <2>4. Begun(d)' /\ Follows(fd, d)'
    BY <2>3, FollowsKept DEF ThreadsGoOn
  <2>5. QED
    BY <2>1, <2>2, <2>4 DEF Begun, Follows
<1>3. ASSUME NEW t \in Conn, thread'[t].pc = "close2" PROVE thread'[t].file = NONE
  BY <1>3 DEF IInv, Descriptors, ThreadsFollow
<1>4. QED
  BY <1>2, <1>3 DEF ThreadsFollow

(* The session of the caller who made it ring stays his.                   *)
LEMMA SessionKept ==
  ASSUME IInv, NotReopened, ThreadsGoOn, UNCHANGED << caller, together >>, Rung' => Rung,
         UNCHANGED session \/ session'.fxsState # "BECALLED" \/ session'.destNumber = NONE
  PROVE  SessionFollows'
<1>. SUFFICES ASSUME (Rung /\ ~together /\ session.destNumber # NONE)'
              PROVE  (/\ session.destNumber = caller /\ session.destIP = caller
                      /\ caller \in Conn /\ Begun(caller) /\ Follows(session.connectfd, caller))'
  BY DEF SessionFollows
<1>1. session' = session
  BY DEF Rung
<1>2. PICK d : d = caller
  OBVIOUS
<1>3. PICK fd : fd = session.connectfd
  OBVIOUS
<1>4. /\ session.destNumber = caller /\ session.destIP = caller
      /\ d \in Conn /\ Begun(d) /\ Follows(fd, d)
  BY <1>1, <1>2, <1>3 DEF IInv, RingsRight, SessionFollows
<1>5. Begun(d)' /\ Follows(fd, d)'
  BY <1>4, FollowsKept DEF ThreadsGoOn
<1>6. QED
  BY <1>1, <1>2, <1>3, <1>4, <1>5 DEF Begun, Follows

(* Steps in which no call is handled: they leave the session alone, or end *)
(* the ringing.                                                            *)
LEMMA RingKept ==
  ASSUME IInv, NotReopened, ThreadsGoOn, UNCHANGED << caller, together >>,
         \A t \in Conn : thread'[t] = thread[t] \/ (~Ringing(t) /\ ~Ringing(t)'),
         listener'.pc \in {"initIP", "initFd"} => listener'.pc = listener.pc,
         operator.pc = "number" => operator'.pc = "number",
         \/ UNCHANGED session
         \/ /\ session'.fxsState # "BECALLED"
            /\ session'.destIP = session.destIP /\ session'.destNumber = session.destNumber
  PROVE  RingsRight'
<1>1. \A t \in Conn : /\ Ringing(t)' <=> Ringing(t)
                      /\ Ringing(t) => thread'[t] = thread[t]
  BY DEF Ringing
<1>2. RingsAlone'
  <2>. SUFFICES ASSUME ~together'
                PROVE  (/\ \A t, u \in Conn : Ringing(t) /\ Ringing(u) => t = u
                        /\ listener.pc \in {"initIP", "initFd"} =>
                             session.fxsState # "BECALLED" /\ \A t \in Conn : ~Ringing(t)
                        /\ session.fxsState = "BECALLED" =>
                             \A t \in Conn : thread[t].pc # "fxsState")'
    BY DEF RingsAlone
  <2>1. /\ \A t, u \in Conn : Ringing(t) /\ Ringing(u) => t = u
        /\ listener.pc \in {"initIP", "initFd"} =>
             session.fxsState # "BECALLED" /\ \A t \in Conn : ~Ringing(t)
        /\ session.fxsState = "BECALLED" => \A t \in Conn : thread[t].pc # "fxsState"
    BY DEF IInv, RingsRight, RingsAlone
  <2>2. \A t, u \in Conn : Ringing(t)' /\ Ringing(u)' => t = u
    BY <1>1, <2>1
  <2>3. listener'.pc \in {"initIP", "initFd"} =>
             session'.fxsState # "BECALLED" /\ \A t \in Conn : ~Ringing(t)'
    BY <1>1, <2>1
  <2>4. session'.fxsState = "BECALLED" => \A t \in Conn : thread'[t].pc # "fxsState"
    BY <2>1 DEF Ringing
  <2>5. QED
    BY <2>2, <2>3, <2>4
<1>3. RingsInOrder'
  BY <1>1 DEF IInv, RingsRight, RingsInOrder, Ringing
<1>4. SessionFollows'
  BY <1>1, SessionKept DEF Rung
<1>5. QED
  BY <1>2, <1>3, <1>4 DEF RingsRight

-----------------------------------------------------------------------------
(* The thread of a connection, when it handles no CALL_NUMBER.             *)
LEMMA QuietKeeps ==
  ASSUME IInv, NEW c \in Conn, \A t \in Conn : t # c => thread'[t] = thread[t],
         UNCHANGED << operator, listener, caller, together >>,
         NotReopened, ThreadsGoOn,
         thread[c].pc # "none", ~Ringing(c), ~Ringing(c)',
         thread'[c].pc = "NUMBER" => thread'[c].file \in Conn,
         UNCHANGED session \/ \E s \in {"HOOK_ON", "TALKING"} : SetState(s)
  PROVE  Places' /\ RingsRight'
<1>1. \/ UNCHANGED session
      \/ /\ session'.fxsState # "BECALLED"
         /\ session'.destIP = session.destIP /\ session'.destNumber = session.destNumber
  BY DEF SetState, IInv, TypesOK, SessionOK, SESSION
<1>2. RingsRight'
  BY <1>1, RingKept
<1>3. Places'
  BY DEF IInv, Descriptors, Places, Ringing
<1>4. QED
  BY <1>2, <1>3

LEMMA QuietSteps ==
  ASSUME IInv, NEW c \in Conn,
         \/ Begin(c) \/ Read(c) \/ ReadEnds(c) \/ Refuses(c) \/ HookOn(c) \/ Accepted(c)
         \/ Talks(c)
  PROVE  Descriptors' /\ RingsRight'
<1>. TypesOK /\ thread \in [Conn -> THREAD] /\ thread[c] \in THREAD
  BY DEF IInv, TypesOK, ThreadsOK
<1>1. \A t \in Conn : t # c => thread'[t] = thread[t]
  BY DEF Begin, Read, ReadEnds, Refuses, Compare, Reject, RejectWrites, HookOn, Accepted, Talks,
         Goes, ReadsAgain
<1>2. /\ UNCHANGED << fds, queue, operator, listener, caller, together >>
      /\ UNCHANGED session \/ \E s \in {"HOOK_ON", "TALKING"} : SetState(s)
  BY DEF Begin, Read, ReadEnds, Refuses, Compare, Reject, RejectWrites, HookOn, Accepted, Talks,
         sockets, histories
<1>3. thread[c].pc # "none" /\ ~Ringing(c)
  BY DEF Begin, Read, ReadEnds, Refuses, Compare, Reject, RejectWrites, HookOn, Accepted, Talks,
         At, Ringing
<1>4. /\ thread'[c].pc \in {"read", "NUMBER", "ACCEPT", "DOWN", "reject", "write", "hookOn",
                            "talking", "close"}
      /\ thread'[c].pc = "NUMBER" => thread'[c].file \in Conn
  <2>1. CASE Begin(c)
    BY <2>1 DEF Begin, THREAD
  <2>2. CASE Read(c)
    <3>1. thread[c].file \in Conn /\ inbox[thread[c].file] # << >>
      BY <2>2 DEF Read, ReadResult
    <3>2. Head(inbox[thread[c].file]) \in CALL_MSG
      BY <3>1 DEF TypesOK, FilesOK
    <3>3. PICK m \in CALL_MSG :
            thread' = [thread EXCEPT ![c].pc = m.type, ![c].dest = m.dest]
      BY <2>2, <3>2 DEF Read
    <3>4. thread'[c].pc = m.type /\ thread'[c].file = thread[c].file
      BY <3>3 DEF THREAD
    <3>5. QED
      BY <3>1, <3>4 DEF CALL_MSG
  <2>3. CASE ReadEnds(c) \/ Refuses(c) \/ HookOn(c) \/ Accepted(c) \/ Talks(c)
    BY <2>3 DEF ReadEnds, Refuses, Compare, Reject, RejectWrites, HookOn, Accepted, Talks, Goes,
                ReadsAgain, THREAD
  <2>4. QED
    BY <2>1, <2>2, <2>3
<1>5. ~Ringing(c)' /\ \A t \in Conn : Begun(t)' <=> Begun(t)
  BY <1>1, <1>2, <1>3, <1>4 DEF Ringing, Begun
<1>6. \/ thread'[c].fd = thread[c].fd /\ thread'[c].file = thread[c].file
      \/ thread'[c].file = File(thread'[c].fd)
  BY DEF Begin, Read, ReadEnds, Refuses, Compare, Reject, RejectWrites, HookOn, Accepted, Talks,
         Goes, ReadsAgain, THREAD
<1>7. NotReopened /\ ThreadsGoOn /\ OneDescriptor'
  BY <1>2, <1>5, TableKept
<1>8. ThreadsFollow'
  BY <1>1, <1>4, <1>6, <1>7, FileFollows, ThreadsKept
<1>9. Places' /\ RingsRight'
  BY <1>1, <1>2, <1>3, <1>4, <1>5, <1>7, QuietKeeps
<1>10. QED
  BY <1>7, <1>8, <1>9 DEF Descriptors

LEMMA CloseSteps ==
  ASSUME IInv, NEW c \in Conn, Finish(c) \/ CloseAgain(c)
  PROVE  Descriptors' /\ RingsRight'
<1>. TypesOK /\ thread \in [Conn -> THREAD] /\ thread[c] \in THREAD
  BY DEF IInv, TypesOK, ThreadsOK
<1>1. \A t \in Conn : t # c => thread'[t] = thread[t]
  BY DEF Finish, CloseAgain
<1>2. Close(thread[c].fd) /\ UNCHANGED << session, queue, operator, listener, caller, together >>
  BY DEF Finish, CloseAgain, histories
<1>3. thread[c].pc # "none" /\ ~Ringing(c)
  BY DEF Finish, CloseAgain, At, Ringing
<1>4. thread'[c].pc \in {"close2", "done"} /\ thread'[c].file = NONE
  BY DEF Finish, CloseAgain, At, THREAD, IInv, Descriptors, ThreadsFollow
<1>5. ~Ringing(c)' /\ \A t \in Conn : Begun(t)' <=> Begun(t)
  BY <1>1, <1>2, <1>3, <1>4 DEF Ringing, Begun
<1>6. NotReopened /\ ThreadsGoOn /\ OneDescriptor'
  BY <1>2, <1>5, ClosingKeeps
<1>7. ThreadsFollow'
  BY <1>1, <1>4, <1>6, ThreadsKept, HelperAssumption
<1>8. Places' /\ RingsRight'
  BY <1>1, <1>2, <1>3, <1>4, <1>5, <1>6, QuietKeeps
<1>9. QED
  BY <1>6, <1>7, <1>8 DEF Descriptors

(* A CALL_NUMBER, from the test to the last write.                         *)
LEMMA TestKeeps ==
  ASSUME IInv, NEW c \in Conn, TestState(c)
  PROVE  Descriptors' /\ RingsRight'
<1>. TypesOK /\ thread \in [Conn -> THREAD] /\ thread[c] \in THREAD
  BY DEF IInv, TypesOK, ThreadsOK
<1>1. \A t \in Conn : t # c => thread'[t] = thread[t]
  BY DEF TestState, Goes, ReadsAgain
<1>2. UNCHANGED << fds, queue, session, operator, listener, caller >>
  BY DEF TestState, sockets
<1>3. thread[c].pc = "NUMBER" /\ ~Ringing(c) /\ thread[c].file \in Conn
  BY DEF TestState, At, Ringing, IInv, Descriptors, Places
<1>4. CASE ~MayRing
  <2>1. thread'[c].pc = "read" /\ thread'[c].file = File(thread'[c].fd) /\ together' = together
    BY <1>4 DEF TestState, ReadsAgain, THREAD
  <2>2. ~Ringing(c)' /\ \A t \in Conn : Begun(t)' <=> Begun(t)
    BY <1>1, <1>2, <1>3, <2>1 DEF Ringing, Begun
  <2>3. NotReopened /\ ThreadsGoOn /\ OneDescriptor'
    BY <1>2, <2>2, TableKept
  <2>4. ThreadsFollow'
    BY <1>1, <2>1, <2>3, FileFollows, ThreadsKept
  <2>5. Places' /\ RingsRight'
    BY <1>1, <1>2, <1>3, <2>1, <2>2, <2>3, QuietKeeps
  <2>6. QED
    BY <2>3, <2>4, <2>5 DEF Descriptors
<1>5. CASE MayRing
  <2>1. /\ thread'[c].pc = "fxsState" /\ thread'[c].file = thread[c].file
        /\ thread'[c].fd = thread[c].fd
        /\ together' = (\/ \E t \in Conn \ {c} : Ringing(t)
                        \/ listener.pc \in {"initIP", "initFd"})
    BY <1>5 DEF TestState, Goes, THREAD
  <2>2. \A t \in Conn : Begun(t)' <=> Begun(t)
    BY <1>1, <1>2, <1>3, <2>1 DEF Begun
  <2>3. NotReopened /\ ThreadsGoOn /\ OneDescriptor'
    BY <1>2, <2>2, TableKept
  <2>4. ThreadsFollow'
    BY <1>1, <2>1, <2>3, ThreadsKept
  <2>5. Places'
    BY <1>1, <1>2, <1>3, <2>1 DEF IInv, Descriptors, Places, Ringing
  <2>6. ~together' => /\ \A t \in Conn : Ringing(t)' <=> t = c
                      /\ listener'.pc \notin {"initIP", "initFd"}
    BY <1>1, <1>2, <2>1 DEF Ringing
  <2>7. session'.fxsState = "HOOK_ON"
    BY <1>2, <1>5 DEF MayRing
  <2>8. RingsAlone'
    BY <2>6, <2>7 DEF RingsAlone
  <2>9. RingsInOrder'
    BY <2>1, <2>6 DEF RingsInOrder, Ringing
  <2>10. SessionFollows'
    BY <2>7 DEF SessionFollows, Rung
  <2>11. QED
    BY <2>3, <2>4, <2>5, <2>8, <2>9, <2>10 DEF Descriptors, RingsRight
<1>6. QED
  BY <1>4, <1>5

LEMMA WritesKeep ==
  ASSUME IInv, NEW c \in Conn, RingState(c) \/ RingIP(c) \/ RingNumber(c) \/ RingFd(c)
  PROVE  Descriptors' /\ RingsRight'
<1>. TypesOK /\ thread \in [Conn -> THREAD] /\ thread[c] \in THREAD /\ session \in SESSION
  BY DEF IInv, TypesOK, ThreadsOK, SessionOK
<1>1. \A t \in Conn : t # c => thread'[t] = thread[t]
  BY DEF RingState, RingIP, RingNumber, RingFd, Goes
<1>2. UNCHANGED << fds, queue, operator, listener, together >>
  BY DEF RingState, RingIP, RingNumber, RingFd, sockets, histories
<1>3. Ringing(c) /\ thread[c].file \in Conn
  BY DEF RingState, RingIP, RingNumber, RingFd, At, Ringing, IInv, Descriptors, Places
<1>4. /\ thread'[c].pc \in {"destIP", "destNumber", "connectfd", "compare"}
      /\ thread'[c].file = thread[c].file /\ thread'[c].fd = thread[c].fd
  BY DEF RingState, RingIP, RingNumber, RingFd, Goes, THREAD
<1>5. \A t \in Conn : Begun(t)' <=> Begun(t)
  BY <1>1, <1>2, <1>3, <1>4 DEF Begun, Ringing
<1>6. NotReopened /\ ThreadsGoOn /\ OneDescriptor'
  BY <1>2, <1>5, TableKept
<1>7. ThreadsFollow'
  BY <1>1, <1>4, <1>6, ThreadsKept
<1>8. Places'
  BY <1>1, <1>2, <1>3, <1>4 DEF IInv, Descriptors, Places, Ringing
<1>9. \A t \in Conn : Ringing(t)' => Ringing(t)
  BY <1>1, <1>3 DEF Ringing
<1>. SUFFICES ASSUME ~together' PROVE RingsRight'
  BY <1>6, <1>7, <1>8 DEF Descriptors, RingsRight, RingsAlone, RingsInOrder, SessionFollows
<1>10. /\ \A t \in Conn : Ringing(t) => t = c
       /\ listener'.pc \notin {"initIP", "initFd"}
       /\ session.fxsState = "BECALLED" => thread[c].pc # "fxsState"
  BY <1>2, <1>3 DEF IInv, RingsRight, RingsAlone
<1>11. RingsAlone'
  <2>1. \A t \in Conn : thread'[t].pc # "fxsState"
    BY <1>4, <1>9, <1>10 DEF Ringing
  <2>2. QED
    BY <1>9, <1>10, <2>1 DEF RingsAlone
<1>12. CASE RingState(c)
  <2>1. thread'[c].pc = "destIP" /\ caller' = thread[c].file
    BY <1>12 DEF RingState, Goes, THREAD
  <2>2. RingsInOrder'
    BY <1>4, <1>9, <1>10, <2>1 DEF RingsInOrder, Ringing
  <2>3. SessionFollows'
    BY <2>1 DEF SessionFollows, Rung, Ringing
  <2>4. QED
    BY <1>11, <2>2, <2>3 DEF RingsRight
<1>13. CASE RingIP(c)
  <2>1. /\ thread'[c].pc = "destNumber" /\ caller' = caller /\ session'.destIP = thread[c].file
        /\ caller = thread[c].file
    BY <1>2, <1>13 DEF RingIP, At, Goes, THREAD, SESSION, histories, IInv, RingsRight, RingsInOrder
  <2>2. RingsInOrder'
    BY <1>4, <1>9, <1>10, <2>1 DEF RingsInOrder, Ringing
  <2>3. SessionFollows'
    BY <2>1 DEF SessionFollows, Rung, Ringing
  <2>4. QED
    BY <1>11, <2>2, <2>3 DEF RingsRight
<1>14. CASE RingNumber(c)
  <2>1. /\ thread'[c].pc = "connectfd" /\ caller' = caller /\ session'.destIP = session.destIP
        /\ session'.destNumber = thread[c].file
    BY <1>14 DEF RingNumber, Goes, THREAD, SESSION, histories
  <2>2. caller = thread[c].file /\ session.destIP = thread[c].file
    BY <1>2, <1>14 DEF RingNumber, At, IInv, RingsRight, RingsInOrder
  <2>3. RingsInOrder'
    BY <1>4, <1>9, <1>10, <2>1, <2>2 DEF RingsInOrder, Ringing
  <2>4. SessionFollows'
    BY <2>1 DEF SessionFollows, Rung, Ringing
  <2>5. QED
    BY <1>11, <2>3, <2>4 DEF RingsRight
<1>15. CASE RingFd(c)
  <2>1. /\ thread'[c].pc = "compare" /\ caller' = caller /\ session'.destIP = session.destIP
        /\ session'.destNumber = session.destNumber /\ session'.connectfd = thread[c].fd
    BY <1>15 DEF RingFd, SetFd, Goes, THREAD, SESSION, histories
  <2>2. /\ caller = thread[c].file /\ session.destIP = thread[c].file
        /\ session.destNumber \in {thread[c].file, NONE}
    BY <1>2, <1>15 DEF RingFd, At, IInv, RingsRight, RingsInOrder
  <2>3. RingsInOrder'
    BY <1>9, <1>10, <2>1 DEF RingsInOrder, Ringing
  <2>4. SessionFollows'
    <3>1. PICK d : d = thread[c].file
      OBVIOUS
    <3>2. PICK fd : fd = thread[c].fd
      OBVIOUS
    <3>3. d \in Conn /\ Begun(d) /\ Follows(fd, d)
      BY <1>3, <3>1, <3>2 DEF IInv, Descriptors, ThreadsFollow
    <3>4. Begun(d)' /\ Follows(fd, d)'
      BY <1>6, <3>3, FollowsKept DEF ThreadsGoOn
    <3>5. QED
      BY <2>1, <2>2, <3>1, <3>2, <3>3, <3>4 DEF SessionFollows, Begun, Follows
  <2>5. QED
    BY <1>11, <2>3, <2>4 DEF RingsRight
<1>16. QED
  BY <1>12, <1>13, <1>14, <1>15

LEMMA ThreadKeeps ==
  ASSUME IInv, NEW c \in Conn, HandleClient(c)
  PROVE  Descriptors' /\ RingsRight'
BY QuietSteps, CloseSteps, TestKeeps, WritesKeep DEF HandleClient, Rings

-----------------------------------------------------------------------------
(* The operator.                                                           *)
LEMMA OperatorKeeps ==
  ASSUME IInv, OperatorSteps
  PROVE  Descriptors' /\ RingsRight'
<1>. TypesOK /\ session \in SESSION /\ operator \in OPERATOR
  BY DEF IInv, TypesOK, SessionOK, OperatorOK
<1>1. UNCHANGED << fds, queue, thread, listener, caller, together >>
  BY DEF OperatorSteps, RejectOrDown, WriteReject, HangUp, AcceptCall, WriteAccept, Talk,
         AcceptSends, CallFails, CallSetsFd, CallSetsNumber, CallFailed, Reload, sockets,
         histories
<1>2. \/ operator' = operator
      \/ operator'.conn = operator.conn
           /\ (operator'.pc \in {"connected", "number", "write"}
                 <=> operator.pc \in {"connected", "number", "write"})
      \/ Done /\ operator.pc \notin {"connected", "number", "write"}
  BY DEF OperatorSteps, RejectOrDown, WriteReject, HangUp, AcceptCall, WriteAccept, Talk,
         AcceptSends, CallFails, CallSetsFd, CallSetsNumber, CallFailed, Reload, Type,
         OperatorAt, OperatorGoes, OPERATOR
<1>3. operator'.conn = operator.conn
  BY <1>2 DEF Done, IInv, Descriptors, Places
<1>4. Places'
  BY <1>1, <1>2, <1>3 DEF Done, IInv, Descriptors, Places, Ringing
<1>5. \A t \in Conn : Begun(t)' <=> Begun(t)
  BY <1>1, <1>3 DEF Begun
<1>6. NotReopened /\ ThreadsGoOn /\ OneDescriptor'
  BY <1>1, <1>5, TableKept
<1>7. ThreadsFollow'
  BY <1>1, <1>6, ThreadsKept
<1>8. CASE CallSetsFd \/ CallSetsNumber
  <2>1. /\ session'.fxsState = session.fxsState /\ session'.destIP = session.destIP
        /\ session'.destNumber = session.destNumber \/ session'.destNumber = NONE
        /\ operator'.pc = "number" \/ session'.destNumber = NONE
    BY <1>8 DEF CallSetsFd, CallSetsNumber, OperatorGoes, SESSION, OPERATOR
  <2>2. RingsAlone'
    BY <1>1, <2>1 DEF IInv, RingsRight, RingsAlone, Ringing
  <2>3. RingsInOrder'
    BY <1>1, <2>1 DEF IInv, RingsRight, RingsInOrder
  <2>4. SessionFollows'
    BY <2>1 DEF SessionFollows, Rung
  <2>5. QED
    BY <1>4, <1>6, <1>7, <2>2, <2>3, <2>4 DEF Descriptors, RingsRight
<1>9. CASE ~(CallSetsFd \/ CallSetsNumber)
  <2>1. \/ UNCHANGED session
        \/ /\ session'.fxsState # "BECALLED"
           /\ session'.destIP = session.destIP /\ session'.destNumber = session.destNumber
    BY <1>9 DEF OperatorSteps, RejectOrDown, WriteReject, HangUp, AcceptCall, WriteAccept, Talk,
         AcceptSends, CallFails, CallFailed, Reload, SetState, SESSION
  <2>2. operator.pc = "number" => operator'.pc = "number"
    BY <1>9 DEF OperatorSteps, RejectOrDown, WriteReject, HangUp, AcceptCall, WriteAccept, Talk,
         AcceptSends, CallFails, CallFailed, Reload, Type, OperatorAt
  <2>3. RingsRight'
    BY <1>1, <1>6, <2>1, <2>2, RingKept
  <2>4. QED
    BY <1>4, <1>6, <1>7, <2>3 DEF Descriptors
<1>10. QED
  BY <1>8, <1>9

LEMMA CallKeeps ==
  ASSUME IInv, NEW c \in Conn, Call(c)
  PROVE  Descriptors' /\ RingsRight'
<1>. thread \in [Conn -> THREAD] /\ queue \in Seq(Conn)
  BY DEF IInv, TypesOK, ThreadsOK, FilesOK
<1>1. ~Begun(c) /\ \A i \in DOMAIN queue : queue[i] # c /\ queue[i] \in Conn
  BY DEF Call, Unused
<1>2. /\ fds' = [fds EXCEPT ![LowestFree] = c] /\ FreeFds # {}
      /\ UNCHANGED << queue, session, listener, thread, caller, together >>
      /\ operator'.pc = "connected" /\ operator'.conn = c
  BY DEF Call, histories
<1>3. operator.conn = NONE /\ operator.pc = "prompt"
  BY DEF Call, Type, IInv, Descriptors, Places
<1>4. /\ Begun(c)' /\ ThreadsGoOn
      /\ \A t \in Conn : t # c => (Begun(t)' <=> Begun(t))
  BY <1>2, <1>3, HelperAssumption DEF ThreadsGoOn, Begun
<1>5. NotReopened
  BY <1>1, <1>2, OpeningKeeps
<1>6. OneDescriptor'
  <2>1. \A f \in Fd : fds'[f] \in Conn => (Begun(fds[f]) /\ Follows(f, fds[f]))'
    BY <1>1, <1>2, <1>4, OpenedKeeps
  <2>2. /\ \A i \in DOMAIN queue' : ~Begun(queue[i])'
        /\ \A i, j \in DOMAIN queue' : queue'[i] = queue'[j] => i = j
    BY <1>1, <1>2, <1>4 DEF IInv, Descriptors, OneDescriptor, Begun
  <2>3. QED
    BY <2>1, <2>2 DEF OneDescriptor
<1>7. ThreadsFollow'
  BY <1>2, <1>4, <1>5, ThreadsKept
<1>8. Places'
  BY <1>1, <1>2 DEF IInv, Descriptors, Places, Ringing, Begun
<1>9. RingsRight'
  BY <1>2, <1>3, <1>4, <1>5, RingKept
<1>10. QED
  BY <1>6, <1>7, <1>8, <1>9 DEF Descriptors

LEMMA WriteNumberKeeps ==
  ASSUME IInv, WriteNumber
  PROVE  Descriptors' /\ RingsRight'
<1>. thread \in [Conn -> THREAD] /\ queue \in Seq(Conn) /\ operator \in OPERATOR
  BY DEF IInv, TypesOK, ThreadsOK, FilesOK, OperatorOK
<1>1. UNCHANGED << fds, queue, session, listener, caller, together >>
  BY DEF WriteNumber, sockets, histories
<1>2. CASE UNCHANGED << thread, operator >>
  <2>1. \A t \in Conn : Begun(t)' <=> Begun(t)
    BY <1>2 DEF Begun
  <2>2. NotReopened /\ ThreadsGoOn /\ OneDescriptor'
    BY <1>1, <2>1, TableKept
  <2>3. ThreadsFollow'
    BY <1>2, <2>2, ThreadsKept
  <2>4. Places'
    BY <1>2 DEF IInv, Descriptors, Places, Ringing
  <2>5. RingsRight'
    BY <1>1, <1>2, <2>2, RingKept
  <2>6. QED
    BY <2>2, <2>3, <2>4, <2>5 DEF Descriptors
<1>3. CASE /\ thread' = [thread EXCEPT ![operator.conn].pc = "born",
                                        ![operator.conn].arg = "session"]
           /\ Done \/ operator' = [pc |-> "calling", fd |-> -1, conn |-> NONE]
  <2>1. operator.pc = "write" /\ operator'.conn = NONE /\ operator'.pc # "number"
    BY <1>3 DEF WriteNumber, OperatorAt, Done
  <2>2. \A t \in Conn :
          \/ t # operator.conn /\ thread'[t] = thread[t]
          \/ /\ t = operator.conn /\ thread[t].pc = "none" /\ thread'[t].pc = "born"
             /\ thread'[t].fd = thread[t].fd /\ thread'[t].file = thread[t].file
    BY <1>3 DEF THREAD, IInv, Descriptors, Places
  <2>3. \A t \in Conn : Begun(t)' <=> Begun(t)
    BY <2>1, <2>2, HelperAssumption DEF Begun
  <2>4. NotReopened /\ ThreadsGoOn /\ OneDescriptor'
    BY <1>1, <2>3, TableKept
  <2>5. ThreadsFollow'
    BY <2>2, <2>4, ThreadsKept
  <2>6. Places'
    BY <2>1, <2>2, HelperAssumption DEF IInv, Descriptors, Places, Ringing
  <2>7. RingsRight'
    BY <1>1, <2>1, <2>2, <2>4, RingKept DEF Ringing
  <2>8. QED
    BY <2>4, <2>5, <2>6, <2>7 DEF Descriptors
<1>4. QED
  BY <1>2, <1>3 DEF WriteNumber

-----------------------------------------------------------------------------
(* The listener.                                                           *)
LEMMA AcceptKeeps ==
  ASSUME IInv, Accept
  PROVE  Descriptors' /\ RingsRight'
<1>. thread \in [Conn -> THREAD] /\ queue \in Seq(Conn) /\ queue # << >>
  BY DEF IInv, TypesOK, ThreadsOK, FilesOK, Accept
<1>1. PICK c \in Conn : c = Head(queue)
  OBVIOUS
<1>2. c = queue[1] /\ ~Begun(c)
  BY <1>1 DEF IInv, Descriptors, OneDescriptor
<1>3. /\ fds' = [fds EXCEPT ![LowestFree] = c] /\ queue' = Tail(queue) /\ FreeFds # {}
      /\ thread' = [thread EXCEPT ![c].pc = "born", ![c].arg = "listener"]
      /\ UNCHANGED << session, operator, caller, together >> /\ listener'.pc = listener.pc
  BY <1>1 DEF Accept, histories, IInv, TypesOK, ThreadsOK, LISTENER
<1>4. /\ thread'[c].pc = "born" /\ thread[c].pc = "none" /\ thread'[c].fd = thread[c].fd
      /\ thread'[c].file = thread[c].file
      /\ \A t \in Conn : t # c => thread'[t] = thread[t]
  BY <1>2, <1>3 DEF THREAD, Begun
<1>5. Begun(c)' /\ ThreadsGoOn /\ \A t \in Conn : t # c => (Begun(t)' <=> Begun(t))
  BY <1>3, <1>4 DEF ThreadsGoOn, Begun
<1>6. NotReopened
  BY <1>2, <1>3, OpeningKeeps
<1>7. OneDescriptor'
  <2>1. \A f \in Fd : fds'[f] \in Conn => (Begun(fds[f]) /\ Follows(f, fds[f]))'
    BY <1>2, <1>3, <1>5, OpenedKeeps
  <2>2. \A i \in DOMAIN queue' : i \in Int /\ i + 1 # 1 /\ i + 1 \in DOMAIN queue
                                   /\ queue'[i] = queue[i + 1]
    BY <1>3
  <2>3. /\ \A i, j \in DOMAIN queue : queue[i] = queue[j] => i = j
        /\ \A i \in DOMAIN queue : queue[i] \in Conn /\ ~Begun(queue[i])
        /\ 1 \in DOMAIN queue
    BY DEF IInv, Descriptors, OneDescriptor
  <2>4. \A i \in DOMAIN queue' : queue'[i] # c /\ queue'[i] \in Conn /\ ~Begun(queue'[i])
    BY <1>2, <2>2, <2>3
  <2>5. \A i \in DOMAIN queue' : ~Begun(queue[i])'
    BY <1>3, <1>4, <2>4 DEF Begun
  <2>6. \A i, j \in DOMAIN queue' : queue'[i] = queue'[j] => i + 1 = j + 1
    BY <2>2, <2>3
  <2>7. \A i, j \in DOMAIN queue' : queue'[i] = queue'[j] => i = j
    BY <2>2, <2>6
  <2>8. QED
    BY <2>1, <2>5, <2>7 DEF OneDescriptor
<1>8. ThreadsFollow'
  BY <1>4, <1>5, <1>6, ThreadsKept
<1>9. Places'
  BY <1>2, <1>3, <1>4 DEF IInv, Descriptors, Places, Ringing, Begun
<1>10. RingsRight'
  BY <1>3, <1>4, <1>5, <1>6, RingKept DEF Ringing
<1>11. QED
  BY <1>7, <1>8, <1>9, <1>10 DEF Descriptors

LEMMA InitSessionKeeps ==
  ASSUME IInv, InitState \/ InitIP \/ InitFd
  PROVE  Descriptors' /\ RingsRight'
<1>. session \in SESSION /\ listener \in LISTENER /\ TypesOK
  BY DEF IInv, TypesOK, SessionOK, ThreadsOK
<1>1. UNCHANGED << fds, queue, thread, operator, caller >>
  BY DEF InitState, InitIP, InitFd, sockets, histories
<1>2. \A t \in Conn : Begun(t)' <=> Begun(t)
  BY <1>1 DEF Begun
<1>3. NotReopened /\ ThreadsGoOn /\ OneDescriptor'
  BY <1>1, <1>2, TableKept
<1>4. ThreadsFollow'
  BY <1>1, <1>3, ThreadsKept
<1>5. Places'
  BY <1>1 DEF IInv, Descriptors, Places, Ringing
<1>6. ~together' => /\ ~together /\ session'.fxsState # "BECALLED"
                    /\ \A t \in Conn : ~Ringing(t)'
  <2>1. CASE InitState
    BY <1>1, <2>1 DEF InitState, SetState, SESSION, Ringing
  <2>2. CASE InitIP \/ InitFd
    BY <1>1, <2>2 DEF InitIP, InitFd, ListenerAt, histories, SESSION, IInv, RingsRight,
                      RingsAlone, Ringing
  <2>3. QED
    BY <2>1, <2>2
<1>7. RingsAlone' /\ RingsInOrder' /\ SessionFollows'
  BY <1>6 DEF RingsAlone, RingsInOrder, SessionFollows, Rung, Ringing
<1>8. QED
  BY <1>3, <1>4, <1>5, <1>7 DEF Descriptors, RingsRight

LEMMA ListenerKeeps ==
  ASSUME IInv, Listener
  PROVE  Descriptors' /\ RingsRight'
<1>1. CASE Listen
  <2>1. UNCHANGED << queue, session, thread, operator, caller, together >>
    BY <1>1 DEF Listen, histories
  <2>2. \A t \in Conn : Begun(t)' <=> Begun(t)
    BY <2>1 DEF Begun
  <2>3. \A f \in Fd : fds'[f] \in Conn => fds[f] = fds'[f]
    BY <1>1, LowestIsFree, HelperAssumption DEF Listen, IInv, TypesOK, FilesOK
  <2>4. NotReopened /\ ThreadsGoOn
    BY <2>2, <2>3 DEF NotReopened, ThreadsGoOn
  <2>5. OneDescriptor'
    <3>1. ASSUME NEW f \in Fd, fds'[f] \in Conn
          PROVE  (Begun(fds[f]) /\ Follows(f, fds[f]))'
      <4>1. PICK d : d = fds'[f]
        OBVIOUS
      <4>2. d \in Conn /\ Begun(d) /\ Follows(f, d)
        BY <2>3, <3>1, <4>1 DEF IInv, Descriptors, OneDescriptor
      <4>3. Begun(d)' /\ Follows(f, d)'
        BY <2>4, <4>2, FollowsKept DEF ThreadsGoOn
      <4>4. QED
        BY <4>1, <4>3 DEF Begun, Follows
    <3>2. \A i \in DOMAIN queue : queue[i] \in Conn
      BY DEF IInv, TypesOK, FilesOK
    <3>3. QED
      BY <2>1, <3>1, <3>2 DEF IInv, Descriptors, OneDescriptor, Begun
  <2>6. ThreadsFollow'
    BY <2>1, <2>4, ThreadsKept
  <2>7. Places'
    BY <2>1 DEF IInv, Descriptors, Places, Ringing
  <2>8. listener'.pc \notin {"initIP", "initFd"}
    BY <1>1 DEF Listen, ListenerGoes, IInv, TypesOK, ThreadsOK, LISTENER
  <2>9. RingsRight'
    BY <2>1, <2>4, <2>8, RingKept
  <2>10. QED
    BY <2>5, <2>6, <2>7, <2>9 DEF Descriptors
<1>2. CASE InitState \/ InitIP \/ InitFd
  BY <1>2, InitSessionKeeps
<1>3. CASE Accept
  BY <1>3, AcceptKeeps
<1>4. CASE AcceptFails
  <2>1. PICK fd : fd = listener.listenfd
    OBVIOUS
  <2>2. /\ Close(fd) /\ UNCHANGED << queue, session, thread, operator, caller, together >>
        /\ listener'.pc = "spins"
    BY <1>4, <2>1 DEF AcceptFails, Close, histories
  <2>3. \A t \in Conn : Begun(t)' <=> Begun(t)
    BY <2>2 DEF Begun
  <2>4. NotReopened /\ ThreadsGoOn /\ OneDescriptor'
    BY <2>2, <2>3, ClosingKeeps
  <2>5. ThreadsFollow'
    BY <2>2, <2>4, ThreadsKept
  <2>6. Places'
    BY <2>2 DEF IInv, Descriptors, Places, Ringing
  <2>7. RingsRight'
    BY <2>2, <2>4, RingKept
  <2>8. QED
    BY <2>4, <2>5, <2>6, <2>7 DEF Descriptors
<1>5. QED
  BY <1>1, <1>2, <1>3, <1>4 DEF Listener

-----------------------------------------------------------------------------
(* The far ends.                                                           *)
LEMMA FarKeeps ==
  ASSUME IInv, NEW c \in Conn, FarEnd(c)
  PROVE  Descriptors' /\ RingsRight'
<1>1. UNCHANGED << fds, session, thread, listener, operator, caller, together >>
  BY DEF FarEnd, FarConnects, FarCloses, FarWrites, histories
<1>2. \A d : (Begun(d)' <=> Begun(d)) /\ \A fd : Follows(fd, d)' <=> Follows(fd, d)
  BY <1>1 DEF Begun, Follows
<1>3. NotReopened /\ ThreadsGoOn
  BY <1>1, <1>2 DEF NotReopened, ThreadsGoOn
<1>4. ThreadsFollow'
  BY <1>1, <1>3, ThreadsKept
<1>5. Places'
  BY <1>1 DEF IInv, Descriptors, Places, Ringing
<1>6. RingsRight'
  BY <1>1, <1>3, RingKept
<1>7. OneDescriptor'
  <2>1. CASE FarConnects(c)
    <3>. queue \in Seq(Conn)
      BY DEF IInv, TypesOK, FilesOK
    <3>1. ~Begun(c) /\ (\A i \in DOMAIN queue : queue[i] # c) /\ queue' = Append(queue, c)
      BY <2>1 DEF FarConnects, Unused
    <3>2. /\ DOMAIN queue = 1 .. Len(queue) /\ DOMAIN queue' = 1 .. Len(queue) + 1
          /\ Len(queue) \in Nat
      BY <3>1
    <3>3. (\A i \in 1 .. Len(queue) : queue'[i] = queue[i]) /\ queue'[Len(queue) + 1] = c
      BY <3>1
    <3>4. \A i \in 1 .. Len(queue) + 1 : i \in 1 .. Len(queue) \/ i = Len(queue) + 1
      BY <3>2
    <3>5. \A i \in DOMAIN queue' :
            \/ i \in DOMAIN queue /\ queue'[i] = queue[i]
            \/ i = Len(queue) + 1 /\ queue'[i] = c
      BY <3>2, <3>3, <3>4
    <3>6. QED
      BY <1>1, <1>2, <3>1, <3>5 DEF IInv, Descriptors, OneDescriptor, Begun, Follows
  <2>2. CASE queue' = queue
    <3>1. \A t \in Conn : Begun(t)' <=> Begun(t)
      BY <1>2
    <3>2. QED
      BY <1>1, <2>2, <3>1, TableKept
  <2>3. QED
    BY <2>1, <2>2 DEF FarEnd, FarCloses, FarWrites
<1>8. QED
  BY <1>4, <1>5, <1>6, <1>7 DEF Descriptors

LEMMA StepKeeps == IInv /\ [Next]_vars => IInv'
<1>. SUFFICES ASSUME IInv, [Next]_vars PROVE IInv'
  OBVIOUS
<1>1. CASE UNCHANGED vars
  <2>1. TypesOK'
    BY <1>1 DEF vars, sockets, bounds, histories, IInv, TypesOK, DataOK, FilesOK, ThreadsOK,
                OperatorOK, SessionOK, AliveOK
  <2>2. UNCHANGED << fds, queue, session, thread, listener, operator, caller, together >>
    BY <1>1 DEF vars, sockets, histories
  <2>3. \A t \in Conn : Begun(t)' <=> Begun(t)
    BY <2>2 DEF Begun
  <2>4. NotReopened /\ ThreadsGoOn /\ OneDescriptor'
    BY <2>2, <2>3, TableKept
  <2>5. ThreadsFollow' /\ RingsRight'
    BY <2>2, <2>4, ThreadsKept, RingKept
  <2>6. Places'
    BY <2>2 DEF IInv, Descriptors, Places, Ringing
  <2>7. QED
    BY <2>1, <2>4, <2>5, <2>6 DEF IInv, Descriptors
<1>2. ASSUME NEW c \in Conn, HandleClient(c) PROVE IInv'
  BY <1>2, ThreadTypes, ThreadKeeps DEF IInv
<1>3. CASE Listener
  BY <1>3, ListenerTypes, ListenerKeeps DEF IInv
<1>4. CASE OperatorSteps
  BY <1>4, OperatorTypes, OperatorKeeps DEF IInv
<1>5. ASSUME NEW c \in Conn, Call(c) PROVE IInv'
  BY <1>5, CallTypes, CallKeeps DEF IInv
<1>6. CASE WriteNumber
  BY <1>6, WriteNumberTypes, WriteNumberKeeps DEF IInv
<1>7. ASSUME NEW c \in Conn, FarEnd(c) PROVE IInv'
  BY <1>7, FarTypes, FarKeeps DEF IInv
<1>8. QED
  BY <1>1, <1>2, <1>3, <1>4, <1>5, <1>6, <1>7 DEF Next, Commands, Executes, OperatorSteps

-----------------------------------------------------------------------------
(* Connections keep to one descriptor and threads to theirs, and the       *)
(* session of a telephone that rings is one caller's, unless two calls     *)
(* were handled at once (voiphelper_main.c, handleClient).                 *)
THEOREM Invariance == Spec => []IInv
<1>1. QED
  BY InitHolds, StepKeeps, PTL DEF Spec

(* Every variable of the helper keeps its shape.                           *)
THEOREM TypeCorrect == Spec => []TypeOK
<1>1. IInv => TypeOK
  BY Zenon DEF IInv, TypesOK, DataOK, FilesOK, ThreadsOK, OperatorOK, SessionOK, AliveOK,
     SESSION, LISTENER, THREAD, OPERATOR, TypeOK
<1>2. QED
  BY <1>1, Invariance, PTL

(* However descriptors are closed twice and given out again: the answer to *)
(* a caller for whom the telephone rings and who is still there goes to    *)
(* this caller (acceptCall, rejectCall), unless two calls were handled at  *)
(* once or the operator called meanwhile.                                  *)
THEOREM AnswersReach == Spec => []AnswersReachCaller
<1>1. IInv => AnswersReachCaller
  <2>. SUFFICES ASSUME IInv, Rung, ~together, session.destNumber # NONE
                PROVE  /\ session.destNumber = caller /\ session.destIP = caller
                       /\ Open(caller) => File(session.connectfd) = caller
    BY DEF AnswersReachCaller
  <2>1. /\ session.destNumber = caller /\ session.destIP = caller
        /\ Follows(session.connectfd, caller)
    BY DEF IInv, RingsRight, SessionFollows
  <2>2. ASSUME Open(caller) PROVE File(session.connectfd) = caller
    <3>1. PICK f \in Fd : fds[f] = caller
      BY <2>2 DEF Open
    <3>2. session.connectfd = f
      BY <2>1, <3>1 DEF Follows
    <3>3. QED
      BY <3>1, <3>2 DEF File
  <2>3. QED
    BY <2>1, <2>2
<1>2. QED
  BY <1>1, Invariance, PTL

(* As long as the telephone rings, nobody takes the caller's place, unless *)
(* he had passed the test of the state before the other rang.              *)
THEOREM CallerKept == Spec => RingingCallerKept
<1>1. IInv /\ [Next]_vars =>
        [session.fxsState = "BECALLED" /\ session'.fxsState = "BECALLED" /\ ~together'
           => caller' = caller]_vars
  <2>. SUFFICES ASSUME IInv, Next, session.fxsState = "BECALLED", ~together'
                PROVE  caller' = caller
    OBVIOUS
  <2>1. ASSUME NEW c \in Conn, RingState(c) PROVE FALSE
    <3>1. ~together /\ thread[c].pc = "fxsState"
      BY <2>1 DEF RingState, At
    <3>2. QED
      BY <3>1 DEF IInv, RingsRight, RingsAlone
  <2>2. ASSUME NEW c \in Conn, HandleClient(c) PROVE caller' = caller
    BY <2>1, <2>2 DEF HandleClient, Rings, Refuses, Begin, Read, ReadEnds, TestState, RingIP,
       RingNumber, RingFd, Compare, Reject, RejectWrites, HookOn, Accepted, Talks, Finish,
       CloseAgain, histories
  <2>3. ASSUME Listener PROVE caller' = caller
    BY <2>3 DEF Listener, Listen, InitState, InitIP, InitFd, Accept, AcceptFails, histories
  <2>4. ASSUME Commands \/ Executes PROVE caller' = caller
    BY <2>4 DEF Commands, Executes, RejectOrDown, WriteReject, HangUp, AcceptCall, WriteAccept,
       Talk, AcceptSends, CallFails, CallSetsFd, CallSetsNumber, WriteNumber, CallFailed,
       Reload, Call, histories
  <2>5. ASSUME NEW c \in Conn, FarEnd(c) PROVE caller' = caller
    BY <2>5 DEF FarEnd, FarConnects, FarCloses, FarWrites, histories
  <2>6. QED
    BY <2>2, <2>3, <2>4, <2>5 DEF Next
<1>2. QED
  BY <1>1, Invariance, PTL DEF Spec, RingingCallerKept
=============================================================================
