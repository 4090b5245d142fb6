--------------------------- MODULE VoipTesterProofs ---------------------------
(***************************************************************************)
(* Theorems about VoipTester for tables and queues of any size: who holds  *)
(* l_sessFdsMutex, and what that is good for - no event of a session       *)
(* enters the queue after a handler has closed it.                         *)
(***************************************************************************)
EXTENDS VoipTester, FiniteSetTheorems, SequenceTheorems, TLAPS

EVENT == [kind : Kinds, session : Int]

TypesOK ==
  /\ queue \in Seq(EVENT) /\ Len(queue) <= StoreEventMax
  /\ active \subseteq Int /\ sessions \in Int
  /\ IsFiniteSet(active) /\ Cardinality(active) <= SessFdsMax

(* The listener holds the mutex while it reads the sessions.               *)
MutexHeld == mutex = "listener" <=> lpc \in {"read", "putCall"}

(* What it has read it puts as an event of a session that is still there.  *)
ReadIsActive == lpc = "putCall" => from \in active

IInv == TypesOK /\ MutexHeld /\ ReadIsActive

-----------------------------------------------------------------------------
LEMMA InitHolds == Init => IInv
<1>. SUFFICES ASSUME Init PROVE IInv
  OBVIOUS
<1>1. active = {} /\ queue = << >> /\ sessions = 0
  BY DEF Init
<1>2. Cardinality(active) = 0 /\ IsFiniteSet(active)
  BY <1>1, FS_EmptySet
<1>3. TypesOK
  BY <1>1, <1>2, SizeAssumption DEF TypesOK
<1>4. QED
  BY <1>3 DEF Init, IInv, MutexHeld, ReadIsActive

(* A put makes the queue longer by one, if there is room.                  *)
LEMMA PutKeeps ==
  ASSUME TypesOK, NEW th, NEW kind \in Kinds, NEW s \in Int, Put(th, Event(kind, s))
  PROVE  /\ queue' \in Seq(EVENT) /\ Len(queue') <= StoreEventMax
         /\ queue'[Len(queue')].session = s
<1>1. PICK e : e = Event(kind, s)
  OBVIOUS
<1>2. e \in EVENT /\ e.session = s
  BY <1>1 DEF Event, EVENT
<1>3. queue' = Append(queue, e) /\ Len(queue) # StoreEventMax
  BY <1>1 DEF Put, Full
<1>4. Len(queue) \in Nat /\ Len(queue) <= StoreEventMax /\ queue \in Seq(EVENT)
  BY DEF TypesOK
<1>5. queue' \in Seq(EVENT) /\ Len(queue') = Len(queue) + 1 /\ queue'[Len(queue) + 1] = e
  BY <1>2, <1>3, <1>4
<1>6. QED
  BY <1>2, <1>3, <1>4, <1>5, SizeAssumption

LEMMA TakeKeeps ==
  ASSUME TypesOK, queue # << >>, queue' = Tail(queue)
  PROVE  queue' \in Seq(EVENT) /\ Len(queue') <= StoreEventMax /\ Len(queue') < Len(queue)
<1>1. queue' \in Seq(EVENT) /\ Len(queue') = Len(queue) - 1 /\ Len(queue) \in Nat
  BY DEF TypesOK
<1>2. QED
  BY <1>1, SizeAssumption DEF TypesOK

(* The table grows by one if there is room, or loses a session.            *)
LEMMA RegisterKeeps ==
  ASSUME TypesOK, RegisterSession
  PROVE  /\ active' \subseteq Int /\ sessions' \in Int
         /\ IsFiniteSet(active') /\ Cardinality(active') <= SessFdsMax
<1>1. sessions' \in Int
  BY DEF TypesOK, RegisterSession
<1>2. IsFiniteSet(active \union {sessions'})
  BY FS_AddElement DEF TypesOK
<1>3. /\ Cardinality(active) \in Nat
      /\ Cardinality(active \union {sessions'}) \in {Cardinality(active), Cardinality(active) + 1}
  BY FS_AddElement, FS_CardinalityType DEF TypesOK
<1>4. QED
  BY <1>1, <1>2, <1>3, SizeAssumption DEF TypesOK, RegisterSession

LEMMA RemoveKeeps ==
  ASSUME TypesOK, NEW s, active' = active \ {s}
  PROVE  active' \subseteq Int /\ IsFiniteSet(active') /\ Cardinality(active') <= SessFdsMax
<1>1. IsFiniteSet(active') /\ Cardinality(active') <= Cardinality(active)
  BY FS_Subset DEF TypesOK
<1>2. Cardinality(active') \in Nat /\ Cardinality(active) \in Nat
  BY <1>1, FS_CardinalityType DEF TypesOK
<1>3. active' \subseteq Int
  BY DEF TypesOK
<1>4. Cardinality(active') <= SessFdsMax
  BY <1>1, <1>2, SizeAssumption DEF TypesOK
<1>5. QED
  BY <1>1, <1>3, <1>4

(* No step but a put makes the queue longer.                               *)
Silent == Len(queue') <= Len(queue)

LEMMA QueueKept ==
  ASSUME TypesOK, queue' = queue \/ queue' = << >>
  PROVE  queue' \in Seq(EVENT) /\ Len(queue') <= StoreEventMax /\ Silent
<1>1. Len(queue) \in Nat /\ Len(<< >>) = 0
  BY DEF TypesOK
<1>2. CASE queue' = queue
  BY <1>1, <1>2 DEF TypesOK, Silent
<1>3. CASE queue' = << >>
  BY <1>1, <1>3, SizeAssumption DEF Silent
<1>4. QED
  BY <1>2, <1>3

TableKept == UNCHANGED <<active, sessions>>
Told == queue'[Len(queue')].session \in active \union {NoSession}

-----------------------------------------------------------------------------
(* What a step of the listener does.                                       *)
LEMMA ListenerKeeps ==
  ASSUME IInv, Listener
  PROVE  IInv' /\ (Silent \/ Told)
<1>. TypesOK
  BY DEF IInv
<1>. USE DEF IInv, MutexHeld, ReadIsActive
<1>1. CASE ListenerStart
  <2>1. active' = {} /\ sessions' = sessions /\ queue' = queue
    BY <1>1 DEF ListenerStart, queueVars
  <2>2. IsFiniteSet(active') /\ Cardinality(active') = 0
    BY <2>1, FS_EmptySet
  <2>3. TypesOK' /\ Silent
    BY <2>1, <2>2, QueueKept, SizeAssumption DEF TypesOK
  <2>4. QED
    BY <1>1, <2>3 DEF ListenerStart, RoundBegins
<1>2. CASE SemWait \/ TakeSocket \/ Watch \/ Select \/ ReadDsp \/ LockTable \/ RoundEnds
  <2>1. TableKept /\ queue' = queue
    BY <1>2 DEF SemWait, TakeSocket, Watch, Select, ReadDsp, LockTable, RoundEnds, tableVars,
                queueVars, TableKept
  <2>2. TypesOK' /\ Silent
    BY <2>1, QueueKept DEF TypesOK, TableKept
  <2>3. MutexHeld' /\ ReadIsActive'
    BY <1>2 DEF SemWait, TakeSocket, Watch, Select, ReadDsp, LockTable, RoundEnds, tableVars,
                RoundBegins, AfterDsp
  <2>4. QED
    BY <2>2, <2>3
<1>3. CASE PutDsp
  <2>1. PICK kind \in {"plain", "flash"} : Put("listener", Event(kind, NoSession))
    BY <1>3 DEF PutDsp
  <2>2. /\ queue' \in Seq(EVENT) /\ Len(queue') <= StoreEventMax
        /\ queue'[Len(queue')].session = NoSession
    BY <2>1, PutKeeps DEF Kinds, NoSession
  <2>3. TypesOK' /\ Told
    BY <1>3, <2>2 DEF PutDsp, tableVars, TypesOK, Told
  <2>4. QED
    BY <1>3, <2>3 DEF PutDsp, tableVars, AfterDsp
<1>4. CASE Accept
  <2>1. queue' = queue /\ RegisterSession
    BY <1>4 DEF Accept, queueVars
  <2>2. TypesOK' /\ Silent
    BY <2>1, QueueKept, RegisterKeeps DEF TypesOK
  <2>3. QED
    BY <1>4, <2>2 DEF Accept
<1>5. CASE ReadSession
  <2>1. PICK s \in readfds \intersect active :
          \/ lpc' = "putCall" /\ from' = s /\ UNCHANGED <<active, readfds>>
          \/ active' = active \ {s} /\ UNCHANGED <<lpc, from>>
    BY <1>5 DEF ReadSession
  <2>2. UNCHANGED <<queue, mutex, sessions>> /\ lpc = "read"
    BY <1>5 DEF ReadSession, queueVars
  <2>3. /\ active' \subseteq Int /\ sessions' \in Int
        /\ IsFiniteSet(active') /\ Cardinality(active') <= SessFdsMax
    BY <2>1, <2>2, RemoveKeeps DEF TypesOK
  <2>4. TypesOK' /\ Silent
    BY <2>2, <2>3, QueueKept DEF TypesOK
  <2>5. QED
    BY <2>1, <2>2, <2>4
<1>6. CASE PutCall
  <2>1. PICK kind \in {"plain", "close"} : Put("listener", Event(kind, from))
    BY <1>6 DEF PutCall
  <2>2. from \in active /\ from \in Int
    BY <1>6 DEF PutCall, TypesOK
  <2>3. /\ queue' \in Seq(EVENT) /\ Len(queue') <= StoreEventMax
        /\ queue'[Len(queue')].session = from
    BY <2>1, <2>2, PutKeeps DEF Kinds
  <2>4. TypesOK' /\ Told
    BY <1>6, <2>2, <2>3 DEF PutCall, tableVars, TypesOK, Told
  <2>5. QED
    BY <1>6, <2>4 DEF PutCall, tableVars
<1>7. QED
  BY <1>1, <1>2, <1>3, <1>4, <1>5, <1>6 DEF Listener

(* What a step of the processor does.                                      *)
LEMMA ProcessorKeeps ==
  ASSUME IInv, ProcessorSteps
  PROVE  IInv' /\ (Silent \/ Told)
<1>. TypesOK
  BY DEF IInv
<1>. USE DEF IInv, MutexHeld, ReadIsActive
<1>1. CASE GetEvent
  <2>1. queue # << >> /\ queue' = Tail(queue) /\ UNCHANGED <<tableVars, listenerVars>>
    BY <1>1 DEF GetEvent
  <2>2. Len(queue') \in Nat /\ Len(queue) \in Nat
    BY <2>1, TakeKeeps DEF TypesOK
  <2>3. TypesOK' /\ Silent
    BY <2>1, <2>2, TakeKeeps DEF tableVars, TypesOK, Silent
  <2>4. QED
    BY <2>1, <2>3 DEF tableVars, listenerVars
<1>2. CASE HandlerPuts
  <2>1. PICK kind \in FurtherEvents : Put("processor", Event(kind, NoSession))
    BY <1>2 DEF HandlerPuts
  <2>2. kind \in Kinds
    BY DEF FurtherEvents, Kinds
  <2>3. /\ queue' \in Seq(EVENT) /\ Len(queue') <= StoreEventMax
        /\ queue'[Len(queue')].session = NoSession
    BY <2>1, <2>2, PutKeeps DEF NoSession
  <2>4. TypesOK' /\ Told
    BY <1>2, <2>3 DEF HandlerPuts, tableVars, TypesOK, Told
  <2>5. QED
    BY <1>2, <2>4 DEF HandlerPuts, tableVars, listenerVars
<1>3. CASE CallConnects
  <2>1. UNCHANGED <<tableVars, listenerVars, queue>>
    BY <1>3 DEF CallConnects, queueVars
  <2>2. TypesOK' /\ Silent
    BY <2>1, QueueKept DEF tableVars, TypesOK
  <2>3. QED
    BY <2>1, <2>2 DEF tableVars, listenerVars
<1>4. CASE CallRegisters
  <2>1. UNCHANGED <<mutex, listenerVars, queue>> /\ RegisterSession /\ mutex = "nobody"
    BY <1>4 DEF CallRegisters, queueVars
  <2>2. TypesOK' /\ Silent
    BY <2>1, QueueKept, RegisterKeeps DEF TypesOK
  <2>3. QED
    BY <2>1, <2>2 DEF listenerVars
<1>5. CASE CloseUnregisters
  <2>1. UNCHANGED <<mutex, sessions, listenerVars, queue>> /\ mutex = "nobody"
    BY <1>5 DEF CloseUnregisters, queueVars
  <2>2. PICK s : active' = active \ {s}
    BY <1>5 DEF CloseUnregisters
  <2>3. active' \subseteq Int /\ IsFiniteSet(active') /\ Cardinality(active') <= SessFdsMax
    BY <2>2, RemoveKeeps
  <2>4. TypesOK' /\ Silent
    BY <2>1, <2>3, QueueKept DEF TypesOK
  <2>5. QED
    BY <2>1, <2>4 DEF listenerVars
<1>6. QED
  BY <1>1, <1>2, <1>3, <1>4, <1>5 DEF ProcessorSteps

(* What the operator, the outside, the timers and a late signal do.        *)
LEMMA OthersKeep ==
  ASSUME IInv, Outside \/ Operator \/ TimerRuns \/ WakeUp \/ UNCHANGED vars
  PROVE  IInv' /\ (Silent \/ Told)
<1>. TypesOK
  BY DEF IInv
<1>1. UNCHANGED <<tableVars, from>>
  BY DEF Outside, ServerSends, ServerCloses, PeerConnects, PeerSends, Operator, ConnectBegin,
         Connecting, ConnectFails, Connected, SemInit, ConnectInitsQueue, CreateThreads, SemPost,
         ShutdownSocket, DropEvents, TimerRuns, WakeUp, vars, listenerVars
<1>2. lpc' = lpc \/ (lpc = "none" /\ lpc' = "start")
  BY DEF Outside, ServerSends, ServerCloses, PeerConnects, PeerSends, Operator, ConnectBegin,
         Connecting, ConnectFails, Connected, SemInit, ConnectInitsQueue, CreateThreads, SemPost,
         ShutdownSocket, DropEvents, TimerRuns, WakeUp, vars, listenerVars
<1>3. queue' = queue \/ queue' = << >>
  BY DEF Outside, ServerSends, ServerCloses, PeerConnects, PeerSends, Operator, ConnectBegin,
         Connecting, ConnectFails, Connected, SemInit, ConnectInitsQueue, InitMsgQueue, SemPost,
         ShutdownSocket, DropEvents, TimerRuns, WakeUp, vars, queueVars
<1>4. TypesOK' /\ Silent
  BY <1>1, <1>3, QueueKept DEF tableVars, TypesOK
<1>5. QED
  BY <1>1, <1>2, <1>4 DEF tableVars, IInv, MutexHeld, ReadIsActive

LEMMA StepKeeps == IInv /\ [Next]_vars => IInv' /\ (Silent \/ Told)
BY ListenerKeeps, ProcessorKeeps, OthersKeep DEF Next

-----------------------------------------------------------------------------
(* The session table and the event queue never hold more than they have    *)
(* room for, the mutex is held by the listener exactly while it looks at   *)
(* the sessions, and what it puts then is of a session in the table.       *)
THEOREM Invariance == Spec => []IInv
<1>1. QED
  BY InitHolds, StepKeeps, PTL DEF Spec

(* Once closeFd has taken a session from the table no further event of it  *)
(* enters the queue, whatever the listener had begun to read.              *)
THEOREM ClosedAreSilent == Spec => ClosedSessionsSilent
<1>1. IInv /\ [Next]_vars =>
        [Len(queue') > Len(queue) =>
           queue'[Len(queue')].session \in active \union {NoSession}]_vars
  <2>. SUFFICES ASSUME IInv, [Next]_vars, Len(queue') > Len(queue)
                PROVE  queue'[Len(queue')].session \in active \union {NoSession}
    OBVIOUS
  <2>1. Len(queue) \in Nat /\ Len(queue') \in Nat
    BY StepKeeps DEF IInv, TypesOK
  <2>2. ~Silent
    BY <2>1 DEF Silent
  <2>3. QED
    BY <2>2, StepKeeps DEF Told
<1>2. QED
  BY <1>1, Invariance, PTL DEF Spec, ClosedSessionsSilent
=============================================================================
