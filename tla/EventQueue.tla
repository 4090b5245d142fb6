------------------------------ MODULE EventQueue ------------------------------
(***************************************************************************)
(* The event queue of vt_shell (vt/vt_msgQueue.c): one ring buffer, one    *)
(* mutex and one condition variable, shared by                             *)
(*   - the listener thread (vt_listenEvent), which only puts events;       *)
(*   - the processor thread (vt_processEvent), which takes one event at a  *)
(*     time and whose handlers put further events into the same queue;     *)
(*   - the operator's thread, which clears, refreshes and re-initialises   *)
(*     the queue.                                                          *)
(* A section of the code under the mutex is one action.  A thread in       *)
(* pthread_cond_wait is a member of waiters: it left the mutex, and it     *)
(* re-tests its condition once a signal has taken it out of the set.       *)
(* Events are numbered from 1 in the order in which they were put; a       *)
(* number stands for an event and for the heap block of its pData.         *)
(***************************************************************************)
EXTENDS Naturals, FiniteSets, Sequences

CONSTANTS
  StoreEventMax,  (* g_vtConfig.storeEventMax: how many events fit         *)
  HandlerPuts,    (* how many events one round of the processor may put    *)
  MaxEvents       (* bound on the number of events put                     *)

ASSUME StoreEventMaxAssumption == StoreEventMax \in Nat \ {0}
ASSUME HandlerPutsAssumption == HandlerPuts \in Nat
ASSUME MaxEventsAssumption == MaxEvents \in Nat

VARIABLES
  ring,     (* eventQueue: the event whose pData each slot points to, or 0 *)
  start,    (* oldest event still remembered                               *)
  end,      (* the slot the next event goes to, always free                *)
  nread,    (* the next event to process                                   *)
  waiters,  (* threads asleep on the condition variable                    *)
  pc,       (* where each thread is                                        *)
  timed,    (* the processor waits with a timeout: a timer is registered   *)
  putsLeft, (* how many more events this round of the processor may put    *)
  held,     (* the event in the processor's local variable, or 0           *)
  freed,    (* events whose pData was freed                                *)
  total,    (* number of events put so far                                 *)
  reconnected  (* history: the operator has connected again               *)

indices == <<start, end, nread>>
vars == <<ring, indices, waiters, pc, timed, putsLeft, held, freed, total,
          reconnected>>

Slots == 0 .. StoreEventMax
Threads == {"listener", "processor"}
NoEvent == 0

-----------------------------------------------------------------------------
(* Index arithmetic of the ring: VT_QUEUE_SIZE is StoreEventMax + 1.       *)

(* Mutant: (i)++ > max instead of ++(i) > max.                             *)
MutCircleAdd(i) == IF i > StoreEventMax THEN 0 ELSE i + 1

CircleAdd(i) == IF i + 1 > StoreEventMax THEN 0 ELSE i + 1
CirclePreValue(i) == IF i = 0 THEN StoreEventMax ELSE i - 1
IsNeighbor(before, after) == before = CirclePreValue(after)

QueueIsFull == IsNeighbor(end, nread)
QueueIsEmpty == end = nread

(* Number of events from slot a up to, but not including, slot b:          *)
(* (b - a + VT_QUEUE_SIZE) % VT_QUEUE_SIZE.                                *)
Distance(a, b) == IF a <= b THEN b - a ELSE (b + StoreEventMax + 1) - a

(* The slots a listing of the queue walks through from a to b.             *)
Listing(a, b) == {i \in Slots : Distance(a, i) < Distance(a, b)}
MsgNew == Listing(nread, end)
MsgAll == Listing(start, end)

(* The unread events: those whose pData freeQueue passes to free().        *)
Unread == {ring[i] : i \in MsgNew}

-----------------------------------------------------------------------------
(* pthread_cond_signal wakes one of the sleeping threads, whichever it is  *)
(* waiting for; with none asleep the signal is lost.                       *)
Signal ==
  \/ waiters = {} /\ UNCHANGED waiters
  \/ \E t \in waiters : waiters' = waiters \ {t}

SignalIf(condition) ==
  \/ condition /\ Signal
  \/ ~condition /\ UNCHANGED waiters

Awake(t, at) == pc[t] = at /\ t \notin waiters
Goto(t, to) == pc' = [pc EXCEPT ![t] = to]

(* Events put or about to be put, which the bound MaxEvents limits.        *)
Started == total + Cardinality({t \in Threads : pc[t] = "put"})

Init ==
  /\ ring = [i \in Slots |-> NoEvent]
  /\ start = 0 /\ end = 0 /\ nread = 0
  /\ waiters = {}
  /\ pc = [t \in Threads |-> "idle"]
  /\ timed = FALSE
  /\ putsLeft = 0
  /\ held = NoEvent
  /\ freed = {}
  /\ total = 0
  /\ reconnected = FALSE

-----------------------------------------------------------------------------
(* vt_putEvent, called by the listener for a message from the server or a  *)
(* peer and by the processor from an event or timer handler.               *)

ListenerCallsPut ==
  /\ pc["listener"] = "idle"
  /\ Started < MaxEvents
  /\ Goto("listener", "put")
  /\ UNCHANGED <<ring, indices, waiters, timed, putsLeft, held, freed, total, reconnected>>

HandlerCallsPut ==
  /\ pc["processor"] = "handle"
  /\ putsLeft > 0
  /\ Started < MaxEvents
  /\ Goto("processor", "put")
  /\ putsLeft' = putsLeft - 1
  /\ UNCHANGED <<ring, indices, waiters, timed, held, freed, total, reconnected>>

(* The thread finds the queue full and sleeps.                             *)
PutWait(t) ==
  /\ Awake(t, "put")
  /\ QueueIsFull
  /\ waiters' = waiters \union {t}
  /\ UNCHANGED <<ring, indices, pc, timed, putsLeft, held, freed, total, reconnected>>

AfterPut == [listener |-> "idle", processor |-> "handle"]

(* Mutant: end is moved before the slot is filled.                         *)
MutPutFillsNextSlot(t) ==
  /\ Awake(t, "put") /\ ~QueueIsFull
  /\ end' = CircleAdd(end)
  /\ ring' = [ring EXCEPT ![end'] = total + 1]
  /\ start' = IF start = end' THEN CircleAdd(start) ELSE start
  /\ SignalIf(IsNeighbor(nread, end'))
  /\ total' = total + 1
  /\ Goto(t, AfterPut[t])
  /\ UNCHANGED <<nread, timed, putsLeft, held, freed, reconnected>>

(* Mutant: a signal is sent when the queue became full, not when it was    *)
(* empty.                                                                  *)
MutPutSignalsWhenFull(t) ==
  /\ Awake(t, "put") /\ ~QueueIsFull
  /\ ring' = [ring EXCEPT ![end] = total + 1]
  /\ end' = CircleAdd(end)
  /\ start' = IF start = end' THEN CircleAdd(start) ELSE start
  /\ SignalIf(IsNeighbor(end', nread))
  /\ total' = total + 1
  /\ Goto(t, AfterPut[t])
  /\ UNCHANGED <<nread, timed, putsLeft, held, freed, reconnected>>

(* The event goes to slot end.  When the ring is used up, the oldest       *)
(* remembered event is forgotten.  A signal is sent only when this event   *)
(* is the only unread one.                                                 *)
PutEvent(t) ==
  /\ Awake(t, "put")
  /\ ~QueueIsFull
  /\ ring' = [ring EXCEPT ![end] = total + 1]
  /\ end' = CircleAdd(end)
  /\ start' = IF start = end' THEN CircleAdd(start) ELSE start
  /\ SignalIf(IsNeighbor(nread, end'))
  /\ total' = total + 1
  /\ Goto(t, AfterPut[t])
  /\ UNCHANGED <<nread, timed, putsLeft, held, freed, reconnected>>

-----------------------------------------------------------------------------
(* vt_getEventUntilTime and the loop of vt_processEvent around it.         *)

(* vt_getLatestTimer says whether there is a timer to wait for.            *)
ProcessorCallsGet ==
  /\ pc["processor"] = "idle"
  /\ timed' \in BOOLEAN
  /\ Goto("processor", "get")
  /\ UNCHANGED <<ring, indices, waiters, putsLeft, held, freed, total, reconnected>>

GetWait ==
  /\ Awake("processor", "get")
  /\ QueueIsEmpty
  /\ waiters' = waiters \union {"processor"}
  /\ UNCHANGED <<ring, indices, pc, timed, putsLeft, held, freed, total, reconnected>>

(* pthread_cond_timedwait returned ETIMEDOUT: no event this round, whether *)
(* or not one has arrived meanwhile, but the timers are looked at.         *)
GetTimeout ==
  /\ pc["processor"] = "get"
  /\ "processor" \in waiters
  /\ timed
  /\ waiters' = waiters \ {"processor"}
  /\ putsLeft' = HandlerPuts
  /\ Goto("processor", "handle")
  /\ UNCHANGED <<ring, indices, timed, held, freed, total, reconnected>>

(* Mutant: fullness is tested after nread was advanced.                    *)
MutGetSignalsLate ==
  /\ Awake("processor", "get") /\ ~QueueIsEmpty
  /\ held' = ring[nread]
  /\ nread' = CircleAdd(nread)
  /\ SignalIf(IsNeighbor(end, nread'))
  /\ putsLeft' = HandlerPuts
  /\ Goto("processor", "handle")
  /\ UNCHANGED <<ring, start, end, timed, freed, total, reconnected>>

(* Mutant: emptiness is not tested again after a wakeup.                   *)
MutGetOnce ==
  /\ Awake("processor", "get")
  /\ held' = ring[nread]
  /\ SignalIf(QueueIsFull)
  /\ nread' = CircleAdd(nread)
  /\ putsLeft' = HandlerPuts
  /\ Goto("processor", "handle")
  /\ UNCHANGED <<ring, start, end, timed, freed, total, reconnected>>

(* The fullness of the queue is tested before nread advances.              *)
GetEvent ==
  /\ Awake("processor", "get")
  /\ ~QueueIsEmpty
  /\ held' = ring[nread]
  /\ SignalIf(QueueIsFull)
  /\ nread' = CircleAdd(nread)
  /\ putsLeft' = HandlerPuts
  /\ Goto("processor", "handle")
  /\ UNCHANGED <<ring, start, end, timed, freed, total, reconnected>>

(* The round ends: after an event its pData is freed (vt_freeEvent), after *)
(* a timeout there is none.                                                *)
EndRound ==
  /\ pc["processor"] = "handle"
  /\ freed' = IF held = NoEvent THEN freed ELSE freed \union {held}
  /\ held' = NoEvent
  /\ Goto("processor", "idle")
  /\ UNCHANGED <<ring, indices, waiters, timed, putsLeft, total, reconnected>>

(* An event that names no endpoint is dropped, and its pData leaks.        *)
DropUnknownEndpoint ==
  /\ pc["processor"] = "handle"
  /\ held # NoEvent
  /\ held' = NoEvent
  /\ Goto("processor", "idle")
  /\ UNCHANGED <<ring, indices, waiters, timed, putsLeft, freed, total, reconnected>>

-----------------------------------------------------------------------------
(* The operator's commands, each in one section under the mutex.           *)

(* Mutant: clearing frees every remembered event, not only the unread ones.*)
MutClearFreesHistory ==
  /\ freed' = freed \union {ring[i] : i \in MsgAll}
  /\ SignalIf(QueueIsFull)
  /\ start' = 0 /\ end' = 0 /\ nread' = 0
  /\ UNCHANGED <<ring, pc, timed, putsLeft, held, total, reconnected>>

MsgClear ==
  /\ freed' = freed \union Unread
  /\ SignalIf(QueueIsFull)
  /\ start' = 0 /\ end' = 0 /\ nread' = 0
  /\ UNCHANGED <<ring, pc, timed, putsLeft, held, total, reconnected>>

(* Mutant: fullness is tested after nread was moved.                       *)
MutRefreshSignalsLate ==
  /\ freed' = freed \union Unread
  /\ nread' = end
  /\ SignalIf(IsNeighbor(end, nread'))
  /\ UNCHANGED <<ring, start, end, pc, timed, putsLeft, held, total, reconnected>>

MsgRefresh ==
  /\ freed' = freed \union Unread
  /\ SignalIf(QueueIsFull)
  /\ nread' = end
  /\ UNCHANGED <<ring, start, end, pc, timed, putsLeft, held, total, reconnected>>

(* vt_initMsgQueue on a later connect: the ring is allocated anew and the  *)
(* indices are reset.  No signal is sent.                                  *)
InitMsgQueue ==
  /\ reconnected' = TRUE
  /\ freed' = freed \union Unread
  /\ ring' = [i \in Slots |-> NoEvent]
  /\ start' = 0 /\ end' = 0 /\ nread' = 0
  /\ UNCHANGED <<waiters, pc, timed, putsLeft, held, total>>

(* pthread_cond_wait may return without a signal.                          *)
SpuriousWakeup ==
  /\ \E t \in waiters : waiters' = waiters \ {t}
  /\ UNCHANGED <<ring, indices, pc, timed, putsLeft, held, freed, total, reconnected>>

-----------------------------------------------------------------------------
Listener ==
  \/ ListenerCallsPut
  \/ PutWait("listener")
  \/ PutEvent("listener")

Processor ==
  \/ ProcessorCallsGet
  \/ GetWait
  \/ GetTimeout
  \/ GetEvent
  \/ HandlerCallsPut
  \/ PutWait("processor")
  \/ PutEvent("processor")
  \/ EndRound
  \/ DropUnknownEndpoint

Operator == MsgClear \/ MsgRefresh \/ InitMsgQueue

Next == Listener \/ Processor \/ Operator \/ SpuriousWakeup

Spec == Init /\ [][Next]_vars

(* Neither thread stops inside a section of the queue, and the processor's *)
(* loop comes back for the next event.  Nothing makes the listener or a    *)
(* handler put an event, a timer expire or the operator act.               *)
Fairness ==
  /\ \A t \in Threads : WF_vars(PutWait(t)) /\ WF_vars(PutEvent(t))
  /\ WF_vars(ProcessorCallsGet)
  /\ WF_vars(GetWait)
  /\ WF_vars(GetEvent)
  /\ WF_vars(EndRound \/ DropUnknownEndpoint)

FairSpec == Spec /\ Fairness

-----------------------------------------------------------------------------
TypeOK ==
  /\ ring \in [Slots -> Nat]
  /\ start \in Slots /\ end \in Slots /\ nread \in Slots
  /\ waiters \subseteq Threads
  /\ pc \in [Threads -> {"idle", "put", "get", "handle"}]
  /\ timed \in BOOLEAN
  /\ putsLeft \in Nat
  /\ held \in Nat
  /\ freed \subseteq Nat
  /\ total \in Nat
  /\ reconnected \in BOOLEAN

(* The history msg_all prints always covers the unread events msg_new      *)
(* prints: start is pushed forward in time when the ring is used up, and   *)
(* never past nread ("start always point to the first element of queue").  *)
HistoryCoversUnread == MsgNew \subseteq MsgAll

(* The remembered slots hold exactly the last events put, in order and     *)
(* with no gap, however often the indices wrapped: a put never lands on an *)
(* unread event and nothing is skipped or repeated.                        *)
RemembersLastEvents ==
  \A i \in MsgAll : ring[i] + Distance(i, end) = total + 1

(* No dangling pData: neither an unread event nor the one the processor    *)
(* handles was freed, and no block belongs to both, so that freeQueue in   *)
(* the operator's thread and vt_freeEvent never free the same block.       *)
PDataOwnership ==
  /\ Unread \cap freed = {}
  /\ held \notin freed
  /\ held \notin Unread

(* A thread sleeps for good reason: the processor only while there is      *)
(* nothing to read, a put only while there is no room ("Event queue is     *)
(* full! Waiting for consuming."), unless a woken thread is on its way     *)
(* that will signal in turn.  So it is until the operator connects again.  *)
NoLostWakeup ==
  ~reconnected => \A t \in waiters :
    \/ IF pc[t] = "get" THEN QueueIsEmpty ELSE QueueIsFull
    \/ \E u \in Threads \ waiters : pc[u] \in {"put", "get"}

(* The two threads never sleep together unless the queue is full: asleep   *)
(* on an empty queue, neither can ever wake the other.  It fails once the  *)
(* operator connects again, for vt_initMsgQueue ("may be called several    *)
(* times") empties a full queue without waking the thread that waits for   *)
(* room, and the processor then goes to sleep beside it.                   *)
NotAsleepTogether == waiters = Threads => QueueIsFull

(* The ring buffer, its wait set and the operator's commands implement a   *)
(* bounded first-in first-out channel.                                     *)
UnreadCount == Distance(nread, end)
SlotAfter(i, k) ==
  IF i + k > StoreEventMax THEN (i + k) - (StoreEventMax + 1) ELSE i + k

Channel == [k \in 1 .. UnreadCount |-> ring[SlotAfter(nread, k - 1)]]

Fifo == INSTANCE BoundedFifo WITH
  Capacity <- StoreEventMax, channel <- Channel, inHand <- held

ImplementsFifo == Fifo!Spec

(* The listener's put returns, unless the processor came to sleep for good *)
(* in a put of its own handler (nobody is then left to consume) or the     *)
(* operator connected again.                                               *)
SelfDeadlock == [](pc["processor"] = "put")

PutReturns ==
  pc["listener"] = "put" ~> (pc["listener"] = "idle" \/ SelfDeadlock \/ reconnected)

(* Every event put is taken by the processor or dropped by the operator,   *)
(* unless the processor sleeps for good.                                   *)
EventsConsumed ==
  \A e \in 1 .. MaxEvents : e \in Unread ~> (e \notin Unread \/ SelfDeadlock)
=============================================================================
