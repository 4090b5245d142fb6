--------------------------- MODULE EventQueueProofs ---------------------------
(***************************************************************************)
(* Theorems about EventQueue for every capacity of the queue, any number   *)
(* of events and any behaviour of the operator, the reconnects included.   *)
(***************************************************************************)
EXTENDS EventQueue, SequenceTheorems, TLAPS

(***************************************************************************)
(* The inductive invariant.  RemembersLastEvents speaks of the slots from  *)
(* start to end, so the order start, nread, end around the ring is needed  *)
(* to know what an unread slot holds; and an event is known not to be      *)
(* freed because every event freed or taken is older than the unread ones. *)
(***************************************************************************)
RingOrder == Distance(start, nread) + Distance(nread, end) = Distance(start, end)

OlderThanUnread(e) == e + Distance(nread, end) <= total

FreedAreOlder == \A e \in freed : e > 0 /\ OlderThanUnread(e)

HeldIsOlder == OlderThanUnread(held) /\ held \notin freed

IInv ==
  /\ TypeOK
  /\ RingOrder
  /\ RemembersLastEvents
  /\ FreedAreOlder
  /\ HeldIsOlder

-----------------------------------------------------------------------------
(* Index arithmetic.                                                       *)

(* Indices and distances stay within the ring.                             *)
LEMMA IndexRange ==
  ASSUME NEW a \in Slots, NEW b \in Slots
  PROVE  /\ CircleAdd(a) \in Slots
         /\ CirclePreValue(a) \in Slots
         /\ Distance(a, b) \in 0 .. StoreEventMax
         /\ Distance(a, b) = 0 <=> a = b
  BY StoreEventMaxAssumption DEF Slots, CircleAdd, CirclePreValue, Distance

(* Moving the far end on by one slot makes a stretch longer by one, unless *)
(* it catches up with the near end.                                        *)
LEMMA DistanceToNext ==
  ASSUME NEW a \in Slots, NEW b \in Slots, CircleAdd(b) # a
  PROVE  Distance(a, CircleAdd(b)) = Distance(a, b) + 1
  BY StoreEventMaxAssumption DEF Slots, CircleAdd, Distance

(* Moving the near end on by one slot makes a nonempty stretch shorter.    *)
LEMMA DistanceFromNext ==
  ASSUME NEW a \in Slots, NEW b \in Slots, a # b
  PROVE  Distance(CircleAdd(a), b) = Distance(a, b) - 1
  BY StoreEventMaxAssumption DEF Slots, CircleAdd, Distance

(* The queue is full exactly when the next slot of end is nread.           *)
LEMMA FullIsNextToRead ==
  ASSUME TypeOK
  PROVE  QueueIsFull <=> CircleAdd(end) = nread
  BY StoreEventMaxAssumption
  DEF TypeOK, Slots, QueueIsFull, IsNeighbor, CirclePreValue, CircleAdd

(* The number that an unread slot holds, and that it is positive, not the  *)
(* processor's event and not freed.                                        *)
LEMMA UnreadSlot ==
  ASSUME IInv, NEW i \in MsgNew
  PROVE  /\ i \in MsgAll
         /\ ring[i] = total + 1 - Distance(i, end)
         /\ ring[i] + Distance(nread, end) > total
         /\ ring[i] > 0
<1>1. i \in Slots /\ Distance(nread, i) < Distance(nread, end)
  BY DEF MsgNew, Listing
<1>2. /\ start \in Slots /\ end \in Slots /\ nread \in Slots
      /\ total \in Nat /\ held \in Nat /\ ring[i] \in Nat
  BY <1>1 DEF IInv, TypeOK
<1>3. Distance(start, i) < Distance(start, end)
  BY <1>1, <1>2, StoreEventMaxAssumption DEF IInv, RingOrder, Distance, Slots
<1>4. Distance(i, end) \in Nat /\ Distance(i, end) <= Distance(nread, end)
  BY <1>1, <1>2, StoreEventMaxAssumption DEF Distance, Slots
<1>5. i \in MsgAll
  BY <1>1, <1>3 DEF MsgAll, Listing
<1>6. ring[i] + Distance(i, end) = total + 1
  BY <1>5 DEF IInv, RemembersLastEvents
<1>7. Distance(nread, end) \in Nat /\ Distance(nread, end) <= total
  BY <1>2, IndexRange DEF IInv, HeldIsOlder, OlderThanUnread
<1>8. QED
  BY <1>2, <1>4, <1>5, <1>6, <1>7

-----------------------------------------------------------------------------
LEMMA InitEstablishes == Init => IInv
<1> SUFFICES ASSUME Init PROVE IInv
  OBVIOUS
<1>1. TypeOK
  <2>1. timed \in BOOLEAN /\ reconnected \in BOOLEAN
    BY Zenon DEF Init
  <2>2. /\ start \in Slots /\ end \in Slots /\ nread \in Slots
        /\ ring \in [Slots -> Nat]
    BY StoreEventMaxAssumption DEF Init, Slots, NoEvent
  <2>3. waiters \subseteq Threads /\ pc \in [Threads -> {"idle", "put", "get", "handle"}]
    BY DEF Init
  <2>4. putsLeft \in Nat /\ held \in Nat /\ freed \subseteq Nat /\ total \in Nat
    BY DEF Init, NoEvent
  <2>5. QED
    BY <2>1, <2>2, <2>3, <2>4 DEF TypeOK
<1>2. \A i \in Slots : Distance(0, i) \in Nat
  BY DEF Slots, Distance
<1>3. MsgAll = {} /\ Distance(0, 0) = 0
  BY <1>2 DEF Init, MsgAll, Listing, Distance, Slots
<1>4. RingOrder /\ FreedAreOlder /\ HeldIsOlder
  BY <1>3 DEF Init, RingOrder, FreedAreOlder, HeldIsOlder, OlderThanUnread, NoEvent
<1>5. QED
  BY <1>1, <1>3, <1>4 DEF IInv, RemembersLastEvents

(* A put keeps the invariant: it fills the free slot, forgets the oldest   *)
(* event only when the ring is used up, and that one has been read.        *)
LEMMA PutKeeps ==
  ASSUME IInv, NEW t \in Threads, PutEvent(t)
  PROVE  IInv'
<1>. USE StoreEventMaxAssumption
<1>1. TypeOK /\ ~QueueIsFull
  BY DEF IInv, PutEvent
<1>2. /\ ring \in [Slots -> Nat]
      /\ start \in Slots /\ end \in Slots /\ nread \in Slots
      /\ held \in Nat /\ total \in Nat
      /\ freed \subseteq Nat
  BY <1>1 DEF TypeOK
<1>3. /\ ring' = [ring EXCEPT ![end] = total + 1]
      /\ end' = CircleAdd(end)
      /\ start' = IF start = end' THEN CircleAdd(start) ELSE start
      /\ total' = total + 1
      /\ UNCHANGED <<nread, held, freed>>
  BY DEF PutEvent
<1>4. end' # nread
  BY <1>1, <1>3, FullIsNextToRead
<1>5. TypeOK'
  <2>1. waiters' \subseteq Threads
    BY <1>1 DEF PutEvent, SignalIf, Signal, TypeOK
  <2>2. pc' \in [Threads -> {"idle", "put", "get", "handle"}]
    BY <1>1 DEF PutEvent, Goto, AfterPut, Threads, TypeOK
  <2>3. start' \in Slots /\ end' \in Slots /\ nread' \in Slots
    BY <1>2, <1>3, IndexRange
  <2>4. ring' \in [Slots -> Nat] /\ total' \in Nat /\ held' \in Nat /\ freed' \subseteq Nat
    BY <1>2, <1>3
  <2>5. timed' \in BOOLEAN /\ putsLeft' \in Nat /\ reconnected' \in BOOLEAN
    BY <1>1 DEF PutEvent, TypeOK
  <2>6. QED
    BY <2>1, <2>2, <2>3, <2>4, <2>5 DEF TypeOK
<1>6. Distance(nread, end') = Distance(nread, end) + 1
  BY <1>2, <1>3, <1>4, DistanceToNext
<1>7. RingOrder'
  BY <1>2, <1>3, <1>4 DEF IInv, RingOrder, Distance, CircleAdd, Slots
<1>8. RemembersLastEvents'
  <2> SUFFICES ASSUME NEW i \in MsgAll'
               PROVE  ring'[i] + Distance(i, end') = total' + 1
    BY DEF RemembersLastEvents
  <2>1. i \in Slots /\ Distance(start', i) < Distance(start', end')
    BY DEF MsgAll, Listing
  <2>2. i # end'
    BY <1>5, <2>1, IndexRange DEF TypeOK, Distance
  <2>3. Distance(i, end') = IF i = end THEN 1 ELSE Distance(i, end) + 1
    BY <1>2, <1>3, <2>1, <2>2, DistanceToNext, IndexRange
  <2>4. CASE i = end
    BY <1>2, <1>3, <2>1, <2>3, <2>4
  <2>5. CASE i # end
    <3>1. Distance(start, i) < Distance(start, end)
      BY <1>2, <1>3, <2>1, <2>2, <2>5 DEF Distance, CircleAdd, Slots
    <3>2. ring[i] + Distance(i, end) = total + 1
      BY <2>1, <3>1 DEF IInv, RemembersLastEvents, MsgAll, Listing
    <3>3. ring'[i] = ring[i] /\ ring[i] \in Nat /\ Distance(i, end) \in Nat
      BY <1>2, <1>3, <2>1, <2>5, IndexRange
    <3>4. QED
      BY <1>2, <1>3, <2>3, <2>5, <3>2, <3>3
  <2>6. QED
    BY <2>4, <2>5
<1>9. Distance(nread, end) \in Nat
  BY <1>2, IndexRange
<1>10. FreedAreOlder' /\ HeldIsOlder'
  BY <1>2, <1>3, <1>6, <1>9 DEF IInv, FreedAreOlder, HeldIsOlder, OlderThanUnread
<1>11. QED
  BY <1>5, <1>7, <1>8, <1>10 DEF IInv

(* Taking the oldest unread event keeps the invariant: that event becomes  *)
(* the processor's, and the unread ones that are left are younger.         *)
LEMMA GetKeeps ==
  ASSUME IInv, GetEvent
  PROVE  IInv'
<1>. USE StoreEventMaxAssumption
<1>1. TypeOK /\ end # nread
  BY DEF IInv, GetEvent, QueueIsEmpty
<1>2. /\ ring \in [Slots -> Nat]
      /\ start \in Slots /\ end \in Slots /\ nread \in Slots
      /\ total \in Nat /\ freed \subseteq Nat
  BY <1>1 DEF TypeOK
<1>3. /\ held' = ring[nread]
      /\ nread' = CircleAdd(nread)
      /\ UNCHANGED <<ring, start, end, freed, total>>
  BY DEF GetEvent
<1>4. TypeOK'
  <2>1. waiters' \subseteq Threads
    BY <1>1 DEF GetEvent, SignalIf, Signal, TypeOK
  <2>2. pc' \in [Threads -> {"idle", "put", "get", "handle"}]
    BY <1>1 DEF GetEvent, Goto, TypeOK
  <2>3. nread' \in Slots /\ held' \in Nat
    BY <1>2, <1>3, IndexRange
  <2>4. putsLeft' \in Nat /\ timed' \in BOOLEAN /\ reconnected' \in BOOLEAN
    BY <1>1, HandlerPutsAssumption DEF GetEvent, TypeOK
  <2>5. QED
    BY <1>2, <1>3, <2>1, <2>2, <2>3, <2>4 DEF TypeOK
<1>5. Distance(nread', end) = Distance(nread, end) - 1
  BY <1>1, <1>2, <1>3, DistanceFromNext
<1>6. Distance(nread, end) \in Nat /\ Distance(nread, end) > 0
  BY <1>1, <1>2, IndexRange
<1>7. RingOrder'
  BY <1>1, <1>2, <1>3 DEF IInv, RingOrder, Distance, CircleAdd, Slots
<1>8. RemembersLastEvents'
  BY <1>3 DEF IInv, RemembersLastEvents, MsgAll, Listing
<1>9. nread \in MsgNew
  BY <1>2, <1>6 DEF MsgNew, Listing, Distance, Slots
<1>10. held' = total + 1 - Distance(nread, end) /\ held' > 0
  BY <1>3, <1>9, UnreadSlot
<1>11. \A e \in freed : e < held'
  BY <1>2, <1>6, <1>10 DEF IInv, FreedAreOlder, OlderThanUnread
<1>12. FreedAreOlder' /\ HeldIsOlder'
  BY <1>2, <1>3, <1>5, <1>6, <1>10, <1>11
  DEF IInv, FreedAreOlder, HeldIsOlder, OlderThanUnread
<1>13. QED
  BY <1>4, <1>7, <1>8, <1>12 DEF IInv

(* An operator's command that empties the queue keeps the invariant: the   *)
(* unread events join the freed ones, and nothing is unread any more.      *)
LEMMA EmptyingKeeps ==
  ASSUME IInv, TypeOK',
         freed' = freed \union Unread,
         end' = nread',
         UNCHANGED <<held, total>>,
         RingOrder', RemembersLastEvents'
  PROVE  IInv'
<1>. USE StoreEventMaxAssumption
<1>1. /\ Distance(nread, end) \in Nat
      /\ Distance(nread', end') = 0
      /\ total \in Nat /\ held \in Nat /\ freed \subseteq Nat
  <2>1. /\ end \in Slots /\ nread \in Slots
        /\ end' \in Slots /\ nread' \in Slots
        /\ total \in Nat /\ held \in Nat /\ freed \subseteq Nat
    BY DEF IInv, TypeOK
  <2>2. QED
    BY <2>1, IndexRange
<1>2. ASSUME NEW e \in Unread
      PROVE  e > 0 /\ e <= total /\ e # held
  <2>1. PICK i \in MsgNew : e = ring[i]
    BY DEF Unread
  <2>2. i \in Slots /\ Distance(nread, i) < Distance(nread, end) /\ end \in Slots
    BY DEF MsgNew, Listing, IInv, TypeOK
  <2>3. Distance(i, end) \in Nat /\ Distance(i, end) # 0
    BY <2>2, IndexRange, <1>1
  <2>4. QED
    BY <1>1, <2>1, <2>3, UnreadSlot DEF IInv, HeldIsOlder, OlderThanUnread
<1>3. FreedAreOlder'
  BY <1>1, <1>2 DEF IInv, FreedAreOlder, OlderThanUnread
<1>4. HeldIsOlder'
  BY <1>1, <1>2 DEF IInv, HeldIsOlder, OlderThanUnread
<1>5. QED
  BY <1>3, <1>4 DEF IInv

LEMMA ClearKeeps ==
  ASSUME IInv, MsgClear
  PROVE  IInv'
<1>1. TypeOK'
  <2>1. waiters' \subseteq Threads
    BY DEF IInv, TypeOK, MsgClear, SignalIf, Signal
  <2>2. start' \in Slots /\ end' \in Slots /\ nread' \in Slots
    BY StoreEventMaxAssumption DEF MsgClear, Slots
  <2>3. freed' \subseteq Nat
    BY DEF IInv, TypeOK, MsgClear, Unread, MsgNew, Listing
  <2>4. QED
    BY <2>1, <2>2, <2>3 DEF IInv, TypeOK, MsgClear
<1>2. start' = 0 /\ end' = 0 /\ nread' = 0 /\ Distance(0, 0) = 0
  BY DEF MsgClear, Distance
<1>3. MsgAll' = {}
  <2>1. \A i \in Slots : Distance(0, i) \in Nat
    BY DEF Slots, Distance
  <2>2. QED
    BY <1>2, <2>1 DEF MsgAll, Listing
<1>4. RingOrder' /\ RemembersLastEvents'
  BY <1>2, <1>3 DEF RingOrder, RemembersLastEvents
<1>5. QED
  BY <1>1, <1>2, <1>4, EmptyingKeeps DEF MsgClear

LEMMA RefreshKeeps ==
  ASSUME IInv, MsgRefresh
  PROVE  IInv'
<1>1. TypeOK'
  <2>1. waiters' \subseteq Threads
    BY DEF IInv, TypeOK, MsgRefresh, SignalIf, Signal
  <2>2. nread' \in Slots
    BY DEF IInv, TypeOK, MsgRefresh
  <2>3. freed' \subseteq Nat
    BY DEF IInv, TypeOK, MsgRefresh, Unread, MsgNew, Listing
  <2>4. QED
    BY <2>1, <2>2, <2>3 DEF IInv, TypeOK, MsgRefresh
<1>2. nread' = end /\ UNCHANGED <<ring, start, end, total>>
  BY DEF MsgRefresh
<1>3. RingOrder'
  BY <1>2, StoreEventMaxAssumption DEF IInv, TypeOK, RingOrder, Distance, Slots
<1>4. RemembersLastEvents'
  BY <1>2 DEF IInv, RemembersLastEvents, MsgAll, Listing
<1>5. QED
  BY <1>1, <1>2, <1>3, <1>4, EmptyingKeeps DEF MsgRefresh

LEMMA InitMsgQueueKeeps ==
  ASSUME IInv, InitMsgQueue
  PROVE  IInv'
<1>1. TypeOK'
  <2>1. ring' \in [Slots -> Nat]
    BY DEF InitMsgQueue, NoEvent
  <2>2. start' \in Slots /\ end' \in Slots /\ nread' \in Slots
    BY StoreEventMaxAssumption DEF InitMsgQueue, Slots
  <2>3. freed' \subseteq Nat
    BY DEF IInv, TypeOK, InitMsgQueue, Unread, MsgNew, Listing
  <2>4. reconnected' \in BOOLEAN
    BY Zenon DEF InitMsgQueue
  <2>5. QED
    BY <2>1, <2>2, <2>3, <2>4 DEF IInv, TypeOK, InitMsgQueue
<1>2. start' = 0 /\ end' = 0 /\ nread' = 0 /\ Distance(0, 0) = 0
  BY DEF InitMsgQueue, Distance
<1>3. MsgAll' = {}
  <2>1. \A i \in Slots : Distance(0, i) \in Nat
    BY DEF Slots, Distance
  <2>2. QED
    BY <1>2, <2>1 DEF MsgAll, Listing
<1>4. RingOrder' /\ RemembersLastEvents'
  BY <1>2, <1>3 DEF RingOrder, RemembersLastEvents
<1>5. QED
  BY <1>1, <1>2, <1>4, EmptyingKeeps DEF InitMsgQueue

(* The steps that leave the ring alone.                                    *)
LEMMA RingUntouchedKeeps ==
  ASSUME IInv, TypeOK', UNCHANGED <<ring, start, end, nread, total>>,
         FreedAreOlder', HeldIsOlder'
  PROVE  IInv'
  BY DEF IInv, RingOrder, RemembersLastEvents, MsgAll, Listing

LEMMA EndRoundKeeps ==
  ASSUME IInv, EndRound
  PROVE  IInv'
<1>1. /\ Distance(nread, end) \in Nat /\ Distance(nread, end) <= total
      /\ total \in Nat /\ held \in Nat /\ freed \subseteq Nat
  <2>1. end \in Slots /\ nread \in Slots /\ total \in Nat /\ held \in Nat /\ freed \subseteq Nat
    BY DEF IInv, TypeOK
  <2>2. QED
    BY <2>1, IndexRange, StoreEventMaxAssumption
    DEF IInv, HeldIsOlder, OlderThanUnread
<1>2. TypeOK'
  <2>1. pc' \in [Threads -> {"idle", "put", "get", "handle"}]
    BY DEF IInv, TypeOK, EndRound, Goto
  <2>2. held' \in Nat /\ freed' \subseteq Nat
    BY <1>1 DEF EndRound, NoEvent
  <2>3. QED
    BY <2>1, <2>2 DEF IInv, TypeOK, EndRound, indices
<1>3. FreedAreOlder'
  BY <1>1 DEF IInv, FreedAreOlder, HeldIsOlder, OlderThanUnread, EndRound,
              NoEvent, indices
<1>4. HeldIsOlder'
  BY <1>1 DEF IInv, FreedAreOlder, HeldIsOlder, OlderThanUnread, EndRound,
              NoEvent, indices
<1>5. QED
  BY <1>2, <1>3, <1>4, RingUntouchedKeeps DEF EndRound, indices

LEMMA DropKeeps ==
  ASSUME IInv, DropUnknownEndpoint
  PROVE  IInv'
<1>1. /\ Distance(nread, end) \in Nat /\ Distance(nread, end) <= total
      /\ total \in Nat /\ held \in Nat /\ freed \subseteq Nat
  <2>1. end \in Slots /\ nread \in Slots /\ total \in Nat /\ held \in Nat /\ freed \subseteq Nat
    BY DEF IInv, TypeOK
  <2>2. QED
    BY <2>1, IndexRange, StoreEventMaxAssumption
    DEF IInv, HeldIsOlder, OlderThanUnread
<1>2. TypeOK'
  <2>1. pc' \in [Threads -> {"idle", "put", "get", "handle"}]
    BY DEF IInv, TypeOK, DropUnknownEndpoint, Goto
  <2>2. QED
    BY <2>1 DEF IInv, TypeOK, DropUnknownEndpoint, NoEvent, indices
<1>3. FreedAreOlder' /\ HeldIsOlder'
  BY <1>1 DEF IInv, FreedAreOlder, HeldIsOlder, OlderThanUnread,
              DropUnknownEndpoint, NoEvent, indices
<1>4. QED
  BY <1>2, <1>3, RingUntouchedKeeps DEF DropUnknownEndpoint, indices

(* Calls, sleeps and wakeups move only pc, waiters, timed and putsLeft.    *)
WaitingStep ==
  \/ ListenerCallsPut
  \/ HandlerCallsPut
  \/ \E t \in Threads : PutWait(t)
  \/ ProcessorCallsGet
  \/ GetWait
  \/ GetTimeout
  \/ SpuriousWakeup

LEMMA WaitingKeeps ==
  ASSUME IInv, WaitingStep
  PROVE  IInv'
<1>1. UNCHANGED <<ring, start, end, nread, held, freed, total, reconnected>>
  BY DEF WaitingStep, ListenerCallsPut, HandlerCallsPut, PutWait, GetWait,
         ProcessorCallsGet, GetTimeout, SpuriousWakeup, indices
<1>2. TypeOK'
  <2>1. waiters' \subseteq Threads
    BY DEF IInv, TypeOK, WaitingStep, ListenerCallsPut, HandlerCallsPut, PutWait,
           GetWait, ProcessorCallsGet, GetTimeout, SpuriousWakeup, Threads
  <2>2. pc' \in [Threads -> {"idle", "put", "get", "handle"}]
    BY DEF IInv, TypeOK, WaitingStep, ListenerCallsPut, HandlerCallsPut, PutWait,
           GetWait, ProcessorCallsGet, GetTimeout, SpuriousWakeup, Goto
  <2>3. timed' \in BOOLEAN
    BY DEF IInv, TypeOK, WaitingStep, ListenerCallsPut, HandlerCallsPut, PutWait,
           GetWait, ProcessorCallsGet, GetTimeout, SpuriousWakeup
  <2>4. putsLeft' \in Nat
    BY HandlerPutsAssumption
    DEF IInv, TypeOK, WaitingStep, ListenerCallsPut, HandlerCallsPut, PutWait,
        GetWait, ProcessorCallsGet, GetTimeout, SpuriousWakeup
  <2>5. QED
    BY <1>1, <2>1, <2>2, <2>3, <2>4 DEF IInv, TypeOK
<1>3. FreedAreOlder' /\ HeldIsOlder'
  BY <1>1 DEF IInv, FreedAreOlder, HeldIsOlder, OlderThanUnread
<1>4. QED
  BY <1>1, <1>2, <1>3, RingUntouchedKeeps

LEMMA NextKeeps == IInv /\ [Next]_vars => IInv'
<1> SUFFICES ASSUME IInv, [Next]_vars
             PROVE  IInv'
  OBVIOUS
<1>1. CASE WaitingStep
  BY <1>1, WaitingKeeps
<1>2. CASE \E t \in Threads : PutEvent(t)
  BY <1>2, PutKeeps
<1>3. CASE GetEvent
  BY <1>3, GetKeeps
<1>4. CASE EndRound
  BY <1>4, EndRoundKeeps
<1>5. CASE DropUnknownEndpoint
  BY <1>5, DropKeeps
<1>6. CASE MsgClear
  BY <1>6, ClearKeeps
<1>7. CASE MsgRefresh
  BY <1>7, RefreshKeeps
<1>8. CASE InitMsgQueue
  BY <1>8, InitMsgQueueKeeps
<1>9. CASE UNCHANGED vars
  <2>1. TypeOK' /\ FreedAreOlder' /\ HeldIsOlder'
    BY <1>9 DEF IInv, vars, indices, TypeOK, FreedAreOlder, HeldIsOlder, OlderThanUnread
  <2>2. QED
    BY <1>9, <2>1, RingUntouchedKeeps DEF vars, indices
<1>10. QED
  BY <1>1, <1>2, <1>3, <1>4, <1>5, <1>6, <1>7, <1>8, <1>9
  DEF Next, Listener, Processor, Operator, WaitingStep, Threads

(* The inductive invariant holds in every reachable state.                 *)
THEOREM Invariance == Spec => []IInv
  BY InitEstablishes, NextKeeps, PTL DEF Spec

-----------------------------------------------------------------------------
(* Every variable keeps its type, whatever the capacity.                   *)
THEOREM TypeCorrect == Spec => []TypeOK
<1>1. IInv => TypeOK
  BY DEF IInv
<1>2. QED
  BY <1>1, Invariance, PTL

(* The history always covers the unread events.                            *)
THEOREM HistoryCovered == Spec => []HistoryCoversUnread
<1>1. IInv => HistoryCoversUnread
  BY UnreadSlot DEF HistoryCoversUnread
<1>2. QED
  BY <1>1, Invariance, PTL

(* The remembered slots hold the last events put, in order, without gap.   *)
THEOREM LastEventsRemembered == Spec => []RemembersLastEvents
<1>1. IInv => RemembersLastEvents
  BY DEF IInv
<1>2. QED
  BY <1>1, Invariance, PTL

(* No event that is unread or being handled was freed, and no two owners   *)
(* share a block: freeQueue and vt_freeEvent never free a block twice.     *)
THEOREM NoDanglingPData == Spec => []PDataOwnership
<1>1. ASSUME IInv PROVE PDataOwnership
  <2>1. total \in Nat /\ held \in Nat /\ freed \subseteq Nat /\ Distance(nread, end) \in Nat
    BY <1>1, IndexRange DEF IInv, TypeOK
  <2>2. ASSUME NEW i \in MsgNew
        PROVE  ring[i] # held /\ ring[i] \notin freed
    <3>1. ring[i] \in Nat
      BY <1>1 DEF IInv, TypeOK, MsgNew, Listing
    <3>2. ring[i] + Distance(nread, end) > total
      BY <1>1, UnreadSlot
    <3>3. QED
      BY <1>1, <2>1, <3>1, <3>2
      DEF IInv, HeldIsOlder, FreedAreOlder, OlderThanUnread
  <2>3. QED
    BY <1>1, <2>2 DEF PDataOwnership, Unread, IInv, HeldIsOlder
<1>2. QED
  BY <1>1, Invariance, PTL

-----------------------------------------------------------------------------
(* Whoever sleeps is needed to.                                            *)

(* A signal wakes one thread.  When the operator empties the queue while   *)
(* both wait for room, only the first that is woken puts at once; the      *)
(* other is woken by that put, which finds the queue empty.                *)
SleepsRightly ==
  /\ pc["listener"] \in {"idle", "put"}
  /\ \A t \in waiters : pc[t] \in {"put", "get"}
  /\ ~ reconnected => \A t \in waiters :
       IF pc[t] = "get" THEN QueueIsEmpty
       ELSE \/ QueueIsFull
            \/ QueueIsEmpty /\ \E u \in Threads \ waiters : pc[u] = "put"

(* The two conditions for a signal, before and after the step.             *)
LEMMA FullAndEmpty ==
  ASSUME TypeOK
  PROVE  /\ ~ (QueueIsFull /\ QueueIsEmpty)
         /\ QueueIsEmpty => IsNeighbor(nread, CircleAdd(end))
  BY StoreEventMaxAssumption
  DEF TypeOK, Slots, QueueIsFull, QueueIsEmpty, IsNeighbor, CirclePreValue, CircleAdd

LEMMA PutSleepsRightly ==
  ASSUME TypeOK, SleepsRightly, NEW t \in Threads, PutEvent(t)
  PROVE  SleepsRightly'
<1>1. /\ pc \in [Threads -> {"idle", "put", "get", "handle"}] /\ waiters \subseteq Threads
      /\ pc[t] = "put" /\ t \notin waiters /\ pc' = [pc EXCEPT ![t] = AfterPut[t]]
      /\ ~ QueueIsFull /\ reconnected' = reconnected
      /\ AfterPut[t] = IF t = "listener" THEN "idle" ELSE "handle"
  BY DEF TypeOK, PutEvent, Awake, Goto, AfterPut, Threads
<1>2. waiters' \subseteq waiters /\ (QueueIsEmpty => waiters = {} \/ \E u \in waiters : waiters' = waiters \ {u})
  BY FullAndEmpty DEF PutEvent, SignalIf, Signal
<1>3. \A u \in waiters' : pc'[u] = pc[u]
  BY <1>1, <1>2
<1>4. ~ reconnected => waiters' = {}
  <2>1. ASSUME ~ reconnected, NEW u \in waiters PROVE QueueIsEmpty
    BY <1>1, <2>1 DEF SleepsRightly
  <2>2. \A u, v \in waiters : u = v
    BY <1>1 DEF Threads
  <2>. QED BY <1>2, <2>1, <2>2
<1>. QED BY <1>1, <1>2, <1>3, <1>4 DEF SleepsRightly, Threads

LEMMA GetSleepsRightly ==
  ASSUME TypeOK, SleepsRightly, GetEvent
  PROVE  SleepsRightly'
<1>1. /\ pc \in [Threads -> {"idle", "put", "get", "handle"}] /\ waiters \subseteq Threads
      /\ pc["processor"] = "get" /\ "processor" \notin waiters
      /\ pc' = [pc EXCEPT !["processor"] = "handle"] /\ reconnected' = reconnected
  BY DEF TypeOK, GetEvent, Awake, Goto, Threads
<1>2. waiters' \subseteq waiters /\ (QueueIsFull => waiters = {} \/ \E u \in waiters : waiters' = waiters \ {u})
  BY DEF GetEvent, SignalIf, Signal
<1>3. waiters \subseteq {"listener"}
  BY <1>1 DEF Threads
<1>4. ~ reconnected => waiters' = {}
  <2>1. ASSUME ~ reconnected, "listener" \in waiters PROVE QueueIsFull
    BY <1>1, <2>1 DEF SleepsRightly, Threads
  <2>. QED BY <1>2, <1>3, <2>1
<1>. QED BY <1>1, <1>2, <1>3, <1>4 DEF SleepsRightly, Threads

LEMMA EmptyingSleepsRightly ==
  ASSUME TypeOK, SleepsRightly, MsgClear \/ MsgRefresh
  PROVE  SleepsRightly'
<1>1. waiters \subseteq Threads /\ pc' = pc /\ reconnected' = reconnected /\ SignalIf(QueueIsFull)
  BY DEF TypeOK, MsgClear, MsgRefresh
<1>2. QueueIsEmpty'
  BY DEF MsgClear, MsgRefresh, QueueIsEmpty
<1>3. CASE QueueIsFull /\ waiters # {}
  <2>1. PICK u \in waiters : waiters' = waiters \ {u}
    BY <1>1, <1>3 DEF SignalIf, Signal
  <2>2. ~ reconnected => \A v \in waiters : pc[v] = "put"
    BY <1>3, FullAndEmpty DEF SleepsRightly
  <2>. QED BY <1>1, <1>2, <2>1, <2>2 DEF SleepsRightly
<1>4. CASE ~ QueueIsFull \/ waiters = {}
  <2>1. waiters' = waiters
    BY <1>1, <1>4 DEF SignalIf, Signal
  <2>. QED BY <1>1, <1>2, <1>4, <2>1 DEF SleepsRightly
<1>. QED BY <1>3, <1>4

LEMMA WaitingSleepsRightly ==
  ASSUME TypeOK, SleepsRightly, WaitingStep
  PROVE  SleepsRightly'
<1>1. UNCHANGED <<end, nread, reconnected>>
  BY DEF WaitingStep, ListenerCallsPut, HandlerCallsPut, PutWait, GetWait,
         ProcessorCallsGet, GetTimeout, SpuriousWakeup, indices
<1>2. (QueueIsEmpty' <=> QueueIsEmpty) /\ (QueueIsFull' <=> QueueIsFull)
  BY <1>1 DEF QueueIsEmpty, QueueIsFull, IsNeighbor, CirclePreValue
<1>3. pc \in [Threads -> {"idle", "put", "get", "handle"}] /\ waiters \subseteq Threads
  BY DEF TypeOK
<1>4. CASE ListenerCallsPut \/ HandlerCallsPut \/ ProcessorCallsGet
  <2>1. PICK t \in Threads, at \in {"put", "get"} :
          /\ pc[t] \notin {"put", "get"} /\ pc' = [pc EXCEPT ![t] = at] /\ waiters' = waiters
          /\ t = "listener" => at = "put"
    BY <1>4 DEF ListenerCallsPut, HandlerCallsPut, ProcessorCallsGet, Goto, Threads
  <2>2. t \notin waiters
    BY <2>1 DEF SleepsRightly
  <2>3. \A u \in Threads \ {t} : pc'[u] = pc[u]
    BY <1>3, <2>1
  <2>. QED BY <1>1, <1>2, <1>3, <2>1, <2>2, <2>3 DEF SleepsRightly, Threads
<1>5. ASSUME NEW t \in Threads, PutWait(t) PROVE SleepsRightly'
  <2>1. pc' = pc /\ waiters' = waiters \union {t} /\ pc[t] = "put" /\ QueueIsFull
    BY <1>5 DEF PutWait, Awake
  <2>. QED BY <1>1, <1>2, <2>1, FullAndEmpty DEF SleepsRightly
<1>6. CASE GetWait
  <2>1. /\ pc' = pc /\ waiters' = waiters \union {"processor"} /\ pc["processor"] = "get"
        /\ QueueIsEmpty /\ "processor" \notin waiters
    BY <1>6 DEF GetWait, Awake
  <2>2. ~ reconnected => waiters = {}
    BY <1>3, <2>1, FullAndEmpty DEF SleepsRightly, Threads
  <2>. QED BY <1>1, <1>2, <2>1, <2>2 DEF SleepsRightly
<1>7. CASE GetTimeout
  <2>1. /\ pc["processor"] = "get" /\ "processor" \in waiters
        /\ waiters' = waiters \ {"processor"} /\ pc' = [pc EXCEPT !["processor"] = "handle"]
    BY <1>7 DEF GetTimeout, Goto
  <2>2. ~ reconnected => waiters' = {}
    BY <1>3, <2>1, FullAndEmpty DEF SleepsRightly, Threads
  <2>3. pc'["listener"] = pc["listener"]
    BY <1>3, <2>1 DEF Threads
  <2>. QED BY <1>1, <1>3, <2>1, <2>2, <2>3 DEF SleepsRightly, Threads
<1>8. CASE SpuriousWakeup
  <2>1. pc' = pc /\ waiters' \subseteq waiters
    BY <1>8 DEF SpuriousWakeup
  <2>. QED BY <1>1, <1>2, <2>1 DEF SleepsRightly
<1>. QED BY <1>4, <1>5, <1>6, <1>7, <1>8 DEF WaitingStep

LEMMA SleepInvariance == Spec => [](TypeOK /\ SleepsRightly)
<1>1. Init => SleepsRightly
  BY DEF Init, SleepsRightly, Threads
<1>2. TypeOK /\ SleepsRightly /\ [Next]_vars => SleepsRightly'
  <2>. SUFFICES ASSUME TypeOK, SleepsRightly, [Next]_vars PROVE SleepsRightly'
    OBVIOUS
  <2>1. CASE WaitingStep
    BY <2>1, WaitingSleepsRightly
  <2>2. CASE \E t \in Threads : PutEvent(t)
    BY <2>2, PutSleepsRightly
  <2>3. CASE GetEvent
    BY <2>3, GetSleepsRightly
  <2>4. CASE EndRound \/ DropUnknownEndpoint
    <3>1. /\ pc["processor"] = "handle" /\ pc' = [pc EXCEPT !["processor"] = "idle"]
          /\ UNCHANGED <<end, nread, waiters, reconnected>>
      BY <2>4 DEF EndRound, DropUnknownEndpoint, Goto, indices
    <3>2. "processor" \notin waiters
      BY <3>1 DEF SleepsRightly
    <3>3. \A u \in Threads \ {"processor"} : pc'[u] = pc[u]
      BY <3>1 DEF TypeOK
    <3>4. (QueueIsEmpty' <=> QueueIsEmpty) /\ (QueueIsFull' <=> QueueIsFull)
      BY <3>1 DEF QueueIsEmpty, QueueIsFull, IsNeighbor, CirclePreValue
    <3>. QED BY <3>1, <3>2, <3>3, <3>4 DEF SleepsRightly, TypeOK, Threads
  <2>5. CASE MsgClear \/ MsgRefresh
    BY <2>5, EmptyingSleepsRightly
  <2>6. CASE InitMsgQueue
    BY <2>6 DEF InitMsgQueue, SleepsRightly
  <2>7. CASE UNCHANGED vars
    BY <2>7 DEF vars, indices, SleepsRightly, QueueIsEmpty, QueueIsFull, IsNeighbor, CirclePreValue
  <2>. QED BY <2>1, <2>2, <2>3, <2>4, <2>5, <2>6, <2>7
    DEF Next, Listener, Processor, Operator, WaitingStep, Threads
<1>. QED BY <1>1, <1>2, TypeCorrect, PTL DEF Spec

(* vt_putEvent and vt_getEventUntilTime lose no wakeup: a thread sleeps    *)
(* while its condition fails, or an awake thread is about to signal.       *)
THEOREM WakeupsKept == Spec => []NoLostWakeup
<1>1. SleepsRightly => NoLostWakeup
  BY DEF SleepsRightly, NoLostWakeup
<1>. QED BY <1>1, SleepInvariance, PTL

(* Before the operator connects again the two threads sleep together only  *)
(* when a handler's put found the queue full.                              *)
THEOREM TogetherOnlyWhenFull == Spec => [](~ reconnected => NotAsleepTogether)
<1>1. SleepsRightly => (~ reconnected => NotAsleepTogether)
  <2>. SUFFICES ASSUME SleepsRightly, ~ reconnected, waiters = Threads PROVE QueueIsFull
    BY DEF NotAsleepTogether
  <2>1. "listener" \in waiters /\ pc["listener"] = "put"
    BY DEF SleepsRightly, Threads
  <2>. QED BY <2>1 DEF SleepsRightly
<1>. QED BY <1>1, SleepInvariance, PTL

-----------------------------------------------------------------------------
(* The ring buffer implements the bounded first-in first-out channel.      *)

(* Between two rounds the processor holds no event.                        *)
HandEmpty == pc["processor"] \in {"idle", "get"} => held = NoEvent

LEMMA HandInvariance == Spec => [](IInv /\ HandEmpty)
<1>1. Init => HandEmpty
  BY DEF Init, HandEmpty
<1>2. IInv /\ HandEmpty /\ [Next]_vars => HandEmpty'
  <2> SUFFICES ASSUME IInv, HandEmpty, [Next]_vars
               PROVE  HandEmpty'
    OBVIOUS
  <2>. USE DEF HandEmpty, IInv, TypeOK, Threads, Goto, indices
  <2>1. ASSUME NEW t \in Threads, PutWait(t) \/ PutEvent(t)
        PROVE  HandEmpty'
    BY <2>1 DEF PutWait, PutEvent, Awake, AfterPut
  <2>2. CASE ListenerCallsPut
    BY <2>2 DEF ListenerCallsPut
  <2>3. CASE HandlerCallsPut
    BY <2>3 DEF HandlerCallsPut
  <2>4. CASE ProcessorCallsGet
    BY <2>4 DEF ProcessorCallsGet
  <2>5. CASE GetWait \/ GetTimeout \/ GetEvent
    BY <2>5 DEF GetWait, GetTimeout, GetEvent
  <2>6. CASE EndRound \/ DropUnknownEndpoint
    BY <2>6 DEF EndRound, DropUnknownEndpoint
  <2>7. CASE Operator
    BY <2>7 DEF Operator, MsgClear, MsgRefresh, InitMsgQueue
  <2>8. CASE SpuriousWakeup
    BY <2>8 DEF SpuriousWakeup
  <2>9. CASE UNCHANGED vars
    BY <2>9 DEF vars
  <2>10. QED
    BY <2>1, <2>2, <2>3, <2>4, <2>5, <2>6, <2>7, <2>8, <2>9
    DEF Next, Listener, Processor
<1>3. QED
  BY <1>1, <1>2, Invariance, PTL DEF Spec

(* The unread slots, read from nread on, are a sequence of event numbers.  *)
LEMMA ChannelIsSequence ==
  ASSUME IInv
  PROVE  /\ UnreadCount \in 0 .. StoreEventMax
         /\ \A k \in 1 .. UnreadCount : SlotAfter(nread, k - 1) \in Slots
         /\ Channel \in Seq(Nat)
         /\ Len(Channel) = UnreadCount
<1>1. end \in Slots /\ nread \in Slots /\ ring \in [Slots -> Nat]
  BY DEF IInv, TypeOK
<1>2. UnreadCount \in 0 .. StoreEventMax
  BY <1>1, IndexRange DEF UnreadCount
<1>3. \A k \in 1 .. UnreadCount : SlotAfter(nread, k - 1) \in Slots
  BY <1>1, <1>2, StoreEventMaxAssumption DEF SlotAfter, Slots
<1>4. \A k \in 1 .. UnreadCount : ring[SlotAfter(nread, k - 1)] \in Nat
  BY <1>1, <1>3
<1>5. QED
  BY <1>2, <1>3, <1>4, StoreEventMaxAssumption DEF Channel

LEMMA PutIsPush ==
  ASSUME IInv, IInv', NEW t \in Threads, PutEvent(t)
  PROVE  Fifo!Push
<1>. USE StoreEventMaxAssumption
<1>1. /\ end \in Slots /\ nread \in Slots /\ ring \in [Slots -> Nat]
      /\ total \in Nat /\ TypeOK /\ ~QueueIsFull
  BY DEF IInv, TypeOK, PutEvent
<1>2. /\ ring' = [ring EXCEPT ![end] = total + 1]
      /\ end' = CircleAdd(end)
      /\ total' = total + 1
      /\ UNCHANGED <<nread, held>>
  BY DEF PutEvent
<1>3. CircleAdd(end) # nread
  BY <1>1, FullIsNextToRead
<1>4. UnreadCount' = UnreadCount + 1
  BY <1>1, <1>2, <1>3, DistanceToNext DEF UnreadCount
<1>5. UnreadCount \in 0 .. StoreEventMax /\ UnreadCount' \in 0 .. StoreEventMax
  BY <1>1, <1>2, IndexRange DEF UnreadCount
<1>6. Len(Channel) < StoreEventMax
  BY <1>4, <1>5, ChannelIsSequence
<1>7. \A k \in 1 .. UnreadCount :
        /\ SlotAfter(nread, k - 1) \in Slots
        /\ SlotAfter(nread, k - 1) # end
  BY <1>1, <1>5 DEF SlotAfter, UnreadCount, Distance, Slots
<1>8. SlotAfter(nread, UnreadCount) = end
  BY <1>1, <1>5 DEF SlotAfter, UnreadCount, Distance, Slots
<1>9. \A k \in 1 .. UnreadCount' :
        ring'[SlotAfter(nread, k - 1)] =
          IF k <= UnreadCount THEN ring[SlotAfter(nread, k - 1)] ELSE total + 1
  BY <1>1, <1>2, <1>4, <1>5, <1>7, <1>8
<1>10. Channel' = [k \in 1 .. UnreadCount' |-> ring'[SlotAfter(nread, k - 1)]]
  BY <1>2 DEF Channel, SlotAfter
<1>11. Append(Channel, total + 1) =
         [k \in 1 .. UnreadCount + 1 |->
            IF k <= UnreadCount THEN Channel[k] ELSE total + 1]
  BY <1>1, ChannelIsSequence, <1>5
<1>12. Channel' = Append(Channel, total + 1)
  BY <1>4, <1>5, <1>9, <1>10, <1>11 DEF Channel
<1>13. QED
  BY <1>2, <1>6, <1>12 DEF Fifo!Push

LEMMA GetIsPop ==
  ASSUME IInv, IInv', HandEmpty, GetEvent
  PROVE  Fifo!Pop
<1>. USE StoreEventMaxAssumption
<1>1. /\ end \in Slots /\ nread \in Slots /\ ring \in [Slots -> Nat]
      /\ nread # end /\ held = NoEvent
  BY DEF IInv, TypeOK, GetEvent, QueueIsEmpty, HandEmpty, Awake
<1>2. /\ held' = ring[nread]
      /\ nread' = CircleAdd(nread)
      /\ UNCHANGED <<ring, end, total>>
  BY DEF GetEvent
<1>3. UnreadCount' = UnreadCount - 1
  BY <1>1, <1>2, DistanceFromNext DEF UnreadCount
<1>4. UnreadCount \in 1 .. StoreEventMax
  BY <1>1, IndexRange DEF UnreadCount
<1>5. Channel # << >> /\ Head(Channel) = ring[nread]
  BY <1>1, <1>4, ChannelIsSequence DEF Channel, SlotAfter, Slots
<1>6. \A k \in 1 .. UnreadCount - 1 :
        SlotAfter(nread', k - 1) = SlotAfter(nread, k)
  BY <1>1, <1>2, <1>4 DEF SlotAfter, CircleAdd, Slots
<1>7. Channel' = [k \in 1 .. UnreadCount - 1 |-> ring[SlotAfter(nread, k)]]
  BY <1>2, <1>3, <1>6 DEF Channel, SlotAfter
<1>8. Tail(Channel) = [k \in 1 .. UnreadCount - 1 |-> Channel[k + 1]]
  <2>1. Channel \in Seq(Nat) /\ Channel # << >> /\ Len(Channel) = UnreadCount
    BY <1>5, ChannelIsSequence
  <2>2. /\ Tail(Channel) \in Seq(Nat)
        /\ Len(Tail(Channel)) = UnreadCount - 1
        /\ \A k \in 1 .. UnreadCount - 1 : Tail(Channel)[k] = Channel[k + 1]
    BY <1>4, <2>1, HeadTailProperties
  <2>3. Tail(Channel) \in [1 .. UnreadCount - 1 -> Nat]
    BY <2>2, LenProperties
  <2>4. QED
    BY <2>2, <2>3, Zenon
<1>9. Tail(Channel) = [k \in 1 .. UnreadCount - 1 |-> ring[SlotAfter(nread, k)]]
  BY <1>4, <1>8 DEF Channel
<1>10. QED
  BY <1>1, <1>2, <1>5, <1>7, <1>9 DEF Fifo!Pop, Fifo!NoEvent, NoEvent

LEMMA EmptyingIsDiscard ==
  ASSUME IInv, IInv', MsgClear \/ MsgRefresh \/ InitMsgQueue
  PROVE  Fifo!Discard
<1>1. end' = nread' /\ UNCHANGED <<held, total>>
  BY DEF MsgClear, MsgRefresh, InitMsgQueue
<1>2. UnreadCount' = 0
  BY <1>1, IndexRange DEF UnreadCount, IInv, TypeOK
<1>3. Channel' = << >>
  BY <1>2 DEF Channel
<1>4. QED
  BY <1>1, <1>3 DEF Fifo!Discard

(* Every step of the queue is a step of the channel or leaves it alone.    *)
THEOREM Refinement == Spec => ImplementsFifo
<1>1. Init => Fifo!Init
  BY DEF Init, Fifo!Init, Fifo!NoEvent, NoEvent, Channel, UnreadCount, Distance
<1>2. ASSUME IInv, IInv', HandEmpty, [Next]_vars
      PROVE  [Fifo!Next]_(Fifo!vars)
  <2>. USE <1>2
  <2>1. ASSUME UNCHANGED <<ring, nread, end, held, total>>
        PROVE  UNCHANGED Fifo!vars
    BY <2>1 DEF Fifo!vars, Channel, UnreadCount, Distance, SlotAfter
  <2>2. CASE WaitingStep
    BY <2>1, <2>2
    DEF WaitingStep, ListenerCallsPut, HandlerCallsPut, PutWait, GetWait,
        ProcessorCallsGet, GetTimeout, SpuriousWakeup, indices
  <2>3. CASE \E t \in Threads : PutEvent(t)
    BY <2>3, PutIsPush DEF Fifo!Next
  <2>4. CASE GetEvent
    BY <2>4, GetIsPop DEF Fifo!Next
  <2>5. CASE EndRound \/ DropUnknownEndpoint
    <3>1. UNCHANGED <<ring, nread, end, total>> /\ held' = NoEvent
      BY <2>5 DEF EndRound, DropUnknownEndpoint, indices
    <3>2. UNCHANGED Channel
      BY <3>1 DEF Channel, UnreadCount, Distance, SlotAfter
    <3>3. CASE held = NoEvent
      BY <2>1, <3>1, <3>3
    <3>4. CASE held # NoEvent
      BY <3>1, <3>2, <3>4 DEF Fifo!Next, Fifo!Done, Fifo!NoEvent, NoEvent
    <3>5. QED
      BY <3>3, <3>4
  <2>6. CASE Operator
    BY <2>6, EmptyingIsDiscard DEF Operator, Fifo!Next
  <2>7. CASE UNCHANGED vars
    BY <2>1, <2>7 DEF vars, indices
  <2>8. QED
    BY <2>2, <2>3, <2>4, <2>5, <2>6, <2>7
    DEF Next, Listener, Processor, WaitingStep, Threads
<1>3. QED
  BY <1>1, <1>2, HandInvariance, PTL DEF Spec, ImplementsFifo, Fifo!Spec
=============================================================================
