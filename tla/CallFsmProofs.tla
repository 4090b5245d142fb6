----------------------------- MODULE CallFsmProofs -----------------------------
(***************************************************************************)
(* Theorems about CallFsm for any hosts, telephones, numbers dialled,      *)
(* table size and failing actions: to whom sessions and messages belong,   *)
(* that a call is answered once, and that whoever rings is watched.        *)
(***************************************************************************)
EXTENDS CallFsm, SequenceTheorems, TLAPS

IsCall(ev) == ev.type \in CallTypes

(* The events that socket f has brought into a queue.                      *)
FromFd(f) ==
  \E h \in Hosts : \E i \in DOMAIN queue[h] : IsCall(queue[h][i]) /\ queue[h][i].fd = f

(* The announcement of call c is on its way to the callee, or waits to be  *)
(* handled, or has made a telephone ring.                                  *)
OnWire(c) == \E i \in DOMAIN wire[<<c, "callee">>] : wire[<<c, "callee">>][i].type = "CALLING"
InQueue(c) ==
  \E h \in Hosts : \E i \in DOMAIN queue[h] :
    queue[h][i].type = "CALLING" /\ queue[h][i].fd = <<c, "callee">>
Rings(c) == \E p \in Phones : fxsState[p] = "BE_CALLED" /\ sessionFd[p] = <<c, "callee">>

(* AddressedToOwner for the messages and for the events.                   *)
WireAddressed ==
  \A f \in Fds : \A i \in DOMAIN wire[f] :
    f \in MadeFds /\ wire[f][i].dest = Owner(f) /\ wire[f][i].src = FarNumber(f)
QueueAddressed ==
  \A h \in Hosts : \A i \in DOMAIN queue[h] : IsCall(queue[h][i]) =>
    /\ queue[h][i].fd \in MadeFds /\ FdHost(queue[h][i].fd) = h
    /\ queue[h][i].dest = Owner(queue[h][i].fd)
    /\ queue[h][i].src = FarNumber(queue[h][i].fd)

(* Calls are announced to the callee and accepted to the caller.           *)
Directed(type, f) == (type = "CALLING" => f[2] = "callee") /\ (type = "CALL_ACCEPT" => f[2] = "caller")
WireDirected == \A f \in Fds : \A i \in DOMAIN wire[f] : Directed(wire[f][i].type, f)
QueueDirected ==
  \A h \in Hosts : \A i \in DOMAIN queue[h] :
    IsCall(queue[h][i]) => Directed(queue[h][i].type, queue[h][i].fd)

(* The announcement is the first that is heard of a call, and a socket is  *)
(* a callee's session only after it was handled.                           *)
FirstOnWire ==
  \A f \in Fds : \A i \in DOMAIN wire[f] : wire[f][i].type = "CALLING" => i = 1 /\ ~ FromFd(f)
FirstInQueue ==
  \A h \in Hosts : \A i \in DOMAIN queue[h] : queue[h][i].type = "CALLING" =>
    \A j \in 1 .. i - 1 : IsCall(queue[h][j]) => queue[h][j].fd # queue[h][i].fd
HandledBefore ==
  \A p \in Phones : \A c \in 1 .. MaxCalls :
    sessionFd[p] = <<c, "callee">> => ~ OnWire(c) /\ ~ InQueue(c)

RingsForCaller ==
  \A p \in Phones : fxsState[p] = "BE_CALLED" => sessionFd[p] # NoFd /\ sessionFd[p][2] = "callee"

(* Until the telephone is answered the callee has said nothing.            *)
Young(c) == c > Len(calls) \/ OnWire(c) \/ InQueue(c) \/ Rings(c)
UnheardOf ==
  \A c \in 1 .. MaxCalls : Young(c) =>
    /\ answer[c] = << >>
    /\ wire[<<c, "caller">>] = << >>
    /\ ~ FromFd(<<c, "caller">>)

(* And unless a descriptor was misread both ends are open and the callee's *)
(* is in the listener's table once the announcement was read.              *)
OpenAndWatched ==
  misread \/
    \A c \in 1 .. MaxCalls :
      /\ Young(c) => <<c, "caller">> \notin shut /\ <<c, "callee">> \notin shut
      /\ InQueue(c) \/ Rings(c) => <<c, "callee">> \in active

IInv ==
  /\ TypeOK /\ SessionOwned /\ WireAddressed /\ QueueAddressed /\ WireDirected /\ QueueDirected
  /\ FirstOnWire /\ FirstInQueue /\ HandledBefore /\ RingsForCaller /\ UnheardOf /\ OpenAndWatched
  /\ AnsweredOnce

-----------------------------------------------------------------------------
(* Operators of CallFsm.                                                   *)
LEMMA FirstRow ==
  ASSUME NEW rows, rows \subseteq 1 .. 19, rows # {}
  PROVE  (CHOOSE i \in rows : \A j \in rows : i <= j) \in rows
<1>1. PICK k \in rows : TRUE
  OBVIOUS
<1>2. \/ k = 1 \/ k = 2 \/ k = 3 \/ k = 4 \/ k = 5 \/ k = 6 \/ k = 7 \/ k = 8 \/ k = 9 \/ k = 10
      \/ k = 11 \/ k = 12 \/ k = 13 \/ k = 14 \/ k = 15 \/ k = 16 \/ k = 17 \/ k = 18 \/ k = 19
  BY <1>1
<1>3. \E i \in rows : \A j \in rows : i <= j
  BY <1>1, <1>2, SMTT(30)
<1>. QED BY <1>3

(* The row found for an event is one of the table and matches it.          *)
LEMMA RowFound ==
  ASSUME NEW type, NEW state, SearchFsmCtx(type, state) # << >>
  PROVE  \E i \in 1 .. 19 : /\ SearchFsmCtx(type, state) = FsmCtxs[i]
                            /\ Matches(FsmCtxs[i], type, state)
<1>. DEFINE rows == {i \in DOMAIN FsmCtxs : Matches(FsmCtxs[i], type, state)}
<1>1. DOMAIN FsmCtxs = 1 .. 19
  BY DEF FsmCtxs
<1>2. rows # {} /\ rows \subseteq 1 .. 19
  BY <1>1 DEF SearchFsmCtx
<1>. DEFINE least == CHOOSE i \in rows : \A j \in rows : i <= j
<1>3. least \in rows
  BY <1>2, FirstRow
<1>4. SearchFsmCtx(type, state) = FsmCtxs[least]
  BY <1>2 DEF SearchFsmCtx
<1>. QED BY <1>1, <1>3, <1>4

(* What a handler being run says of the event, of the state it found, and  *)
(* of the state that follows.                                              *)
Fits(row, type, state) ==
  /\ row.new \in States \union {"MAX"}
  /\ row.new = "BE_CALLED" => row.handler = "beCalledHookOn"
  /\ row.handler \in {"hookOnCalling", "hookOnTalking"} =>
       state \in {"CALLING", "TALKING"} /\ row.new = "HOOK_ON"
  /\ row.handler = "hookOffBeCalled" => state = "BE_CALLED" /\ row.new = "TALKING"
  /\ row.handler = "beCalledHookOn" => type = "CALLING" /\ row.new = "BE_CALLED"
  /\ row.handler = "rejectCall" => type = "CALLING"
  /\ row.handler = "dfmtEndDtmfStart" => type = "DTMF_END"
  /\ row.handler = "numDoneDtmfStart" => state = "DTMF_START" /\ row.new = "MAX"
  /\ row.failed = "rejectCall" => type \in {"CALLING", "CALL_ACCEPT"}
  /\ row.handler = "closeFd" /\ type # "NUM_CALLED" => row.new \in {"CALL_DOWN", "CALL_REJECT"}

LEMMA RowFits ==
  ASSUME NEW type, NEW state, SearchFsmCtx(type, state) # << >>
  PROVE  Fits(SearchFsmCtx(type, state), type, state)
<1>1. PICK i \in 1 .. 19 : /\ SearchFsmCtx(type, state) = FsmCtxs[i]
                          /\ Matches(FsmCtxs[i], type, state)
  BY RowFound
<1>2. \/ i = 1 \/ i = 2 \/ i = 3 \/ i = 4 \/ i = 5 \/ i = 6 \/ i = 7 \/ i = 8 \/ i = 9 \/ i = 10
      \/ i = 11 \/ i = 12 \/ i = 13 \/ i = 14 \/ i = 15 \/ i = 16 \/ i = 17 \/ i = 18 \/ i = 19
  OBVIOUS
<1>3. Matches(FsmCtxs[i], type, state) => Fits(FsmCtxs[i], type, state)
  BY <1>2, SMTT(30) DEF FsmCtxs, Row, Matches, Fits, States
<1>. QED BY <1>1, <1>3

(* A socket is one of the two ends of a connection.                        *)
LEMMA TwoEnds ==
  ASSUME NEW f \in Fds
  PROVE  /\ f[1] \in 1 .. MaxCalls /\ f = <<f[1], f[2]>> /\ f[2] \in {"caller", "callee"}
         /\ Peer(f) \in Fds /\ Peer(f)[1] = f[1] /\ Peer(f)[2] # f[2] /\ Peer(Peer(f)) = f
         /\ Owner(Peer(f)) = FarNumber(f) /\ FarNumber(Peer(f)) = Owner(f)
BY DEF Fds, Peer, Owner, FarNumber

LEMMA NoFdIsNone == NoFd \notin Fds
BY BoundsAssumption DEF Fds, NoFd

LEMMA CallIsSomewhere ==
  ASSUME NEW h \in Hosts, NEW n
  PROVE  HostByNum(h, n) \in Hosts
BY HostAssumption DEF HostByNum, HasOther

LEMMA FdIsSomewhere ==
  ASSUME TypeOK, NEW f \in MadeFds
  PROVE  FdHost(f) \in Hosts
<1>1. f \in Fds /\ f[1] \in 1 .. Len(calls)
  BY TwoEnds DEF MadeFds
<1>2. calls[f[1]] \in [src : Phones, dest : Numbers]
  BY <1>1, ElementOfSeq DEF TypeOK
<1>3. HostOf[calls[f[1]].src] \in Hosts
  BY <1>2, HostAssumption
<1>. QED BY <1>3, CallIsSomewhere DEF FdHost

-----------------------------------------------------------------------------
(* What a step does to the queues.                                         *)
DspEvents ==
  [type : {"HOOK_ON", "HOOK_OFF", "HOOK_FLASH", "DTMF_START",
           "NUM_DONE", "NUM_CALLED", "NUM_ERR"}, endpt : Phones]
  \union [type : {"DTMF_END"}, endpt : Phones, digits : Dialled]
CallEvents == [type : CallTypes, src : Phones, dest : Numbers, fd : Fds]

LEMMA TwoKinds ==
  /\ Events = DspEvents \union CallEvents
  /\ \A e \in DspEvents : ~ IsCall(e) /\ e.endpt \in Phones /\ e.type # "CALLING"
  /\ \A e \in CallEvents : IsCall(e)
BY DEF Events, DspEvents, CallEvents, IsCall, CallTypes

(* No call event is new; d[h] events at the head of h's queue have gone.   *)
Shifted(d) ==
  /\ d \in [Hosts -> {0, 1}]
  /\ \A h \in Hosts : \A i \in DOMAIN queue'[h] : IsCall(queue'[h][i]) =>
       i + d[h] \in DOMAIN queue[h] /\ queue'[h][i] = queue[h][i + d[h]]

Only(h) == [g \in Hosts |-> IF g = h THEN 1 ELSE 0]
Nowhere == [g \in Hosts |-> 0]

LEMMA PutShifts ==
  ASSUME TypeOK, NEW h \in Hosts, NEW e \in Seq(DspEvents), Put(h, e)
  PROVE  queue' \in [Hosts -> Seq(Events)] /\ Shifted(Nowhere)
<1>1. e \in Seq(Events) /\ queue[h] \in Seq(Events) /\ queue \in [Hosts -> Seq(Events)]
  BY SeqMonotonic, TwoKinds DEF TypeOK
<1>2. queue' = [queue EXCEPT ![h] = queue[h] \o e]
  BY DEF Put
<1>3. /\ queue[h] \o e \in Seq(Events)
      /\ Len(queue[h] \o e) = Len(queue[h]) + Len(e)
      /\ \A i \in 1 .. Len(queue[h]) + Len(e) :
           (queue[h] \o e)[i] = IF i <= Len(queue[h]) THEN queue[h][i] ELSE e[i - Len(queue[h])]
  BY <1>1, ConcatProperties
<1>4. ASSUME NEW i \in DOMAIN queue'[h], IsCall(queue'[h][i])
      PROVE  i \in DOMAIN queue[h] /\ queue'[h][i] = queue[h][i]
  <2>1. i \in 1 .. Len(queue[h]) + Len(e) /\ Len(queue[h]) \in Nat /\ Len(e) \in Nat
    BY <1>1, <1>2, <1>3, <1>4, LenProperties
  <2>2. CASE i <= Len(queue[h])
    BY <1>1, <1>2, <1>3, <2>1, <2>2, LenProperties
  <2>3. CASE i > Len(queue[h])
    <3>1. i - Len(queue[h]) \in 1 .. Len(e)
      BY <2>1, <2>3
    <3>2. e[i - Len(queue[h])] \in DspEvents
      BY <3>1, ElementOfSeq
    <3>. QED BY <1>1, <1>2, <1>3, <1>4, <2>1, <2>3, <3>2, TwoKinds
  <2>. QED BY <2>1, <2>2, <2>3
<1>. QED BY <1>1, <1>2, <1>3, <1>4 DEF Shifted, Nowhere

LEMMA TakenShifts ==
  ASSUME TypeOK, NEW h \in Hosts, queue[h] # << >>, NEW e \in Seq(DspEvents), Taken(h, e)
  PROVE  queue' \in [Hosts -> Seq(Events)] /\ Shifted(Only(h))
<1>1. e \in Seq(Events) /\ queue[h] \in Seq(Events) /\ queue \in [Hosts -> Seq(Events)]
  BY SeqMonotonic, TwoKinds DEF TypeOK
<1>. DEFINE t == Tail(queue[h])
<1>2. queue' = [queue EXCEPT ![h] = t \o e]
  BY DEF Taken
<1>3. /\ t \in Seq(Events) /\ Len(t) = Len(queue[h]) - 1
      /\ \A i \in 1 .. Len(t) : t[i] = queue[h][i + 1]
  BY <1>1, HeadTailProperties
<1>4. /\ t \o e \in Seq(Events)
      /\ Len(t \o e) = Len(t) + Len(e)
      /\ \A i \in 1 .. Len(t) + Len(e) : (t \o e)[i] = IF i <= Len(t) THEN t[i] ELSE e[i - Len(t)]
  BY <1>1, <1>3, ConcatProperties
<1>. HIDE DEF t
<1>5. ASSUME NEW i \in DOMAIN queue'[h], IsCall(queue'[h][i])
      PROVE  i + 1 \in DOMAIN queue[h] /\ queue'[h][i] = queue[h][i + 1]
  <2>1. i \in 1 .. Len(t) + Len(e) /\ Len(t) \in Nat /\ Len(e) \in Nat /\ Len(queue[h]) \in Nat
    BY <1>1, <1>2, <1>3, <1>4, <1>5, LenProperties
  <2>2. CASE i <= Len(t)
    BY <1>1, <1>2, <1>3, <1>4, <2>1, <2>2, LenProperties
  <2>3. CASE i > Len(t)
    <3>1. i - Len(t) \in 1 .. Len(e)
      BY <2>1, <2>3
    <3>2. e[i - Len(t)] \in DspEvents
      BY <3>1, ElementOfSeq
    <3>. QED BY <1>1, <1>2, <1>4, <1>5, <2>1, <2>3, <3>2, TwoKinds
  <2>. QED BY <2>1, <2>2, <2>3
<1>. QED BY <1>1, <1>2, <1>4, <1>5 DEF Shifted, Only

LEMMA SameShifts ==
  ASSUME TypeOK, UNCHANGED queue
  PROVE  queue' \in [Hosts -> Seq(Events)] /\ Shifted(Nowhere)
<1>1. \A h \in Hosts : DOMAIN queue[h] = 1 .. Len(queue[h])
  BY LenProperties DEF TypeOK
<1>. QED BY <1>1 DEF TypeOK, Shifted, Nowhere

(* The event at the head is one of the queue's.                            *)
LEMMA HeadIsFirst ==
  ASSUME TypeOK, NEW h \in Hosts, queue[h] # << >>
  PROVE  /\ 1 \in DOMAIN queue[h] /\ Event(h) = queue[h][1] /\ Event(h) \in Events
         /\ DOMAIN queue[h] = 1 .. Len(queue[h])
<1>1. queue[h] \in Seq(Events)
  BY DEF TypeOK
<1>2. Len(queue[h]) \in Nat \ {0} /\ DOMAIN queue[h] = 1 .. Len(queue[h])
  BY <1>1, EmptySeq, LenProperties
<1>. QED BY <1>1, <1>2, HeadTailProperties DEF Event

-----------------------------------------------------------------------------
(* Steps that bring no call event into a queue.                            *)
FdsKept ==
  \A f \in MadeFds :
    f \in MadeFds' /\ Owner(f)' = Owner(f) /\ FarNumber(f)' = FarNumber(f) /\ FdHost(f)' = FdHost(f)

LEMMA SameFds ==
  ASSUME UNCHANGED calls
  PROVE  FdsKept /\ MadeFds' = MadeFds
BY DEF FdsKept, MadeFds, Owner, FarNumber, FdHost

Fewer ==
  /\ \A f \in Fds : FromFd(f)' => FromFd(f)
  /\ \A c \in 1 .. MaxCalls : InQueue(c)' => InQueue(c)

LEMMA QueueKept ==
  ASSUME TypeOK, QueueAddressed, QueueDirected, FirstInQueue,
         queue' \in [Hosts -> Seq(Events)], NEW d, Shifted(d), FdsKept
  PROVE  QueueAddressed' /\ QueueDirected' /\ FirstInQueue' /\ Fewer
<1>1. ASSUME NEW h \in Hosts, NEW i \in DOMAIN queue'[h], IsCall(queue'[h][i])
      PROVE  /\ i + d[h] \in DOMAIN queue[h] /\ queue'[h][i] = queue[h][i + d[h]]
             /\ IsCall(queue[h][i + d[h]])
  BY <1>1 DEF Shifted
<1>2. QueueAddressed'
  <2>1. ASSUME NEW h \in Hosts, NEW i \in DOMAIN queue'[h], NEW e, e = queue'[h][i], IsCall(e)
        PROVE  /\ e.fd \in MadeFds' /\ FdHost(e.fd)' = h
               /\ e.dest = Owner(e.fd)' /\ e.src = FarNumber(e.fd)'
    <3>1. /\ e.fd \in MadeFds /\ FdHost(e.fd) = h
          /\ e.dest = Owner(e.fd) /\ e.src = FarNumber(e.fd)
      BY <1>1, <2>1 DEF QueueAddressed
    <3>. QED BY <3>1 DEF FdsKept
  <2>. QED BY <2>1 DEF QueueAddressed, IsCall
<1>3. QueueDirected'
  BY <1>1 DEF QueueDirected, IsCall
<1>4. FirstInQueue'
  <2>1. ASSUME NEW h \in Hosts, NEW i \in DOMAIN queue'[h], queue'[h][i].type = "CALLING",
               NEW j \in 1 .. i - 1, IsCall(queue'[h][j])
        PROVE  queue'[h][j].fd # queue'[h][i].fd
    <3>1. queue'[h] \in Seq(Events)
      OBVIOUS
    <3>2. Len(queue'[h]) \in Nat /\ DOMAIN queue'[h] = 1 .. Len(queue'[h])
      BY <3>1, LenProperties
    <3>3. i \in Nat /\ j \in Nat /\ d[h] \in {0, 1} /\ j \in DOMAIN queue'[h]
      BY <3>2 DEF Shifted
    <3>4. IsCall(queue'[h][i])
      BY <2>1 DEF IsCall, CallTypes
    <3>5. j + d[h] \in 1 .. (i + d[h]) - 1
      BY <3>3
    <3>6. /\ i + d[h] \in DOMAIN queue[h] /\ queue'[h][i] = queue[h][i + d[h]]
          /\ queue'[h][j] = queue[h][j + d[h]]
      BY <1>1, <2>1, <3>3, <3>4
    <3>. QED BY <2>1, <3>5, <3>6 DEF FirstInQueue
  <2>. QED BY <2>1 DEF FirstInQueue, IsCall
<1>5. Fewer
  <2>1. ASSUME NEW f \in Fds, FromFd(f)' PROVE FromFd(f)
    BY <1>1, <2>1 DEF FromFd, IsCall
  <2>2. ASSUME NEW c \in 1 .. MaxCalls, InQueue(c)' PROVE InQueue(c)
    BY <1>1, <2>2 DEF InQueue, IsCall, CallTypes
  <2>. QED BY <2>1, <2>2 DEF Fewer
<1>. QED BY <1>2, <1>3, <1>4, <1>5

(* What is new on a wire is for the telephone at its end; it announces a   *)
(* call only when that is made in this step.  The callee of a call that    *)
(* stays young says nothing.                                               *)
Spoken ==
  /\ \A f \in Fds : \A i \in DOMAIN wire'[f] :
       \/ i \in DOMAIN wire[f] /\ wire'[f][i] = wire[f][i]
       \/ /\ f \in MadeFds' /\ wire'[f][i].dest = Owner(f)' /\ wire'[f][i].src = FarNumber(f)'
          /\ Directed(wire'[f][i].type, f)
          /\ wire'[f][i].type = "CALLING" => i = 1 /\ f[1] > Len(calls)
  /\ \A c \in 1 .. MaxCalls : Young(c)' =>
       answer'[c] = answer[c] /\ wire'[<<c, "caller">>] = wire[<<c, "caller">>]
  /\ AnsweredOnce'

(* A telephone that rings did so before, or was called just now.           *)
SessionsHold ==
  /\ SessionOwned' /\ RingsForCaller'
  /\ \A c \in 1 .. MaxCalls : Rings(c)' => Rings(c) \/ InQueue(c)
  /\ \A p \in Phones : \A c \in 1 .. MaxCalls : sessionFd'[p] = <<c, "callee">> =>
       \/ sessionFd[p] = <<c, "callee">>
       \/ c <= Len(calls) /\ ~ OnWire(c) /\ ~ InQueue(c)'

(* No end of a call that stays young is shut or leaves the table.          *)
NotClosed ==
  \/ misread'
  \/ /\ misread' = misread
     /\ \A f \in Fds : Young(f[1])' =>
          (f \in active => f \in active') /\ (f \in shut' => f \in shut)

LEMMA StepKeeps ==
  ASSUME IInv, TypeOK', NEW d, Shifted(d), FdsKept, Spoken, SessionsHold, NotClosed
  PROVE  IInv'
<1>1. QueueAddressed' /\ QueueDirected' /\ FirstInQueue' /\ Fewer
  BY QueueKept DEF IInv, TypeOK
<1>2. WireAddressed'
  <2>1. ASSUME NEW f \in Fds, NEW i \in DOMAIN wire[f], NEW m, m = wire[f][i]
        PROVE  f \in MadeFds' /\ m.dest = Owner(f)' /\ m.src = FarNumber(f)'
    BY <2>1 DEF IInv, WireAddressed, FdsKept
  <2>. QED BY <2>1 DEF WireAddressed, Spoken
<1>3. WireDirected'
  BY DEF IInv, WireDirected, Spoken
<1>4. FirstOnWire'
  <2>1. ASSUME NEW f \in Fds, FromFd(f) PROVE f[1] <= Len(calls)
    BY <2>1 DEF FromFd, IInv, QueueAddressed, MadeFds
  <2>2. ASSUME NEW f \in Fds PROVE f[1] \in Nat /\ Len(calls) \in Nat
    BY TwoEnds, LenProperties DEF IInv, TypeOK
  <2>. QED BY <1>1, <2>1, <2>2 DEF IInv, FirstOnWire, Fewer, Spoken
<1>5. \A c \in 1 .. MaxCalls :
        /\ <<c, "callee">> \in Fds /\ <<c, "caller">> \in Fds
        /\ c \in Nat /\ Len(calls) \in Nat /\ Len(calls') \in Nat
        /\ c <= Len(calls) => c <= Len(calls')
  <2>1. \A c \in 1 .. MaxCalls : <<c, "callee">> \in Fds /\ <<c, "caller">> \in Fds
    BY DEF Fds
  <2>2. Len(calls) \in Nat /\ Len(calls') \in Nat
    BY LenProperties DEF IInv, TypeOK
  <2>3. ASSUME NEW c \in 1 .. MaxCalls, c <= Len(calls) PROVE c <= Len(calls')
    <3>1. <<c, "caller">>[1] = c
      OBVIOUS
    <3>. QED BY <2>1, <2>3, <3>1 DEF FdsKept, MadeFds
  <2>4. \A c \in 1 .. MaxCalls : c \in Nat
    BY BoundsAssumption
  <2>. QED BY <2>1, <2>2, <2>3, <2>4
<1>6. \A c \in 1 .. MaxCalls : OnWire(c)' => OnWire(c) \/ c > Len(calls)
  BY <1>5 DEF OnWire, Spoken
<1>7. HandledBefore'
  <2>1. ASSUME NEW p \in Phones, NEW c \in 1 .. MaxCalls, sessionFd[p] = <<c, "callee">>
        PROVE  c <= Len(calls)
    <3>1. <<c, "callee">> # NoFd /\ <<c, "callee">>[1] = c
      BY <1>5, NoFdIsNone
    <3>. QED BY <2>1, <3>1 DEF IInv, SessionOwned, MadeFds
  <2>. QED BY <1>1, <1>5, <1>6, <2>1 DEF IInv, HandledBefore, Fewer, SessionsHold
<1>8. \A c \in 1 .. MaxCalls : Young(c)' => Young(c)
  <2>1. \A c \in 1 .. MaxCalls : Young(c)' =>
          c > Len(calls') \/ OnWire(c)' \/ InQueue(c)' \/ Rings(c)'
    BY DEF Young
  <2>2. ASSUME NEW c \in 1 .. MaxCalls, c > Len(calls') PROVE c > Len(calls)
    <3>1. /\ c \in Nat /\ Len(calls) \in Nat /\ Len(calls') \in Nat
          /\ c <= Len(calls) => c <= Len(calls')
      BY <1>5
    <3>. QED BY <2>2, <3>1
  <2>3. \A c \in 1 .. MaxCalls : c > Len(calls) \/ OnWire(c) \/ InQueue(c) \/ Rings(c) => Young(c)
    BY DEF Young
  <2>. QED BY <1>1, <1>6, <2>1, <2>2, <2>3 DEF Fewer, SessionsHold
<1>9. UnheardOf'
  BY <1>1, <1>5, <1>8 DEF IInv, UnheardOf, Fewer, Spoken
<1>10. OpenAndWatched'
  <2>. SUFFICES ASSUME ~ misread', NEW c \in 1 .. MaxCalls
                PROVE /\ Young(c)' => <<c, "caller">> \notin shut' /\ <<c, "callee">> \notin shut'
                      /\ InQueue(c)' \/ Rings(c)' => <<c, "callee">> \in active'
    BY DEF OpenAndWatched
  <2>1. /\ Young(c) => <<c, "caller">> \notin shut /\ <<c, "callee">> \notin shut
        /\ InQueue(c) \/ Rings(c) => <<c, "callee">> \in active
    BY DEF IInv, OpenAndWatched, NotClosed
  <2>2. InQueue(c)' \/ Rings(c)' => (InQueue(c) \/ Rings(c)) /\ Young(c)'
    BY <1>1 DEF SessionsHold, Fewer, Young
  <2>. QED BY <1>5, <1>8, <2>1, <2>2 DEF NotClosed
<1>. QED BY <1>1, <1>2, <1>3, <1>4, <1>7, <1>9, <1>10 DEF IInv, Spoken, SessionsHold


RingingKept == \A p \in Phones : fxsState'[p] = "BE_CALLED" => fxsState[p] = "BE_CALLED"

LEMMA SessionsStay ==
  ASSUME IInv, FdsKept, RingingKept, UNCHANGED <<sessionFd, destNumber>>
  PROVE  SessionsHold
<1>1. SessionOwned'
  <2>1. ASSUME NEW p \in Phones, NEW f, f = sessionFd[p], f # NoFd
        PROVE  f \in MadeFds' /\ Owner(f)' = p /\ FarNumber(f)' = destNumber[p]
    BY <2>1 DEF IInv, SessionOwned, FdsKept
  <2>. QED BY <2>1 DEF SessionOwned
<1>2. RingsForCaller'
  BY DEF IInv, RingsForCaller, RingingKept
<1>3. \A c \in 1 .. MaxCalls : Rings(c)' => Rings(c)
  BY DEF Rings, RingingKept
<1>. QED BY <1>1, <1>2, <1>3 DEF SessionsHold

(* Steps that say nothing on a connection.                                 *)
LEMMA QuietKeeps ==
  ASSUME IInv, TypeOK', NEW d, Shifted(d), RingingKept, NotClosed,
         UNCHANGED <<sessionFd, destNumber, calls, wire, answer>>
  PROVE  IInv'
<1>1. FdsKept
  BY SameFds
<1>2. SessionsHold
  BY <1>1, SessionsStay
<1>3. Spoken
  BY DEF Spoken, IInv, AnsweredOnce
<1>. QED BY <1>1, <1>2, <1>3, StepKeeps

LEMMA NothingClosed ==
  ASSUME UNCHANGED <<shut, misread>>, active \subseteq active'
  PROVE  NotClosed
BY DEF NotClosed

(* What the processor makes of the state of the telephone.                 *)
LEMMA StateFits ==
  ASSUME TypeOK, NEW h \in Hosts, NEW p \in Phones, Matched(h, p) # << >>, NewState(p, Matched(h, p))
  PROVE  /\ Fits(Matched(h, p), Event(h).type, fxsState[p])
         /\ fxsState' \in [Phones -> States]
         /\ Matched(h, p).new # "MAX" => fxsState'[p] = Matched(h, p).new
         /\ \A q \in Phones \ {p} : fxsState'[q] = fxsState[q]
         /\ Matched(h, p).handler # "beCalledHookOn" => RingingKept
<1>1. Fits(Matched(h, p), Event(h).type, fxsState[p])
  BY RowFits DEF Matched
<1>. DEFINE row == Matched(h, p)
<1>. HIDE DEF row
<1>2. /\ row.new \in States \union {"MAX"}
      /\ row.new = "BE_CALLED" => row.handler = "beCalledHookOn"
  BY <1>1 DEF Fits, row
<1>3. fxsState' = IF row.new = "MAX" THEN fxsState ELSE [fxsState EXCEPT ![p] = row.new]
  BY DEF NewState, row
<1>4. fxsState \in [Phones -> States]
  BY DEF TypeOK
<1>5. /\ fxsState' \in [Phones -> States]
      /\ row.new # "MAX" => fxsState'[p] = row.new
      /\ \A q \in Phones \ {p} : fxsState'[q] = fxsState[q]
      /\ row.handler # "beCalledHookOn" => RingingKept
  BY <1>2, <1>3, <1>4 DEF RingingKept
<1>. QED BY <1>1, <1>5 DEF row

-----------------------------------------------------------------------------
(* The users, the digit timers, and what the processor does without the    *)
(* call sessions.                                                          *)
LEMMA DspIsEvent ==
  ASSUME NEW p \in Phones
  PROVE  /\ << >> \in Seq(DspEvents)
         /\ \A type \in {"HOOK_ON", "HOOK_OFF", "HOOK_FLASH", "DTMF_START",
                         "NUM_DONE", "NUM_CALLED", "NUM_ERR"} :
              DspEvent(type, p) \in DspEvents /\ <<DspEvent(type, p)>> \in Seq(DspEvents)
         /\ \A n \in Dialled : DtmfEnd(p, n) \in DspEvents
BY DEF DspEvents, DspEvent, DtmfEnd

LEMMA ReportKeeps ==
  ASSUME IInv, NEW p \in Phones, NEW e \in Seq(DspEvents), Report(p, e),
         hook' \in [Phones -> {"on", "off"}]
  PROVE  IInv'
<1>1. TypeOK /\ HostOf[p] \in Hosts
  BY HostAssumption DEF IInv
<1>2. queue' \in [Hosts -> Seq(Events)] /\ Shifted(Nowhere)
  BY <1>1, PutShifts DEF Report
<1>3. UNCHANGED <<fxsState, sessionFd, destNumber, number, digitTimer, calls, accepted, active,
                  shut, wire, misread, answer>>
  BY DEF Report, endptVars, netVars
<1>4. acts' \in [Phones -> Nat]
  BY <1>1 DEF Report, TypeOK
<1>5. TypeOK'
  BY <1>1, <1>2, <1>3, <1>4 DEF TypeOK, MadeFds
<1>6. RingingKept /\ NotClosed
  BY <1>3 DEF RingingKept, NotClosed
<1>. QED BY <1>2, <1>3, <1>5, <1>6, QuietKeeps

LEMMA UserKeeps == IInv /\ User => IInv'
<1>. SUFFICES ASSUME IInv, NEW p \in Phones,
                     \/ LiftHandset(p) \/ HangUp(p) \/ FlashHook(p)
                     \/ \E n \in Dials[p] : PressKey(p, n)
              PROVE  IInv'
  BY DEF User
<1>1. hook \in [Phones -> {"on", "off"}]
  BY DEF IInv, TypeOK
<1>2. CASE LiftHandset(p)
  BY <1>1, <1>2, ReportKeeps, DspIsEvent DEF LiftHandset
<1>3. CASE HangUp(p)
  BY <1>1, <1>3, ReportKeeps, DspIsEvent DEF HangUp
<1>4. CASE FlashHook(p)
  BY <1>1, <1>4, ReportKeeps, DspIsEvent DEF FlashHook
<1>5. ASSUME NEW n \in Dials[p], PressKey(p, n) PROVE IInv'
  <2>1. n \in Dialled
    BY DialAssumption
  <2>2. <<DspEvent("DTMF_START", p), DtmfEnd(p, n)>> \in Seq(DspEvents)
    BY <2>1, DspIsEvent
  <2>. QED BY <1>1, <1>5, <2>2, ReportKeeps DEF PressKey
<1>. QED BY <1>2, <1>3, <1>4, <1>5

LEMMA TimeoutKeeps ==
  ASSUME IInv, NEW p \in Phones, DigitTimeout(p)
  PROVE  IInv'
<1>. DEFINE e == <<DspEvent(IF number[p] = "illegal" THEN "NUM_ERR" ELSE "NUM_DONE", p)>>
<1>1. e \in Seq(DspEvents)
  BY DspIsEvent
<1>2. TypeOK /\ HostOf[p] \in Hosts /\ Put(HostOf[p], e)
  BY HostAssumption DEF IInv, DigitTimeout
<1>. HIDE DEF e
<1>3. queue' \in [Hosts -> Seq(Events)] /\ Shifted(Nowhere)
  BY <1>1, <1>2, PutShifts
<1>4. /\ UNCHANGED <<hook, acts, fxsState, sessionFd, destNumber, number, calls, accepted, active,
                     shut, wire, misread, answer>>
      /\ digitTimer' = [digitTimer EXCEPT ![p] = FALSE]
  BY DEF DigitTimeout, phoneVars, netVars
<1>5. TypeOK'
  BY <1>2, <1>3, <1>4 DEF TypeOK, MadeFds
<1>6. RingingKept /\ NotClosed
  BY <1>4 DEF RingingKept, NotClosed
<1>. QED BY <1>3, <1>4, <1>5, <1>6, QuietKeeps

(* A handler that leaves sessions and sockets alone.                       *)
LEMMA HandledQuietly ==
  ASSUME IInv, NEW h \in Hosts, queue[h] # << >>, NEW e \in Seq(DspEvents), Taken(h, e),
         RingingKept, fxsState' \in [Phones -> States],
         number' \in [Phones -> Dialled], digitTimer' \in [Phones -> BOOLEAN],
         UNCHANGED <<hook, acts, sessionFd, destNumber, calls, accepted, active,
                     shut, wire, misread, answer>>
  PROVE  IInv'
<1>1. TypeOK
  BY DEF IInv
<1>2. queue' \in [Hosts -> Seq(Events)] /\ Shifted(Only(h))
  BY <1>1, TakenShifts
<1>3. TypeOK'
  BY <1>1, <1>2 DEF TypeOK, MadeFds
<1>4. NotClosed
  BY DEF NotClosed
<1>. QED BY <1>2, <1>3, <1>4, QuietKeeps

LEMMA DummyKeeps ==
  ASSUME IInv, NEW h \in Hosts, NEW p \in Phones, DummyEventHandler(h, p) \/ HookFlashAny(h, p)
  PROVE  IInv'
<1>1. \E e \in Seq(DspEvents) : Taken(h, e)
  <2>1. << >> \in Seq(DspEvents)
        /\ <<DspEvent("HOOK_ON", p), DspEvent("HOOK_OFF", p)>> \in Seq(DspEvents)
    BY DspIsEvent
  <2>. QED BY <2>1 DEF DummyEventHandler, HookFlashAny
<1>2. /\ TypeOK /\ Matched(h, p) # << >> /\ NewState(p, Matched(h, p)) /\ queue[h] # << >>
      /\ Matched(h, p).handler # "beCalledHookOn"
  BY DEF DummyEventHandler, HookFlashAny, Runs, Taking, IInv
<1>3. RingingKept /\ fxsState' \in [Phones -> States]
  BY <1>2, StateFits
<1>4. UNCHANGED <<hook, acts, sessionFd, destNumber, number, digitTimer, calls, accepted, active,
                  shut, wire, misread, answer>>
  BY DEF DummyEventHandler, HookFlashAny, phoneVars, netVars
<1>. QED BY <1>1, <1>2, <1>3, <1>4, HandledQuietly DEF TypeOK


LEMMA DigitKeeps ==
  ASSUME IInv, NEW h \in Hosts, NEW p \in Phones, DfmtEndDtmfStart(h, p)
  PROVE  IInv'
<1>1. /\ TypeOK /\ Matched(h, p) # << >> /\ NewState(p, Matched(h, p)) /\ queue[h] # << >>
      /\ Matched(h, p).handler = "dfmtEndDtmfStart" /\ Taken(h, << >>) /\ << >> \in Seq(DspEvents)
  BY DspIsEvent DEF DfmtEndDtmfStart, Runs, Taking, IInv
<1>2. RingingKept /\ fxsState' \in [Phones -> States]
  BY <1>1, StateFits
<1>3. Event(h) \in Events /\ Event(h).type = "DTMF_END"
  <2>1. Fits(Matched(h, p), Event(h).type, fxsState[p])
    BY <1>1, StateFits
  <2>. QED BY <1>1, <2>1, HeadIsFirst DEF Fits
<1>4. Event(h).digits \in Dialled
  BY <1>3 DEF Events, CallTypes
<1>5. /\ UNCHANGED <<hook, acts, sessionFd, destNumber, calls, accepted, active,
                     shut, wire, misread, answer>>
      /\ number' \in [Phones -> Dialled] /\ digitTimer' \in [Phones -> BOOLEAN]
  BY <1>1, <1>4 DEF DfmtEndDtmfStart, TypeOK, phoneVars, netVars
<1>. QED BY <1>1, <1>2, <1>5, HandledQuietly

(* Steps that only take the event away, and put at most another there.     *)
LEMMA UnheededKeeps ==
  ASSUME IInv, NEW h \in Hosts, queue[h] # << >>, NEW e \in Seq(DspEvents), Taken(h, e),
         UNCHANGED <<phoneVars, endptVars, netVars, misread, answer>>
  PROVE  IInv'
<1>1. UNCHANGED <<hook, acts, fxsState, sessionFd, destNumber, number, digitTimer, calls, accepted,
                  active, shut, wire, misread, answer>>
  BY DEF phoneVars, endptVars, netVars
<1>2. /\ RingingKept /\ fxsState' \in [Phones -> States]
      /\ number' \in [Phones -> Dialled] /\ digitTimer' \in [Phones -> BOOLEAN]
  BY <1>1 DEF RingingKept, IInv, TypeOK
<1>. QED BY <1>1, <1>2, HandledQuietly

LEMMA NotConnectedKeeps ==
  ASSUME IInv, NEW h \in Hosts, NEW p \in Phones, CallNumberFails(h, p) \/ RunKeyAction(h, p)
  PROVE  IInv'
<1>1. CASE CallNumberFails(h, p)
  BY <1>1, DspIsEvent, UnheededKeeps DEF CallNumberFails, Runs, Taking
<1>2. CASE RunKeyAction(h, p)
  BY <1>2, DspIsEvent, UnheededKeeps DEF RunKeyAction, Runs, Taking
<1>. QED BY <1>1, <1>2

LEMMA UnmatchedKeeps ==
  ASSUME IInv, NEW h \in Hosts, Unmatched(h)
  PROVE  IInv'
<1>1. << >> \in Seq(DspEvents)
  OBVIOUS
<1>. QED BY <1>1, UnheededKeeps DEF Unmatched
-----------------------------------------------------------------------------
(* The listener.                                                           *)
LEMMA AcceptKeeps ==
  ASSUME IInv, NEW c \in 1 .. Len(calls), Accept(c)
  PROVE  IInv'
<1>1. TypeOK
  BY DEF IInv
<1>2. queue' \in [Hosts -> Seq(Events)] /\ Shifted(Nowhere)
  BY <1>1, SameShifts DEF Accept
<1>3. <<c, "callee">> \in MadeFds
  <2>1. c \in 1 .. MaxCalls /\ c <= Len(calls)
    BY <1>1, LenProperties, BoundsAssumption DEF TypeOK
  <2>. QED BY <2>1 DEF MadeFds, Fds
<1>4. /\ UNCHANGED <<hook, acts, fxsState, sessionFd, destNumber, number, digitTimer, calls,
                     shut, wire, misread, answer>>
      /\ accepted' = accepted \union {c} /\ active \subseteq active' /\ active' \subseteq MadeFds
  BY <1>1, <1>3 DEF Accept, RegisterSessionFd, phoneVars, endptVars, TypeOK
<1>5. TypeOK'
  BY <1>1, <1>2, <1>4 DEF TypeOK, MadeFds
<1>6. RingingKept /\ NotClosed
  BY <1>4, NothingClosed DEF RingingKept
<1>. QED BY <1>2, <1>4, <1>5, <1>6, QuietKeeps

(* A call with a socket shut at the far end is no longer young.            *)
LEMMA ReadClosedKeeps ==
  ASSUME IInv, NEW f \in MadeFds, ReadClosed(f)
  PROVE  IInv'
<1>1. TypeOK /\ f \in Fds /\ Peer(f) \in shut
  BY DEF IInv, MadeFds, ReadClosed
<1>2. queue' \in [Hosts -> Seq(Events)] /\ Shifted(Nowhere)
  BY <1>1, SameShifts DEF ReadClosed
<1>3. /\ UNCHANGED <<hook, acts, fxsState, sessionFd, destNumber, number, digitTimer, calls,
                     accepted, wire, misread, answer>>
      /\ active' = active \ {f} /\ shut' = shut \union {f}
  BY DEF ReadClosed, phoneVars, endptVars
<1>4. TypeOK'
  BY <1>1, <1>2, <1>3 DEF TypeOK, MadeFds
<1>5. RingingKept
  BY <1>3 DEF RingingKept
<1>6. f[1] \in 1 .. MaxCalls /\ Peer(f) \in {<<f[1], "caller">>, <<f[1], "callee">>}
  BY <1>1 DEF Fds, Peer
<1>7. misread \/ ~ Young(f[1])
  BY <1>1, <1>6 DEF IInv, OpenAndWatched
<1>8. Young(f[1])' => Young(f[1])
  BY <1>3 DEF Young, OnWire, InQueue, Rings, ReadClosed
<1>9. NotClosed
  BY <1>3, <1>7, <1>8 DEF NotClosed
<1>. QED BY <1>2, <1>3, <1>4, <1>5, <1>9, QuietKeeps


(* The oldest message of a socket is drawn and becomes the last event.     *)
LEMMA DrawnAndPut ==
  ASSUME TypeOK, NEW f \in MadeFds, ReadCallMsg(f), NEW h, h = FdHost(f)
  PROVE  LET m == Head(wire[f])
         IN /\ h \in Hosts /\ f \in Fds /\ m = wire[f][1] /\ 1 \in DOMAIN wire[f] /\ m \in Msgs
            /\ queue' \in [Hosts -> Seq(Events)] /\ wire' \in [Fds -> Seq(Msgs)]
            /\ \A g \in Hosts : \A i \in DOMAIN queue'[g] :
                 \/ i \in DOMAIN queue[g] /\ queue'[g][i] = queue[g][i]
                 \/ g = h /\ i = Len(queue[h]) + 1 /\ queue'[g][i] = CallEvent(m, f)
            /\ \A g \in Fds : \A i \in DOMAIN wire'[g] :
                 \/ g # f /\ i \in DOMAIN wire[g] /\ wire'[g][i] = wire[g][i]
                 \/ g = f /\ i + 1 \in DOMAIN wire[g] /\ i + 1 # 1 /\ wire'[g][i] = wire[g][i + 1]
<1>. DEFINE m == Head(wire[f])
            ev == CallEvent(m, f)
<1>1. /\ h \in Hosts /\ f \in Fds /\ queue[h] \in Seq(Events) /\ wire[f] \in Seq(Msgs) /\ wire[f] # << >>
      /\ queue \in [Hosts -> Seq(Events)] /\ wire \in [Fds -> Seq(Msgs)]
      /\ queue' = [queue EXCEPT ![h] = queue[h] \o <<ev>>] /\ wire' = [wire EXCEPT ![f] = Tail(wire[f])]
  BY FdIsSomewhere DEF TypeOK, MadeFds, ReadCallMsg, Put
<1>2. /\ m \in Msgs /\ m = wire[f][1] /\ 1 \in DOMAIN wire[f]
      /\ Tail(wire[f]) \in Seq(Msgs) /\ Len(Tail(wire[f])) = Len(wire[f]) - 1
      /\ \A i \in 1 .. Len(Tail(wire[f])) : Tail(wire[f])[i] = wire[f][i + 1]
  <2>1. m \in Msgs /\ m = wire[f][1]
    BY <1>1, HeadTailProperties
  <2>2. 1 \in DOMAIN wire[f]
    BY <1>1, EmptySeq, LenProperties
  <2>. QED BY <1>1, <2>1, <2>2, HeadTailProperties
<1>. HIDE DEF m
<1>3. ev \in Events
  BY <1>1, <1>2 DEF CallEvent, Events, Msgs
<1>. HIDE DEF ev
<1>4. /\ queue[h] \o <<ev>> \in Seq(Events) /\ Len(queue[h]) \in Nat
      /\ DOMAIN queue[h] = 1 .. Len(queue[h])
      /\ DOMAIN (queue[h] \o <<ev>>) = 1 .. Len(queue[h]) + 1
      /\ \A i \in 1 .. Len(queue[h]) + 1 :
           (queue[h] \o <<ev>>)[i] = IF i <= Len(queue[h]) THEN queue[h][i] ELSE ev
  <2>1. <<ev>> \in Seq(Events) /\ Len(<<ev>>) = 1 /\ <<ev>>[1] = ev
    BY <1>3
  <2>2. /\ queue[h] \o <<ev>> \in Seq(Events)
        /\ Len(queue[h] \o <<ev>>) = Len(queue[h]) + 1
        /\ \A i \in 1 .. Len(queue[h]) + 1 :
             (queue[h] \o <<ev>>)[i] = IF i <= Len(queue[h]) THEN queue[h][i] ELSE <<ev>>[i - Len(queue[h])]
    BY <1>1, <2>1, ConcatProperties
  <2>3. /\ Len(queue[h]) \in Nat /\ DOMAIN queue[h] = 1 .. Len(queue[h])
        /\ DOMAIN (queue[h] \o <<ev>>) = 1 .. Len(queue[h] \o <<ev>>)
    BY <1>1, <2>2, LenProperties
  <2>. QED BY <2>1, <2>2, <2>3
<1>5. \A g \in Hosts : \A i \in DOMAIN queue'[g] :
        \/ i \in DOMAIN queue[g] /\ queue'[g][i] = queue[g][i]
        \/ g = h /\ i = Len(queue[h]) + 1 /\ queue'[g][i] = ev
  BY <1>1, <1>4
<1>6. ASSUME NEW i \in DOMAIN wire'[f]
      PROVE  i + 1 \in DOMAIN wire[f] /\ i + 1 # 1 /\ wire'[f][i] = wire[f][i + 1]
  <2>1. wire'[f] = Tail(wire[f])
    BY <1>1
  <2>2. /\ DOMAIN wire[f] = 1 .. Len(wire[f]) /\ Len(wire[f]) \in Nat
        /\ i \in 1 .. Len(wire[f]) - 1
    BY <1>1, <1>2, <2>1, LenProperties
  <2>. QED BY <1>2, <2>1, <2>2
<1>7. \A g \in Fds \ {f} : wire'[g] = wire[g]
  BY <1>1
<1>8. queue' \in [Hosts -> Seq(Events)] /\ wire' \in [Fds -> Seq(Msgs)]
  BY <1>1, <1>2, <1>4
<1>. QED BY <1>1, <1>2, <1>5, <1>6, <1>7, <1>8 DEF m, ev


LEMMA ReadKeeps ==
  ASSUME IInv, NEW f \in MadeFds, ReadCallMsg(f)
  PROVE  IInv'
<1>. DEFINE h == FdHost(f)
            m == Head(wire[f])
            ev == CallEvent(m, f)
<1>1. /\ h \in Hosts /\ f \in Fds /\ m = wire[f][1] /\ 1 \in DOMAIN wire[f] /\ m \in Msgs
      /\ queue' \in [Hosts -> Seq(Events)] /\ wire' \in [Fds -> Seq(Msgs)]
      /\ \A g \in Hosts : \A i \in DOMAIN queue'[g] :
           \/ i \in DOMAIN queue[g] /\ queue'[g][i] = queue[g][i]
           \/ g = h /\ i = Len(queue[h]) + 1 /\ queue'[g][i] = ev
      /\ \A g \in Fds : \A i \in DOMAIN wire'[g] :
           \/ g # f /\ i \in DOMAIN wire[g] /\ wire'[g][i] = wire[g][i]
           \/ g = f /\ i + 1 \in DOMAIN wire[g] /\ i + 1 # 1 /\ wire'[g][i] = wire[g][i + 1]
  BY DrawnAndPut DEF IInv
<1>. HIDE DEF h, m
<1>added. \A g \in Hosts : \A i \in DOMAIN queue'[g] :
            \/ i \in DOMAIN queue[g] /\ queue'[g][i] = queue[g][i]
            \/ g = h /\ i = Len(queue[h]) + 1 /\ queue'[g][i] = ev
  BY <1>1
<1>drawn. \A g \in Fds : \A i \in DOMAIN wire'[g] :
            /\ g # f => i \in DOMAIN wire[g] /\ wire'[g][i] = wire[g][i]
            /\ g = f => \E j \in DOMAIN wire[g] : j # 1 /\ wire'[g][i] = wire[g][j]
  BY <1>1
<1>2. ev.type = m.type /\ ev.fd = f /\ ev.src = m.src /\ ev.dest = m.dest /\ IsCall(ev)
  BY <1>1 DEF CallEvent, Msgs, IsCall
<1>. HIDE DEF ev
<1>3. /\ UNCHANGED <<hook, acts, fxsState, sessionFd, destNumber, number, digitTimer, calls, accepted,
                     active, shut, misread, answer>>
      /\ f \in active
  BY DEF ReadCallMsg, phoneVars, endptVars
<1>4. FdsKept /\ MadeFds' = MadeFds
  BY <1>3, SameFds
<1>5. TypeOK'
  BY <1>1, <1>3, <1>4 DEF IInv, TypeOK
<1>6. SessionsHold
  BY <1>3, <1>4, SessionsStay DEF RingingKept
<1>7. m.dest = Owner(f) /\ m.src = FarNumber(f) /\ Directed(m.type, f) /\ FdHost(f) = h
  BY <1>1 DEF IInv, WireAddressed, WireDirected, h
<1>8. m.type = "CALLING" => ~ FromFd(f)
  BY <1>1 DEF IInv, FirstOnWire
<1>9. WireAddressed' /\ WireDirected'
  <2>1. ASSUME NEW g \in Fds, NEW i \in DOMAIN wire'[g]
        PROVE  \E j \in DOMAIN wire[g] : wire'[g][i] = wire[g][j]
    BY <1>drawn
  <2>2. ASSUME NEW g \in Fds, NEW i \in DOMAIN wire'[g], NEW x, x = wire'[g][i]
        PROVE  g \in MadeFds' /\ x.dest = Owner(g)' /\ x.src = FarNumber(g)' /\ Directed(x.type, g)
    <3>1. g \in MadeFds /\ x.dest = Owner(g) /\ x.src = FarNumber(g) /\ Directed(x.type, g)
      BY <2>1, <2>2 DEF IInv, WireAddressed, WireDirected
    <3>. QED BY <1>4, <3>1 DEF FdsKept
  <2>. QED BY <2>2 DEF WireAddressed, WireDirected
<1>10. QueueAddressed' /\ QueueDirected'
  <2>1. ASSUME NEW g \in Hosts, NEW i \in DOMAIN queue'[g], NEW x, x = queue'[g][i], IsCall(x)
        PROVE  /\ x.fd \in MadeFds' /\ FdHost(x.fd)' = g
               /\ x.dest = Owner(x.fd)' /\ x.src = FarNumber(x.fd)' /\ Directed(x.type, x.fd)
    <3>1. (\E n \in DOMAIN queue[g] : x = queue[g][n]) \/ (x = ev /\ g = h)
      BY <1>added, <2>1
    <3>2. /\ x.fd \in MadeFds /\ FdHost(x.fd) = g
          /\ x.dest = Owner(x.fd) /\ x.src = FarNumber(x.fd) /\ Directed(x.type, x.fd)
      BY <1>2, <1>7, <2>1, <3>1 DEF IInv, QueueAddressed, QueueDirected
    <3>. QED BY <1>4, <3>2 DEF FdsKept
  <2>. QED BY <2>1 DEF QueueAddressed, QueueDirected, IsCall
<1>11. \A g \in Fds : FromFd(g)' => FromFd(g) \/ g = f
  BY <1>added, <1>2 DEF FromFd, IsCall
<1>12. \A c \in 1 .. MaxCalls : InQueue(c)' => InQueue(c) \/ (m.type = "CALLING" /\ f = <<c, "callee">>)
  BY <1>added, <1>2 DEF InQueue
<1>13. \A c \in 1 .. MaxCalls : m.type = "CALLING" /\ f = <<c, "callee">> => OnWire(c)
  BY <1>1 DEF OnWire
<1>14. \A c \in 1 .. MaxCalls : /\ <<c, "callee">> \in Fds /\ <<c, "caller">> \in Fds
                                /\ OnWire(c)' => OnWire(c)
  <2>1. \A c \in 1 .. MaxCalls : <<c, "callee">> \in Fds /\ <<c, "caller">> \in Fds
    BY DEF Fds
  <2>2. \A g \in Fds : (\E i \in DOMAIN wire'[g] : wire'[g][i].type = "CALLING")
                      => \E j \in DOMAIN wire[g] : wire[g][j].type = "CALLING"
    BY <1>drawn
  <2>. QED BY <2>1, <2>2 DEF OnWire
<1>15. FirstOnWire'
  <2>1. ASSUME NEW g \in Fds, NEW i \in DOMAIN wire'[g], wire'[g][i].type = "CALLING"
        PROVE  g # f /\ i = 1 /\ ~ FromFd(g)
    BY <1>drawn, <2>1 DEF IInv, FirstOnWire
  <2>. QED BY <1>11, <2>1 DEF FirstOnWire
<1>16. FirstInQueue'
  <2>1. \A g \in Hosts : Len(queue[g]) \in Nat /\ DOMAIN queue[g] = 1 .. Len(queue[g])
    BY LenProperties DEF IInv, TypeOK
  <2>2. \A g \in Hosts : Len(queue'[g]) \in Nat /\ DOMAIN queue'[g] = 1 .. Len(queue'[g])
    BY <1>1, LenProperties
  <2>3. ASSUME NEW g \in Hosts, NEW i \in DOMAIN queue'[g], queue'[g][i].type = "CALLING",
               NEW j \in 1 .. i - 1, IsCall(queue'[g][j])
        PROVE  queue'[g][j].fd # queue'[g][i].fd
    <3>1. i \in Nat /\ j \in Nat /\ j < i /\ i \in 1 .. Len(queue'[g]) /\ j \in DOMAIN queue'[g]
      BY <2>2
    <3>2. \/ i \in DOMAIN queue[g] /\ queue'[g][i] = queue[g][i]
          \/ g = h /\ i = Len(queue[h]) + 1 /\ queue'[g][i] = ev
      BY <1>added
    <3>3. j \in DOMAIN queue[g] /\ queue'[g][j] = queue[g][j]
      BY <1>added, <2>1, <3>1, <3>2
    <3>4. CASE i \in DOMAIN queue[g] /\ queue'[g][i] = queue[g][i]
      BY <2>3, <3>3, <3>4 DEF IInv, FirstInQueue
    <3>5. CASE queue'[g][i] = ev
      BY <1>2, <1>8, <2>3, <3>3, <3>5 DEF FromFd
    <3>. QED BY <3>2, <3>4, <3>5
  <2>. QED BY <2>3 DEF FirstInQueue, IsCall
<1>17. HandledBefore'
  BY <1>3, <1>12, <1>13, <1>14 DEF IInv, HandledBefore
<1>18. \A c \in 1 .. MaxCalls : Young(c)' => Young(c)
  <2>1. \A c \in 1 .. MaxCalls : Rings(c)' => Rings(c)
    BY <1>3 DEF Rings
  <2>2. \A c \in 1 .. MaxCalls : Young(c)' => c > Len(calls) \/ OnWire(c)' \/ InQueue(c)' \/ Rings(c)'
    BY <1>3 DEF Young
  <2>3. \A c \in 1 .. MaxCalls : c > Len(calls) \/ OnWire(c) \/ InQueue(c) \/ Rings(c) => Young(c)
    BY DEF Young
  <2>. QED BY <1>12, <1>13, <1>14, <2>1, <2>2, <2>3
<1>19. UnheardOf'
  <2>1. \A c \in 1 .. MaxCalls : Young(c) => f # <<c, "caller">> /\ wire'[<<c, "caller">>] = << >>
    <3>1. \A g \in Fds \ {f} : wire'[g] = wire[g]
      BY DEF IInv, TypeOK, ReadCallMsg
    <3>. QED BY <1>14, <3>1 DEF IInv, UnheardOf, ReadCallMsg
  <2>. QED BY <1>3, <1>11, <1>14, <1>18, <2>1 DEF IInv, UnheardOf
<1>20. OpenAndWatched'
  <2>1. \A c \in 1 .. MaxCalls : Rings(c)' => Rings(c)
    BY <1>3 DEF Rings
  <2>. QED BY <1>3, <1>12, <1>18, <2>1 DEF IInv, OpenAndWatched
<1>21. AnsweredOnce'
  BY <1>3 DEF IInv, AnsweredOnce
<1>. QED BY <1>5, <1>6, <1>9, <1>10, <1>15, <1>16, <1>17, <1>19, <1>20, <1>21 DEF IInv, SessionsHold

-----------------------------------------------------------------------------
(* Messages sent by the processor.                                         *)
(* m follows what was said to the other end of f, or nothing does.         *)
AddedAtTheEnd(f, m, w) ==
  /\ wire' \in [Fds -> Seq(Msgs)]
  /\ answer' \in [1 .. MaxCalls -> Seq({"CALL_ACCEPT", "CALL_REJECT"})]
  /\ ~ w => wire' = wire /\ answer' = answer
  /\ \A g \in Fds : g # Peer(f) => wire'[g] = wire[g]
  /\ \A i \in DOMAIN wire'[Peer(f)] :
       \/ i \in DOMAIN wire[Peer(f)] /\ wire'[Peer(f)][i] = wire[Peer(f)][i]
       \/ w /\ i = Len(wire[Peer(f)]) + 1 /\ wire'[Peer(f)][i] = m
  /\ \/ answer' = answer
     \/ /\ w /\ f[2] = "callee" /\ m.type \in {"CALL_ACCEPT", "CALL_REJECT"}
        /\ answer' = [answer EXCEPT ![f[1]] = Append(answer[f[1]], m.type)]

LEMMA SentAtTheEnd ==
  ASSUME TypeOK, NEW f \in Fds, NEW m \in Msgs, NEW w \in BOOLEAN, Sent(f, m, w)
  PROVE  AddedAtTheEnd(f, m, w)
<1>1. Peer(f) \in Fds /\ f[1] \in 1 .. MaxCalls
  BY TwoEnds
<1>. DEFINE g == Peer(f)
            c == f[1]
<1>. HIDE DEF g, c
<1>2. wire \in [Fds -> Seq(Msgs)] /\ answer \in [1 .. MaxCalls -> Seq({"CALL_ACCEPT", "CALL_REJECT"})]
  BY DEF TypeOK
<1>3. wire[g] \in Seq(Msgs) /\ answer[c] \in Seq({"CALL_ACCEPT", "CALL_REJECT"})
  BY <1>1, <1>2 DEF g, c
<1>4. /\ Append(wire[g], m) \in Seq(Msgs) /\ DOMAIN wire[g] = 1 .. Len(wire[g]) /\ Len(wire[g]) \in Nat
      /\ DOMAIN Append(wire[g], m) = 1 .. Len(wire[g]) + 1
      /\ \A i \in 1 .. Len(wire[g]) + 1 :
           Append(wire[g], m)[i] = IF i <= Len(wire[g]) THEN wire[g][i] ELSE m
  <2>1. /\ Append(wire[g], m) \in Seq(Msgs) /\ Len(Append(wire[g], m)) = Len(wire[g]) + 1
        /\ \A i \in 1 .. Len(wire[g]) : Append(wire[g], m)[i] = wire[g][i]
        /\ Append(wire[g], m)[Len(wire[g]) + 1] = m
    BY <1>3, AppendProperties
  <2>2. /\ Len(wire[g]) \in Nat /\ DOMAIN wire[g] = 1 .. Len(wire[g])
        /\ DOMAIN Append(wire[g], m) = 1 .. Len(Append(wire[g], m))
    BY <1>3, <2>1, LenProperties
  <2>. QED BY <2>1, <2>2
<1>5. wire' = wire \/ (w /\ wire' = [wire EXCEPT ![g] = Append(wire[g], m)])
  BY DEF Sent, g
<1>6. \/ answer' = answer
      \/ /\ w /\ f[2] = "callee" /\ m.type \in {"CALL_ACCEPT", "CALL_REJECT"}
         /\ answer' = [answer EXCEPT ![c] = Append(answer[c], m.type)]
  BY DEF Sent, c
<1>7. answer' \in [1 .. MaxCalls -> Seq({"CALL_ACCEPT", "CALL_REJECT"})]
  <2>1. ASSUME NEW x \in {"CALL_ACCEPT", "CALL_REJECT"}
        PROVE  Append(answer[c], x) \in Seq({"CALL_ACCEPT", "CALL_REJECT"})
    BY <1>3, AppendProperties
  <2>2. m.type \in {"CALL_ACCEPT", "CALL_REJECT"} =>
          Append(answer[c], m.type) \in Seq({"CALL_ACCEPT", "CALL_REJECT"})
    BY <2>1
  <2>. QED BY <1>2, <1>6, <2>2
<1>8. /\ wire' \in [Fds -> Seq(Msgs)]
      /\ \A e \in Fds : e # g => wire'[e] = wire[e]
      /\ wire'[g] = wire[g] \/ (w /\ wire'[g] = Append(wire[g], m))
  BY <1>1, <1>2, <1>4, <1>5 DEF g
<1>9. \A i \in DOMAIN wire'[g] :
        \/ i \in DOMAIN wire[g] /\ wire'[g][i] = wire[g][i]
        \/ w /\ i = Len(wire[g]) + 1 /\ wire'[g][i] = m
  BY <1>4, <1>8
<1>. QED BY <1>5, <1>6, <1>7, <1>8, <1>9 DEF AddedAtTheEnd, g, c

(* The processor says m on socket f.  The callee of a call says something  *)
(* only when the call is no longer young, and answers only while it is.    *)
LEMMA SendKeeps ==
  ASSUME IInv, NEW h \in Hosts, queue[h] # << >>, Taken(h, << >>),
         RingingKept, fxsState' \in [Phones -> States],
         UNCHANGED <<hook, acts, sessionFd, destNumber, number, digitTimer, calls, accepted,
                     active, shut, misread>>,
         NEW f \in MadeFds, NEW m \in Msgs, NEW w \in BOOLEAN, Sent(f, m, w),
         m.src = Owner(f), m.dest = FarNumber(f), m.type # "CALLING", Directed(m.type, Peer(f)),
         w /\ f[2] = "callee" => ~ Young(f[1])',
         w /\ f[2] = "callee" /\ m.type \in {"CALL_ACCEPT", "CALL_REJECT"} => Young(f[1])
  PROVE  IInv'
<1>1. TypeOK /\ f \in Fds /\ << >> \in Seq(DspEvents)
  BY DEF IInv, MadeFds
<1>2. queue' \in [Hosts -> Seq(Events)] /\ Shifted(Only(h))
  BY <1>1, TakenShifts
<1>3. /\ wire' \in [Fds -> Seq(Msgs)]
      /\ answer' \in [1 .. MaxCalls -> Seq({"CALL_ACCEPT", "CALL_REJECT"})]
      /\ ~ w => wire' = wire /\ answer' = answer
      /\ \A g \in Fds : g # Peer(f) => wire'[g] = wire[g]
      /\ \A i \in DOMAIN wire'[Peer(f)] :
           \/ i \in DOMAIN wire[Peer(f)] /\ wire'[Peer(f)][i] = wire[Peer(f)][i]
           \/ w /\ i = Len(wire[Peer(f)]) + 1 /\ wire'[Peer(f)][i] = m
      /\ \/ answer' = answer
         \/ /\ w /\ f[2] = "callee" /\ m.type \in {"CALL_ACCEPT", "CALL_REJECT"}
            /\ answer' = [answer EXCEPT ![f[1]] = Append(answer[f[1]], m.type)]
  <2>1. AddedAtTheEnd(f, m, w)
    BY <1>1, SentAtTheEnd
  <2>. QED BY <2>1 DEF AddedAtTheEnd
<1>4. FdsKept /\ MadeFds' = MadeFds
  BY SameFds
<1>5. TypeOK'
  BY <1>1, <1>2, <1>3, <1>4 DEF TypeOK
<1>6. SessionsHold /\ NotClosed
  BY <1>4, SessionsStay DEF NotClosed
<1>7. /\ f[1] \in 1 .. MaxCalls /\ f[2] \in {"caller", "callee"}
      /\ Peer(f) \in Fds /\ Peer(f)[1] = f[1] /\ Peer(f)[2] # f[2]
      /\ Owner(Peer(f)) = FarNumber(f) /\ FarNumber(Peer(f)) = Owner(f)
  BY <1>1, TwoEnds
<1>8. Peer(f) \in MadeFds
  BY <1>7 DEF MadeFds
<1>9. \A g \in Fds : \A i \in DOMAIN wire'[g] :
        \/ i \in DOMAIN wire[g] /\ wire'[g][i] = wire[g][i]
        \/ /\ g \in MadeFds' /\ wire'[g][i].dest = Owner(g)' /\ wire'[g][i].src = FarNumber(g)'
           /\ Directed(wire'[g][i].type, g)
           /\ wire'[g][i].type = "CALLING" => i = 1 /\ g[1] > Len(calls)
  <2>1. m.dest = Owner(Peer(f))' /\ m.src = FarNumber(Peer(f))' /\ Peer(f) \in MadeFds'
    BY <1>4, <1>7, <1>8 DEF FdsKept
  <2>2. ASSUME NEW i \in DOMAIN wire'[Peer(f)]
        PROVE  \/ i \in DOMAIN wire[Peer(f)] /\ wire'[Peer(f)][i] = wire[Peer(f)][i]
               \/ wire'[Peer(f)][i] = m
    BY <1>3
  <2>3. ASSUME NEW g \in Fds, NEW i \in DOMAIN wire'[g], g = Peer(f)
        PROVE  \/ i \in DOMAIN wire[g] /\ wire'[g][i] = wire[g][i]
               \/ /\ g \in MadeFds' /\ wire'[g][i].dest = Owner(g)' /\ wire'[g][i].src = FarNumber(g)'
                  /\ Directed(wire'[g][i].type, g) /\ wire'[g][i].type # "CALLING"
    BY <2>1, <2>2, <2>3
  <2>4. ASSUME NEW g \in Fds, NEW i \in DOMAIN wire'[g], g # Peer(f)
        PROVE  i \in DOMAIN wire[g] /\ wire'[g][i] = wire[g][i]
    BY <1>3, <2>4
  <2>. QED BY <2>3, <2>4
<1>10. \A c \in 1 .. MaxCalls : Young(c)' =>
         answer'[c] = answer[c] /\ wire'[<<c, "caller">>] = wire[<<c, "caller">>]
  <2>1. \A c \in 1 .. MaxCalls : <<c, "caller">> \in Fds
    BY DEF Fds
  <2>2. ASSUME NEW c \in 1 .. MaxCalls, Peer(f) = <<c, "caller">> PROVE c = f[1] /\ f[2] = "callee"
    BY <1>7, <2>2
  <2>3. ASSUME NEW c \in 1 .. MaxCalls, Young(c)'
        PROVE  answer'[c] = answer[c] /\ wire'[<<c, "caller">>] = wire[<<c, "caller">>]
    <3>1. w => c # f[1] \/ f[2] # "callee"
      BY <2>3
    <3>2. answer'[c] = answer[c]
      BY <1>1, <1>3, <3>1 DEF TypeOK
    <3>. QED BY <1>3, <2>1, <2>2, <3>1, <3>2
  <2>. QED BY <2>3
<1>11. AnsweredOnce'
  <2>1. CASE answer' = answer
    BY <2>1 DEF IInv, AnsweredOnce
  <2>2. CASE answer' = [answer EXCEPT ![f[1]] = Append(answer[f[1]], m.type)] /\ answer[f[1]] = << >>
    BY <1>1, <1>7, <2>2 DEF IInv, AnsweredOnce, TypeOK
  <2>. QED BY <1>3, <1>7, <2>1, <2>2 DEF IInv, UnheardOf
<1>12. Spoken
  BY <1>9, <1>10, <1>11 DEF Spoken
<1>. QED BY <1>2, <1>4, <1>5, <1>6, <1>12, StepKeeps


(* A call that is made and not announced any more, and makes no telephone  *)
(* ring, is no longer young.                                               *)
LEMMA NoLongerYoung ==
  ASSUME TypeOK, NEW f \in MadeFds, UNCHANGED calls, f[2] = "callee",
         ~ OnWire(f[1]), ~ InQueue(f[1])', wire'[f] = wire[f],
         \A p \in Phones : fxsState'[p] = "BE_CALLED" => sessionFd'[p] # f
  PROVE  ~ Young(f[1])'
<1>1. f = <<f[1], "callee">> /\ f[1] \in 1 .. MaxCalls /\ f[1] <= Len(calls)
  BY TwoEnds DEF MadeFds
<1>. DEFINE c == f[1]
<1>. HIDE DEF c
<1>2. f = <<c, "callee">> /\ ~ OnWire(c) /\ ~ InQueue(c)'
  BY <1>1 DEF c
<1>3. ~ OnWire(c)'
  BY <1>2 DEF OnWire
<1>4. ~ Rings(c)'
  BY <1>2 DEF Rings
<1>5. ~ (c > Len(calls'))
  <2>1. c \in Nat /\ Len(calls) \in Nat /\ c <= Len(calls)
    BY <1>1, BoundsAssumption, LenProperties DEF c, TypeOK
  <2>. QED BY <2>1
<1>. QED BY <1>2, <1>3, <1>4, <1>5 DEF Young, c

(* What the event taken says of the call it belongs to.                    *)
TakenFrom(h, f) ==
  /\ f \in MadeFds /\ f \in Fds
  /\ Event(h).dest = Owner(f) /\ Event(h).src = FarNumber(f) /\ Directed(Event(h).type, f)
  /\ f[2] = "callee" => ~ OnWire(f[1]) /\ ~ InQueue(f[1])'
  /\ f[2] = "caller" => ~ Young(f[1])
  /\ Event(h).type = "CALLING" => InQueue(f[1])

LEMMA TakenFromFd ==
  ASSUME IInv, NEW h \in Hosts, queue[h] # << >>, IsCall(Event(h)),
         queue' \in [Hosts -> Seq(Events)], Shifted(Only(h)), NEW f, f = Event(h).fd
  PROVE  TakenFrom(h, f)
<1>1. /\ 1 \in DOMAIN queue[h] /\ Event(h) = queue[h][1]
      /\ \A g \in Hosts : DOMAIN queue[g] = 1 .. Len(queue[g]) /\ Len(queue[g]) \in Nat
  BY HeadIsFirst, LenProperties DEF IInv, TypeOK
<1>2. /\ f \in MadeFds /\ FdHost(f) = h
      /\ Event(h).dest = Owner(f) /\ Event(h).src = FarNumber(f) /\ Directed(Event(h).type, f)
  BY <1>1 DEF IInv, QueueAddressed, QueueDirected
<1>3. f \in Fds /\ f[1] \in 1 .. MaxCalls /\ f = <<f[1], f[2]>> /\ FromFd(f)
  BY <1>1, <1>2, TwoEnds DEF MadeFds, FromFd
<1>4. f[2] = "callee" => ~ OnWire(f[1])
  BY <1>3 DEF OnWire, IInv, FirstOnWire
<1>5. f[2] = "caller" => ~ Young(f[1])
  BY <1>3 DEF IInv, UnheardOf
<1>6. Event(h).type = "CALLING" => InQueue(f[1])
  BY <1>1, <1>2, <1>3 DEF InQueue, Directed
<1>7. ASSUME NEW g \in Hosts, NEW i \in DOMAIN queue'[g], queue'[g][i].type = "CALLING",
             queue'[g][i].fd = f
      PROVE  FALSE
  <2>1. IsCall(queue'[g][i])
    BY <1>7 DEF IsCall, CallTypes
  <2>2. /\ i + Only(h)[g] \in DOMAIN queue[g] /\ queue[g][i + Only(h)[g]] = queue'[g][i]
        /\ Only(h)[g] = IF g = h THEN 1 ELSE 0
    BY <2>1 DEF Shifted, Only
  <2>3. g = h
    BY <1>2, <1>7, <2>1, <2>2 DEF IInv, QueueAddressed
  <2>4. i \in Nat /\ i \in 1 .. Len(queue'[g])
    BY LenProperties
  <2>5. i + 1 \in DOMAIN queue[h] /\ queue[h][i + 1] = queue'[g][i] /\ 1 \in 1 .. (i + 1) - 1
    BY <2>2, <2>3, <2>4
  <2>. QED BY <1>1, <1>7, <2>5 DEF IInv, FirstInQueue
<1>8. f[2] = "callee" => ~ InQueue(f[1])'
  BY <1>3, <1>7 DEF InQueue
<1>. QED BY <1>2, <1>3, <1>4, <1>5, <1>6, <1>8 DEF TakenFrom

LEMMA FewerLeft ==
  ASSUME IInv, NEW h \in Hosts, queue[h] # << >>, Taken(h, << >>), UNCHANGED calls
  PROVE  queue' \in [Hosts -> Seq(Events)] /\ Shifted(Only(h)) /\ Fewer
<1>1. TypeOK /\ << >> \in Seq(DspEvents)
  BY DEF IInv
<1>2. queue' \in [Hosts -> Seq(Events)] /\ Shifted(Only(h))
  BY <1>1, TakenShifts
<1>. QED BY <1>2, SameFds, QueueKept DEF IInv

LEMMA SendOnSessionKeeps ==
  ASSUME IInv, NEW h \in Hosts, NEW p \in Phones,
         HookOnCalling(h, p) \/ HookOnTalking(h, p) \/ HookOffBeCalled(h, p)
  PROVE  IInv'
<1>. DEFINE row == Matched(h, p)
<1>0. PICK f : f = sessionFd[p]
  OBVIOUS
<1>1. PICK type \in {"CALL_DOWN", "CALL_ACCEPT"} :
        /\ SendOnSession(h, p, type) /\ Runs(h, p, row.handler)
        /\ \/ type = "CALL_DOWN" /\ row.handler \in {"hookOnCalling", "hookOnTalking"}
           \/ type = "CALL_ACCEPT" /\ row.handler = "hookOffBeCalled"
  BY DEF HookOnCalling, HookOnTalking, HookOffBeCalled, Runs
<1>. HIDE DEF row
<1>2. PICK w \in WriteResults(f) : /\ Sent(f, CallMsg(type, p, destNumber[p]), w)
                                   /\ IF w THEN NewState(p, row) ELSE UNCHANGED fxsState
  BY <1>0, <1>1 DEF SendOnSession, row
<1>3. TypeOK /\ row # << >> /\ queue[h] # << >> /\ Taken(h, << >>) /\ w \in BOOLEAN /\ (f = NoFd => ~ w)
  BY <1>1, <1>2 DEF Runs, Taking, IInv, SendOnSession, WriteResults, row
<1>4. /\ UNCHANGED <<hook, acts, sessionFd, destNumber, number, digitTimer, calls, accepted,
                     active, shut, misread>>
  BY <1>1 DEF SendOnSession, phoneVars
<1>5. CASE ~ w
  <2>1. UNCHANGED <<fxsState, wire, answer>>
    BY <1>2, <1>5 DEF Sent
  <2>2. RingingKept /\ fxsState' \in [Phones -> States] /\ << >> \in Seq(DspEvents)
    BY <1>3, <2>1 DEF RingingKept, TypeOK
  <2>. QED BY <1>3, <1>4, <2>1, <2>2, HandledQuietly DEF TypeOK
<1>6. CASE w
  <2>0. UNCHANGED calls
    BY <1>4
  <2>1. /\ Fits(row, Event(h).type, fxsState[p]) /\ fxsState' \in [Phones -> States]
        /\ row.new # "MAX" => fxsState'[p] = row.new
        /\ row.handler # "beCalledHookOn" => RingingKept
    BY <1>2, <1>3, <1>6, StateFits DEF row
  <2>2. /\ RingingKept /\ fxsState'[p] # "BE_CALLED"
        /\ type = "CALL_ACCEPT" => fxsState[p] = "BE_CALLED"
        /\ type # "CALL_ACCEPT" \/ type = "CALL_ACCEPT"
    BY <1>1, <2>1 DEF Fits
  <2>3. f \in MadeFds /\ f \in Fds /\ Owner(f) = p /\ FarNumber(f) = destNumber[p]
    BY <1>0, <1>3, <1>6 DEF IInv, SessionOwned, MadeFds
  <2>4. f[1] \in 1 .. MaxCalls /\ (f[2] = "callee" => f = <<f[1], "callee">>) /\ f \notin {Peer(f)}
    BY <2>3, TwoEnds
  <2>5. type = "CALL_ACCEPT" => f[2] = "callee" /\ Young(f[1])
    <3>1. type = "CALL_ACCEPT" => f[2] = "callee"
      BY <1>0, <2>2 DEF IInv, RingsForCaller
    <3>. QED BY <1>0, <2>2, <2>4, <3>1 DEF Young, Rings
  <2>6. f[2] = "callee" => ~ Young(f[1])'
    <3>1. wire'[f] = wire[f]
      BY <1>2, <1>3, <2>3, <2>4 DEF Sent, TypeOK
    <3>2. f[2] = "callee" => ~ OnWire(f[1]) /\ ~ InQueue(f[1])'
      BY <1>0, <1>3, <1>4, <2>4, FewerLeft DEF IInv, HandledBefore, Fewer
    <3>3. \A q \in Phones : fxsState'[q] = "BE_CALLED" => sessionFd'[q] # f
      BY <1>4, <2>2, <2>3, NoFdIsNone DEF IInv, SessionOwned
    <3>. QED BY <1>3, <2>0, <2>3, <3>1, <3>2, <3>3, NoLongerYoung
  <2>7. LET m == CallMsg(type, p, destNumber[p])
        IN /\ m \in Msgs /\ m.src = Owner(f) /\ m.dest = FarNumber(f) /\ m.type = type
    BY <1>3, <2>3 DEF CallMsg, Msgs, CallTypes, TypeOK
  <2>8. Directed(type, Peer(f))
    BY <2>3, <2>5, TwoEnds DEF Directed
  <2>. QED BY <1>2, <1>3, <1>4, <2>1, <2>2, <2>3, <2>5, <2>6, <2>7, <2>8, SendKeeps
<1>. QED BY <1>3, <1>5, <1>6

(* An announcement, or the acceptance of a call, is rejected.              *)
LEMMA RejectKeeps ==
  ASSUME IInv, NEW h \in Hosts, NEW p \in Phones, Taking(h, p),
         Event(h).type \in {"CALLING", "CALL_ACCEPT"}, Reject(h, p)
  PROVE  IInv'
<1>0. PICK f, m : f = Event(h).fd /\ m = CallMsg("CALL_REJECT", p, Event(h).src)
  OBVIOUS
<1>1. PICK w \in WriteResults(f) : Sent(f, m, w)
  BY <1>0 DEF Reject
<1>2. TypeOK /\ queue[h] # << >> /\ Taken(h, << >>) /\ w \in BOOLEAN
  BY <1>1 DEF Taking, Reject, WriteResults, IInv
<1>3. UNCHANGED <<hook, acts, fxsState, sessionFd, destNumber, number, digitTimer, calls, accepted,
                  active, shut, misread>>
  BY DEF Reject, phoneVars, endptVars
<1>4. queue' \in [Hosts -> Seq(Events)] /\ Shifted(Only(h)) /\ Fewer
  BY <1>2, <1>3, FewerLeft
<1>5. IsCall(Event(h)) /\ p = Event(h).dest /\ Event(h) \in Events
  BY <1>2, HeadIsFirst DEF IsCall, CallTypes, Taking, Endpt, Event
<1>6. /\ f \in MadeFds /\ f \in Fds
      /\ Event(h).dest = Owner(f) /\ Event(h).src = FarNumber(f) /\ Directed(Event(h).type, f)
      /\ f[2] = "callee" => ~ OnWire(f[1]) /\ ~ InQueue(f[1])'
      /\ Event(h).type = "CALLING" => InQueue(f[1])
  <2>1. TakenFrom(h, f)
    BY <1>0, <1>2, <1>4, <1>5, TakenFromFd
  <2>. QED BY <2>1 DEF TakenFrom
<1>7. /\ f[1] \in 1 .. MaxCalls /\ f = <<f[1], f[2]>> /\ f[2] \in {"caller", "callee"} /\ f # Peer(f)
      /\ f[2] = "callee" => Event(h).type = "CALLING"
  BY <1>6, TwoEnds DEF Directed
<1>8. m \in Msgs /\ m.src = Owner(f) /\ m.dest = FarNumber(f) /\ m.type = "CALL_REJECT"
  <2>1. Event(h) \in CallEvents
    BY <1>5, TwoKinds
  <2>2. Event(h).src \in Numbers
    BY <2>1 DEF CallEvents, Numbers
  <2>. QED BY <1>0, <1>5, <1>6, <2>2 DEF CallMsg, Msgs, CallTypes
<1>9. f[2] = "callee" => Young(f[1]) /\ ~ Young(f[1])'
  <2>. SUFFICES ASSUME f[2] = "callee" PROVE Young(f[1]) /\ ~ Young(f[1])'
    OBVIOUS
  <2>1. Young(f[1]) /\ InQueue(f[1])
    BY <1>6, <1>7 DEF Young
  <2>2. wire'[f] = wire[f]
    BY <1>1, <1>2, <1>6, <1>7 DEF Sent, TypeOK
  <2>3. \A q \in Phones : sessionFd[q] # f
    BY <1>7, <2>1 DEF IInv, HandledBefore
  <2>4. \A q \in Phones : fxsState'[q] = "BE_CALLED" => sessionFd'[q] # f
    BY <1>3, <2>3
  <2>5. UNCHANGED calls
    BY <1>3
  <2>. QED BY <1>2, <1>6, <2>1, <2>2, <2>4, <2>5, NoLongerYoung
<1>10. RingingKept /\ fxsState' \in [Phones -> States] /\ Directed(m.type, Peer(f))
  BY <1>2, <1>3, <1>8 DEF RingingKept, TypeOK, Directed
<1>. QED BY <1>1, <1>2, <1>3, <1>6, <1>8, <1>9, <1>10, SendKeeps


-----------------------------------------------------------------------------
(* closeFd, with a socket and without one.                                 *)
LEMMA CloseFdKeeps ==
  ASSUME IInv, NEW h \in Hosts, NEW p \in Phones, CloseFd(h, p)
  PROVE  IInv'
<1>0. PICK f : f = Event(h).fd
  OBVIOUS
<1>1. /\ TypeOK /\ Matched(h, p) # << >> /\ NewState(p, Matched(h, p)) /\ queue[h] # << >>
      /\ Matched(h, p).handler = "closeFd" /\ Taken(h, << >>) /\ IsCall(Event(h))
      /\ p = Event(h).dest
  BY DEF CloseFd, Runs, Taking, IInv, IsCall, Event, Endpt
<1>2. /\ UNCHANGED <<hook, acts, sessionFd, destNumber, number, digitTimer, calls,
                     accepted, wire, misread, answer>>
      /\ active' = active \ {f} /\ shut' = shut \union ({f} \ {NoFd})
  BY <1>0 DEF CloseFd, Close, phoneVars
<1>3. UNCHANGED calls
  BY <1>2
<1>4. queue' \in [Hosts -> Seq(Events)] /\ Shifted(Only(h)) /\ Fewer
  BY <1>1, <1>3, FewerLeft
<1>5. TakenFrom(h, f)
  BY <1>0, <1>1, <1>4, TakenFromFd
<1>6. /\ f \in MadeFds /\ f \in Fds /\ Event(h).dest = Owner(f)
      /\ f[2] = "callee" => ~ OnWire(f[1]) /\ ~ InQueue(f[1])'
      /\ f[2] = "caller" => ~ Young(f[1])
  BY <1>5 DEF TakenFrom
<1>7. /\ Fits(Matched(h, p), Event(h).type, fxsState[p]) /\ fxsState' \in [Phones -> States]
      /\ Matched(h, p).new # "MAX" => fxsState'[p] = Matched(h, p).new
      /\ RingingKept
  BY <1>1, StateFits
<1>8. fxsState'[p] # "BE_CALLED"
  BY <1>1, <1>7 DEF Fits, IsCall, CallTypes
<1>9. TypeOK'
  BY <1>1, <1>2, <1>4, <1>6, <1>7 DEF TypeOK, MadeFds
<1>10. f[1] \in 1 .. MaxCalls /\ f = <<f[1], f[2]>> /\ f[2] \in {"caller", "callee"}
  BY <1>6, TwoEnds
<1>11. ~ Young(f[1])'
  <2>1. CASE f[2] = "callee"
    <3>1. \A q \in Phones : fxsState'[q] = "BE_CALLED" => sessionFd'[q] # f
      BY <1>1, <1>2, <1>6, <1>8, NoFdIsNone DEF IInv, SessionOwned
    <3>2. wire'[f] = wire[f]
      BY <1>2
    <3>. QED BY <1>1, <1>3, <1>6, <2>1, <3>1, <3>2, NoLongerYoung
  <2>2. CASE f[2] = "caller"
    <3>1. \A c \in 1 .. MaxCalls : (OnWire(c)' => OnWire(c)) /\ (Rings(c)' => Rings(c))
      BY <1>2, <1>7 DEF OnWire, Rings, RingingKept
    <3>2. \A c \in 1 .. MaxCalls :
            Young(c)' => c > Len(calls) \/ OnWire(c)' \/ InQueue(c)' \/ Rings(c)'
      BY <1>3 DEF Young
    <3>3. \A c \in 1 .. MaxCalls : Young(c)' => Young(c)
      BY <1>4, <3>1, <3>2 DEF Young, Fewer
    <3>. QED BY <1>6, <1>10, <2>2, <3>3
  <2>. QED BY <1>10, <2>1, <2>2
<1>12. NotClosed
  BY <1>2, <1>11 DEF NotClosed
<1>. QED BY <1>2, <1>4, <1>7, <1>9, <1>12, QuietKeeps

LEMMA MisreadKeeps ==
  ASSUME IInv, NEW h \in Hosts, NEW p \in Phones, CloseFdMisread(h, p)
  PROVE  IInv'
<1>1. TypeOK /\ queue[h] # << >> /\ Taken(h, << >>)
  BY DEF CloseFdMisread, Runs, Taking, IInv
<1>2. PICK f \in {NoFd} \union active : Close(f)
  BY DEF CloseFdMisread
<1>3. /\ UNCHANGED <<hook, acts, fxsState, sessionFd, destNumber, number, digitTimer, calls,
                     accepted, wire, answer>>
      /\ misread' = TRUE
  BY DEF CloseFdMisread, phoneVars, endptVars
<1>4. UNCHANGED calls
  BY <1>3
<1>5. queue' \in [Hosts -> Seq(Events)] /\ Shifted(Only(h))
  BY <1>1, <1>4, FewerLeft
<1>6. TypeOK'
  BY <1>1, <1>2, <1>3, <1>5 DEF TypeOK, MadeFds, Close
<1>7. RingingKept /\ NotClosed
  BY <1>3 DEF RingingKept, NotClosed
<1>. QED BY <1>3, <1>5, <1>6, <1>7, QuietKeeps

-----------------------------------------------------------------------------
(* The telephone called rings, and the socket of the call is its session.  *)
LEMMA BeCalledKeeps ==
  ASSUME IInv, NEW h \in Hosts, NEW p \in Phones, BeCalledHookOn(h, p)
  PROVE  IInv'
<1>0. PICK f : f = Event(h).fd
  OBVIOUS
<1>1. /\ TypeOK /\ Matched(h, p) # << >> /\ NewState(p, Matched(h, p)) /\ queue[h] # << >>
      /\ Matched(h, p).handler = "beCalledHookOn" /\ Taken(h, << >>)
      /\ << >> \in Seq(DspEvents)
  BY DEF BeCalledHookOn, Runs, Taking, IInv
<1>2. /\ UNCHANGED <<hook, acts, number, digitTimer, calls, accepted, active, shut, wire,
                     misread, answer>>
      /\ sessionFd' = [sessionFd EXCEPT ![p] = f]
      /\ destNumber' = [destNumber EXCEPT ![p] = Event(h).src]
  BY <1>0 DEF BeCalledHookOn, phoneVars, netVars
<1>3. UNCHANGED calls
  BY <1>2
<1>4. queue' \in [Hosts -> Seq(Events)] /\ Shifted(Only(h)) /\ Fewer
  BY <1>1, <1>3, FewerLeft
<1>5. /\ Fits(Matched(h, p), Event(h).type, fxsState[p]) /\ fxsState' \in [Phones -> States]
      /\ Matched(h, p).new # "MAX" => fxsState'[p] = Matched(h, p).new
      /\ \A q \in Phones \ {p} : fxsState'[q] = fxsState[q]
  BY <1>1, StateFits
<1>6. Event(h).type = "CALLING" /\ IsCall(Event(h)) /\ Event(h) \in CallEvents
  BY <1>1, <1>5, HeadIsFirst, TwoKinds DEF Fits, IsCall, CallTypes
<1>7. p = Event(h).dest /\ Event(h).src \in Numbers
  BY <1>6 DEF BeCalledHookOn, Runs, Taking, Endpt, Event, CallTypes, CallEvents, Numbers
<1>8. TakenFrom(h, f)
  BY <1>0, <1>1, <1>4, <1>6, TakenFromFd
<1>9. /\ f \in MadeFds /\ f \in Fds /\ Owner(f) = p /\ FarNumber(f) = Event(h).src
      /\ f[2] = "callee" /\ ~ OnWire(f[1]) /\ ~ InQueue(f[1])' /\ InQueue(f[1])
  BY <1>6, <1>7, <1>8 DEF TakenFrom, Directed
<1>10. /\ f[1] \in 1 .. MaxCalls /\ f = <<f[1], "callee">> /\ f # NoFd /\ f[1] <= Len(calls)
  BY <1>9, TwoEnds, NoFdIsNone DEF MadeFds
<1>11. FdsKept /\ MadeFds' = MadeFds
  BY <1>3, SameFds
<1>12. TypeOK'
  BY <1>1, <1>2, <1>4, <1>5, <1>7, <1>9, <1>11 DEF TypeOK
<1>13. /\ sessionFd'[p] = f /\ destNumber'[p] = Event(h).src
       /\ \A q \in Phones \ {p} : sessionFd'[q] = sessionFd[q] /\ destNumber'[q] = destNumber[q]
  BY <1>1, <1>2 DEF TypeOK
<1>14. SessionsHold
  <2>1. ASSUME NEW q \in Phones, NEW g, g = sessionFd'[q], g # NoFd
        PROVE  g \in MadeFds' /\ Owner(g)' = q /\ FarNumber(g)' = destNumber'[q]
    <3>1. g \in MadeFds /\ Owner(g) = q /\ FarNumber(g) = destNumber'[q]
      BY <1>9, <1>13, <2>1 DEF IInv, SessionOwned
    <3>. QED BY <1>11, <3>1 DEF FdsKept
  <2>2. SessionOwned'
    BY <2>1 DEF SessionOwned
  <2>3. RingsForCaller'
    BY <1>5, <1>9, <1>10, <1>13 DEF IInv, RingsForCaller
  <2>4. ASSUME NEW c \in 1 .. MaxCalls, NEW q \in Phones, sessionFd'[q] = <<c, "callee">>, q = p
        PROVE  c = f[1]
    BY <1>10, <1>13, <2>4
  <2>5. \A c \in 1 .. MaxCalls : Rings(c)' => Rings(c) \/ InQueue(c)
    BY <1>5, <1>9, <1>13, <2>4 DEF Rings
  <2>6. \A q \in Phones : \A c \in 1 .. MaxCalls : sessionFd'[q] = <<c, "callee">> =>
          \/ sessionFd[q] = <<c, "callee">>
          \/ c <= Len(calls) /\ ~ OnWire(c) /\ ~ InQueue(c)'
    BY <1>9, <1>10, <1>13, <2>4
  <2>. QED BY <2>2, <2>3, <2>5, <2>6 DEF SessionsHold
<1>15. Spoken /\ NotClosed
  BY <1>2 DEF Spoken, NotClosed, IInv, AnsweredOnce
<1>. QED BY <1>4, <1>11, <1>12, <1>14, <1>15, StepKeeps


-----------------------------------------------------------------------------
(* A call is made.                                                         *)
LEMMA MadeKeeps ==
  ASSUME TypeOK, Len(calls) < MaxCalls, NEW p \in Phones, NEW n \in Numbers,
         calls' = Append(calls, [src |-> p, dest |-> n])
  PROVE  /\ FdsKept /\ calls' \in Seq([src : Phones, dest : Numbers])
         /\ Len(calls) \in Nat /\ Len(calls') = Len(calls) + 1 /\ Len(calls') <= MaxCalls
         /\ \A f \in Fds : f[1] = Len(calls) + 1 =>
              f \in MadeFds' /\ f \notin MadeFds
         /\ calls'[Len(calls) + 1] = [src |-> p, dest |-> n]
<1>1. calls \in Seq([src : Phones, dest : Numbers]) /\ [src |-> p, dest |-> n] \in [src : Phones, dest : Numbers]
  BY DEF TypeOK
<1>2. /\ calls' \in Seq([src : Phones, dest : Numbers])
      /\ Len(calls') = Len(calls) + 1
      /\ \A i \in 1 .. Len(calls) : calls'[i] = calls[i]
      /\ calls'[Len(calls) + 1] = [src |-> p, dest |-> n]
  BY <1>1, AppendProperties
<1>3. Len(calls) \in Nat /\ MaxCalls \in Nat
  BY <1>1, BoundsAssumption, LenProperties
<1>4. ASSUME NEW f \in MadeFds
      PROVE  /\ f \in MadeFds' /\ Owner(f)' = Owner(f) /\ FarNumber(f)' = FarNumber(f)
             /\ FdHost(f)' = FdHost(f)
  <2>1. f \in Fds /\ f[1] \in 1 .. MaxCalls /\ f[1] <= Len(calls)
    BY TwoEnds DEF MadeFds
  <2>2. f[1] \in 1 .. Len(calls) /\ f[1] <= Len(calls')
    BY <1>2, <1>3, <2>1
  <2>3. calls'[f[1]] = calls[f[1]]
    BY <1>2, <2>2
  <2>. QED BY <2>1, <2>2, <2>3 DEF MadeFds, Owner, FarNumber, FdHost
<1>5. \A f \in Fds : f[1] = Len(calls) + 1 => f \in MadeFds' /\ f \notin MadeFds
  BY <1>2, <1>3 DEF MadeFds
<1>. QED BY <1>2, <1>3, <1>4, <1>5 DEF FdsKept

LEMMA CallNumberKeeps ==
  ASSUME IInv, NEW h \in Hosts, NEW p \in Phones, CallNumber(h, p)
  PROVE  IInv'
<1>0. PICK n, f, g, m : /\ n = Len(calls) + 1 /\ f = <<n, "caller">> /\ g = <<n, "callee">>
                        /\ m = CallMsg("CALLING", p, number[p])
  OBVIOUS
<1>1. /\ TypeOK /\ Matched(h, p) # << >> /\ NewState(p, Matched(h, p)) /\ queue[h] # << >>
      /\ Matched(h, p).handler = "numDoneDtmfStart" /\ number[p] \in Numbers
  BY DEF CallNumber, Runs, Taking, IInv
<1>2. PICK w \in BOOLEAN :
        /\ Sent(f, m, w)
        /\ Taken(h, <<DspEvent(IF w THEN "NUM_CALLED" ELSE "NUM_ERR", p)>>)
  BY <1>0 DEF CallNumber
<1>3. /\ UNCHANGED <<hook, acts, number, digitTimer, accepted, shut, misread>>
      /\ Len(calls) < MaxCalls /\ calls' = Append(calls, [src |-> p, dest |-> number[p]])
      /\ sessionFd' = [sessionFd EXCEPT ![p] = f]
      /\ destNumber' = [destNumber EXCEPT ![p] = number[p]]
      /\ active \subseteq active' /\ active' \subseteq active \union {f}
  BY <1>0 DEF CallNumber, Connect, RegisterSessionFd, phoneVars
<1>4. /\ FdsKept /\ calls' \in Seq([src : Phones, dest : Numbers])
      /\ Len(calls) \in Nat /\ Len(calls') = Len(calls) + 1 /\ Len(calls') <= MaxCalls
      /\ \A e \in Fds : e[1] = Len(calls) + 1 => e \in MadeFds' /\ e \notin MadeFds
      /\ calls'[Len(calls) + 1] = [src |-> p, dest |-> number[p]]
  BY <1>1, <1>3, MadeKeeps
<1>5. n \in 1 .. MaxCalls /\ f \in Fds /\ g \in Fds /\ f[1] = n /\ g[1] = n /\ Peer(f) = g /\ f # g
  BY <1>0, <1>3, <1>4, BoundsAssumption DEF Fds, Peer
<1>6. f \in MadeFds' /\ g \in MadeFds' /\ g \notin MadeFds
  BY <1>0, <1>4, <1>5
<1>7. m \in Msgs /\ m.type = "CALLING" /\ m.src = p /\ m.dest = number[p]
  BY <1>0, <1>1 DEF CallMsg, Msgs, CallTypes
<1>8. /\ Owner(f)' = p /\ FarNumber(f)' = number[p] /\ Owner(g)' = number[p] /\ FarNumber(g)' = p
  BY <1>0, <1>4, <1>5 DEF Owner, FarNumber
<1>9. queue' \in [Hosts -> Seq(Events)] /\ Shifted(Only(h))
  BY <1>1, <1>2, DspIsEvent, TakenShifts
<1>10. AddedAtTheEnd(f, m, w)
  BY <1>1, <1>2, <1>5, <1>7, SentAtTheEnd
<1>11. wire[g] = << >>
  <2>1. wire[g] \in Seq(Msgs)
    BY <1>1, <1>5 DEF TypeOK
  <2>2. DOMAIN wire[g] = 1 .. Len(wire[g]) /\ Len(wire[g]) \in Nat
    BY <2>1, LenProperties
  <2>3. 1 \notin DOMAIN wire[g]
    BY <1>5, <1>6 DEF IInv, WireAddressed
  <2>4. Len(wire[g]) = 0
    BY <2>2, <2>3
  <2>. QED BY <2>1, <2>4, EmptySeq
<1>12. /\ wire' \in [Fds -> Seq(Msgs)] /\ answer' = answer
       /\ \A e \in Fds : e # g => wire'[e] = wire[e]
       /\ \A i \in DOMAIN wire'[g] : i = 1 /\ wire'[g][i] = m
  <2>1. f[2] = "caller"
    BY <1>0
  <2>2. DOMAIN << >> = {} /\ Len(<< >>) = 0
    OBVIOUS
  <2>3. \A i \in DOMAIN wire'[g] : i = 1 /\ wire'[g][i] = m
    BY <1>5, <1>10, <1>11, <2>2 DEF AddedAtTheEnd
  <2>. QED BY <1>5, <1>10, <2>1, <2>3 DEF AddedAtTheEnd
<1>13. /\ fxsState' = fxsState /\ fxsState[p] # "BE_CALLED"
  <2>1. Fits(Matched(h, p), Event(h).type, fxsState[p])
    BY <1>1, StateFits
  <2>. QED BY <1>1, <2>1 DEF Fits, NewState
<1>14. TypeOK'
  <2>1. accepted' \subseteq 1 .. Len(calls')
    BY <1>1, <1>3, <1>4 DEF TypeOK
  <2>2. active' \subseteq MadeFds' /\ shut' \subseteq MadeFds'
    BY <1>1, <1>3, <1>4, <1>6 DEF TypeOK, FdsKept
  <2>3. /\ sessionFd' \in [Phones -> Fds \union {NoFd}] /\ destNumber' \in [Phones -> Numbers]
    BY <1>1, <1>3, <1>5 DEF TypeOK
  <2>. QED BY <1>1, <1>3, <1>4, <1>9, <1>12, <1>13, <2>1, <2>2, <2>3 DEF TypeOK
<1>15. /\ sessionFd'[p] = f /\ destNumber'[p] = number[p]
       /\ \A q \in Phones \ {p} : sessionFd'[q] = sessionFd[q] /\ destNumber'[q] = destNumber[q]
  BY <1>1, <1>3 DEF TypeOK
<1>16. SessionsHold
  <2>1. ASSUME NEW q \in Phones, NEW e, e = sessionFd'[q], e # NoFd
        PROVE  e \in MadeFds' /\ Owner(e)' = q /\ FarNumber(e)' = destNumber'[q]
    <3>1. CASE q = p
      BY <1>6, <1>8, <1>15, <2>1, <3>1
    <3>2. CASE q # p
      <4>1. e \in MadeFds /\ Owner(e) = q /\ FarNumber(e) = destNumber'[q]
        BY <1>15, <2>1, <3>2 DEF IInv, SessionOwned
      <4>. QED BY <1>4, <4>1 DEF FdsKept
    <3>. QED BY <3>1, <3>2
  <2>2. SessionOwned'
    BY <2>1 DEF SessionOwned
  <2>3. RingsForCaller'
    BY <1>13, <1>15 DEF IInv, RingsForCaller
  <2>4. \A c \in 1 .. MaxCalls : <<c, "callee">> # f
    BY <1>0
  <2>5. \A c \in 1 .. MaxCalls : Rings(c)' => Rings(c)
    BY <1>13, <1>15 DEF Rings
  <2>6. \A q \in Phones : \A c \in 1 .. MaxCalls :
          sessionFd'[q] = <<c, "callee">> => sessionFd[q] = <<c, "callee">>
    BY <1>15, <2>4
  <2>. QED BY <2>2, <2>3, <2>5, <2>6 DEF SessionsHold
<1>17. Spoken
  <2>1. ASSUME NEW e \in Fds, NEW i \in DOMAIN wire'[e], e = g
        PROVE  /\ e \in MadeFds' /\ wire'[e][i].dest = Owner(e)' /\ wire'[e][i].src = FarNumber(e)'
               /\ Directed(wire'[e][i].type, e) /\ i = 1 /\ e[1] > Len(calls)
    <3>1. wire'[e][i] = m /\ i = 1
      BY <1>12, <2>1
    <3>2. g[2] = "callee"
      BY <1>0
    <3>3. g[1] > Len(calls)
      BY <1>0, <1>4, <1>5
    <3>. QED BY <1>6, <1>7, <1>8, <2>1, <3>1, <3>2, <3>3 DEF Directed
  <2>2. ASSUME NEW e \in Fds, NEW i \in DOMAIN wire'[e], e # g
        PROVE  i \in DOMAIN wire[e] /\ wire'[e][i] = wire[e][i]
    BY <1>12, <2>2
  <2>3. \A c \in 1 .. MaxCalls : <<c, "caller">> \in Fds /\ <<c, "caller">> # g
    BY <1>0 DEF Fds
  <2>4. \A c \in 1 .. MaxCalls :
          answer'[c] = answer[c] /\ wire'[<<c, "caller">>] = wire[<<c, "caller">>]
    BY <1>12, <2>3
  <2>5. AnsweredOnce'
    BY <1>12 DEF IInv, AnsweredOnce
  <2>. QED BY <2>1, <2>2, <2>4, <2>5 DEF Spoken
<1>18. NotClosed
  BY <1>3, NothingClosed
<1>. QED BY <1>4, <1>9, <1>14, <1>16, <1>17, <1>18, StepKeeps


-----------------------------------------------------------------------------
LEMMA ActionFailsKeeps ==
  ASSUME IInv, NEW h \in Hosts, NEW p \in Phones, ActionFails(h, p)
  PROVE  IInv'
<1>1. Taking(h, p) /\ queue[h] # << >> /\ Matched(h, p) # << >> /\ << >> \in Seq(DspEvents)
  BY DEF ActionFails, Taking
<1>2. CASE Matched(h, p).failed = "rejectCall"
  <2>1. Fits(Matched(h, p), Event(h).type, fxsState[p])
    BY <1>1, RowFits DEF Matched
  <2>2. Event(h).type \in {"CALLING", "CALL_ACCEPT"} /\ Reject(h, p)
    BY <1>2, <2>1 DEF Fits, ActionFails
  <2>. QED BY <1>1, <2>2, RejectKeeps
<1>3. CASE Matched(h, p).failed # "rejectCall"
  <2>1. Taken(h, << >>) /\ UNCHANGED <<phoneVars, endptVars, netVars, misread, answer>>
    BY <1>3 DEF ActionFails
  <2>. QED BY <1>1, <2>1, UnheededKeeps
<1>. QED BY <1>2, <1>3

LEMMA RejectCallKeeps ==
  ASSUME IInv, NEW h \in Hosts, NEW p \in Phones, RejectCall(h, p)
  PROVE  IInv'
<1>1. Taking(h, p) /\ Matched(h, p) # << >> /\ Matched(h, p).handler = "rejectCall" /\ Reject(h, p)
  BY DEF RejectCall, Runs
<1>2. Fits(Matched(h, p), Event(h).type, fxsState[p])
  BY <1>1, RowFits DEF Matched
<1>. QED BY <1>1, <1>2, RejectKeeps DEF Fits

LEMMA ProcessKeeps ==
  ASSUME IInv, NEW h \in Hosts, Process(h)
  PROVE  IInv'
<1>1. CASE Unmatched(h)
  BY <1>1, UnmatchedKeeps
<1>2. ASSUME NEW p \in Phones, ProcessFor(h, p) PROVE IInv'
  <2>1. CASE HookOnCalling(h, p) \/ HookOnTalking(h, p) \/ HookOffBeCalled(h, p)
    BY <2>1, SendOnSessionKeeps
  <2>2. CASE DummyEventHandler(h, p) \/ HookFlashAny(h, p)
    BY <2>2, DummyKeeps
  <2>3. CASE DfmtEndDtmfStart(h, p)
    BY <2>3, DigitKeeps
  <2>4. CASE CallNumber(h, p)
    BY <2>4, CallNumberKeeps
  <2>5. CASE CallNumberFails(h, p) \/ RunKeyAction(h, p)
    BY <2>5, NotConnectedKeeps
  <2>6. CASE BeCalledHookOn(h, p)
    BY <2>6, BeCalledKeeps
  <2>7. CASE RejectCall(h, p)
    BY <2>7, RejectCallKeeps
  <2>8. CASE CloseFd(h, p)
    BY <2>8, CloseFdKeeps
  <2>9. CASE CloseFdMisread(h, p)
    BY <2>9, MisreadKeeps
  <2>10. CASE ActionFails(h, p)
    BY <2>10, ActionFailsKeeps
  <2>. QED BY <1>2, <2>1, <2>2, <2>3, <2>4, <2>5, <2>6, <2>7, <2>8, <2>9, <2>10 DEF ProcessFor
<1>. QED BY <1>1, <1>2 DEF Process

LEMMA InitInv == Init => IInv
<1>. SUFFICES ASSUME Init PROVE IInv
  OBVIOUS
<1>1. /\ \A f \in Fds : wire[f] = << >> /\ DOMAIN wire[f] = {}
      /\ \A h \in Hosts : queue[h] = << >> /\ DOMAIN queue[h] = {}
      /\ \A p \in Phones : fxsState[p] = "HOOK_ON" /\ sessionFd[p] = NoFd
      /\ calls = << >> /\ Len(calls) = 0 /\ \A c \in 1 .. MaxCalls : answer[c] = << >>
      /\ active = {} /\ shut = {} /\ accepted = {}
  BY DEF Init
<1>2. TypeOK
  <2>1. << >> \in Seq(Events) /\ << >> \in Seq(Msgs) /\ << >> \in Seq({"CALL_ACCEPT", "CALL_REJECT"})
        /\ << >> \in Seq([src : Phones, dest : Numbers])
    OBVIOUS
  <2>2. /\ queue \in [Hosts -> Seq(Events)] /\ wire \in [Fds -> Seq(Msgs)]
        /\ answer \in [1 .. MaxCalls -> Seq({"CALL_ACCEPT", "CALL_REJECT"})]
    BY <2>1 DEF Init
  <2>3. calls \in Seq([src : Phones, dest : Numbers]) /\ Len(calls) <= MaxCalls
    BY <1>1, <2>1, BoundsAssumption
  <2>4. /\ hook \in [Phones -> {"on", "off"}] /\ acts \in [Phones -> Nat]
        /\ fxsState \in [Phones -> States] /\ sessionFd \in [Phones -> Fds \union {NoFd}]
        /\ destNumber \in [Phones -> Numbers] /\ number \in [Phones -> Dialled]
        /\ digitTimer \in [Phones -> BOOLEAN] /\ misread \in BOOLEAN
    BY ActsAssumption DEF Init, States, Numbers, Dialled
  <2>. QED BY <1>1, <2>2, <2>3, <2>4 DEF TypeOK
<1>3. SessionOwned /\ RingsForCaller
  BY <1>1 DEF SessionOwned, RingsForCaller
<1>4. WireAddressed /\ WireDirected /\ FirstOnWire
  BY <1>1 DEF WireAddressed, WireDirected, FirstOnWire
<1>5. QueueAddressed /\ QueueDirected /\ FirstInQueue
  BY <1>1 DEF QueueAddressed, QueueDirected, FirstInQueue
<1>6. \A c \in 1 .. MaxCalls : <<c, "caller">> \in Fds /\ <<c, "callee">> \in Fds
  BY DEF Fds
<1>7. HandledBefore
  BY <1>1, <1>6 DEF HandledBefore, OnWire, InQueue
<1>8. UnheardOf
  BY <1>1, <1>6 DEF UnheardOf, FromFd
<1>9. OpenAndWatched
  BY <1>1 DEF OpenAndWatched, InQueue, Rings
<1>10. AnsweredOnce
  BY <1>1 DEF AnsweredOnce
<1>. QED BY <1>2, <1>3, <1>4, <1>5, <1>7, <1>8, <1>9, <1>10 DEF IInv

LEMMA StutterKeeps == IInv /\ UNCHANGED vars => IInv'
<1>. SUFFICES ASSUME IInv, UNCHANGED vars PROVE IInv'
  OBVIOUS
<1>1. /\ UNCHANGED <<hook, acts, fxsState, sessionFd, destNumber, number, digitTimer, queue, calls,
                     accepted, active, shut, wire, misread, answer>>
  BY DEF vars, phoneVars, endptVars, netVars
<1>2. queue' \in [Hosts -> Seq(Events)] /\ Shifted(Nowhere)
  BY <1>1, SameShifts DEF IInv
<1>3. TypeOK'
  BY <1>1 DEF IInv, TypeOK, MadeFds
<1>4. RingingKept /\ NotClosed
  BY <1>1 DEF RingingKept, NotClosed
<1>. QED BY <1>1, <1>2, <1>3, <1>4, QuietKeeps

(* The inductive invariant: the announcement of a call goes first through  *)
(* wire, queue and ringing, and until the answer nothing else is heard of  *)
(* the call and neither of its sockets is shut.                            *)
THEOREM Invariance == Spec => []IInv
<1>1. Init => IInv
  BY InitInv
<1>2. IInv /\ [Next]_vars => IInv'
  <2>. SUFFICES ASSUME IInv, [Next]_vars PROVE IInv'
    OBVIOUS
  <2>1. CASE User
    BY <2>1, UserKeeps
  <2>2. CASE Listener
    <3>1. ASSUME NEW c \in 1 .. Len(calls), Accept(c) PROVE IInv'
      BY <3>1, AcceptKeeps
    <3>2. ASSUME NEW f \in MadeFds, ReadCallMsg(f) \/ ReadClosed(f) PROVE IInv'
      BY <3>2, ReadKeeps, ReadClosedKeeps
    <3>. QED BY <2>2, <3>1, <3>2 DEF Listener
  <2>3. ASSUME NEW p \in Phones, DigitTimeout(p) PROVE IInv'
    BY <2>3, TimeoutKeeps
  <2>4. ASSUME NEW h \in Hosts, Process(h) PROVE IInv'
    BY <2>4, ProcessKeeps
  <2>5. CASE UNCHANGED vars
    BY <2>5, StutterKeeps
  <2>. QED BY <2>1, <2>2, <2>3, <2>4, <2>5 DEF Next
<1>. QED BY <1>1, <1>2, PTL DEF Spec

(* All the variables of the state machine keep their types.                *)
THEOREM TypeCorrect == Spec => []TypeOK
<1>1. IInv => TypeOK
  BY DEF IInv
<1>. QED BY <1>1, Invariance, PTL

(* sessionFd is the telephone's own end of a connection and destNumber the *)
(* number at the other end, whatever happens to the calls in between.      *)
THEOREM SessionsOwned == Spec => []SessionOwned
<1>1. IInv => SessionOwned
  BY DEF IInv
<1>. QED BY <1>1, Invariance, PTL

(* Every message on a connection and every call event made of one carries  *)
(* the numbers of the two telephones that talk over that connection.       *)
THEOREM MessagesAddressed == Spec => []AddressedToOwner
<1>1. IInv => AddressedToOwner
  BY DEF IInv, WireAddressed, QueueAddressed, IsCall, AddressedToOwner
<1>. QED BY <1>1, Invariance, PTL

(* rejectCall and hookOffBeCalled never both answer one call.              *)
THEOREM AnsweredAtMostOnce == Spec => []AnsweredOnce
<1>1. IInv => AnsweredOnce
  BY DEF IInv
<1>. QED BY <1>1, Invariance, PTL

(* As long as no descriptor was misread, the listener has the socket of a  *)
(* call that rings in its table, and both its ends are open.               *)
THEOREM RingingWatched == Spec => []RingingIsWatched
<1>1. IInv => RingingIsWatched
  <2>. SUFFICES ASSUME IInv, NEW p \in Phones, fxsState[p] = "BE_CALLED", ~ misread
                PROVE  /\ sessionFd[p] \in active
                       /\ sessionFd[p] \notin shut /\ Peer(sessionFd[p]) \notin shut
    BY DEF RingingIsWatched
  <2>1. sessionFd[p] \in Fds /\ sessionFd[p][2] = "callee"
    BY DEF IInv, RingsForCaller, SessionOwned, MadeFds
  <2>2. PICK c \in 1 .. MaxCalls : sessionFd[p] = <<c, "callee">>
    BY <2>1 DEF Fds
  <2>3. Peer(sessionFd[p]) = <<c, "caller">>
    BY <2>2 DEF Peer
  <2>4. Rings(c) /\ Young(c)
    BY <2>2 DEF Rings, Young
  <2>. QED BY <2>2, <2>3, <2>4 DEF IInv, OpenAndWatched
<1>. QED BY <1>1, Invariance, PTL
=============================================================================
