---------------------------- MODULE VtTimerProofs ----------------------------
(***************************************************************************)
(* Theorems about VtTimer for any number of telephones, any pause and any  *)
(* length of time: timer ids, the bond between an endpoint and its timer,  *)
(* and the pause before a dialling ends.                                   *)
(***************************************************************************)
EXTENDS VtTimer, SequenceTheorems, WellFoundedInduction, TLAPS

(* Each live timer is due Timeout after the last digit of its endpoint.    *)
DueAfterPause ==
  \A i \in Positions :
    timers[i].live => timers[i].finalTime = lastDigit[timers[i].data] + Timeout

NodesOK ==
  /\ timers \in Seq(Node)
  /\ now \in Nat /\ nowTime \in Nat /\ cur \in Nat \ {0}
  /\ event \in Endpoints \union {"none"}
  /\ pc = "handle" => event \in Endpoints
  /\ digitTimerId \in [Endpoints -> Int]
  /\ lastDigit \in [Endpoints -> Nat]

IInv == NodesOK /\ IdsIncrease /\ OwnTimer /\ DueAfterPause

-----------------------------------------------------------------------------
(* A nonempty set of naturals has a least element.                         *)
LEMMA LeastNumber ==
  ASSUME NEW T, T \subseteq Nat, T # {}
  PROVE  \E x \in T : \A y \in T : x <= y
<1>1. PICK x \in T : \A y \in T : ~ (<<y, x>> \in OpToRel(<, Nat))
  BY WFMin, NatLessThanWellFounded, Zenon
<1>2. ASSUME NEW y \in T
      PROVE  x <= y
  <2>1. ~ (<<y, x>> \in {ss \in Nat \X Nat : ss[1] < ss[2]})
    BY <1>1, Zenon DEF OpToRel
  <2>2. x \in Nat /\ y \in Nat
    OBVIOUS
  <2>3. QED
    BY <2>1, <2>2
<1>3. QED
  BY <1>2

(* What the list holds, position by position.                              *)
LEMMA NodesTyped ==
  ASSUME IInv, NEW i \in Positions
  PROVE  /\ timers[i] \in Node
         /\ i \in Nat \ {0} /\ i <= Len(timers)
         /\ timers[i].id \in Nat /\ timers[i].finalTime \in Nat
         /\ timers[i].data \in Endpoints /\ timers[i].live \in BOOLEAN
<1>1. timers[i] \in Node
  BY DEF IInv, NodesOK, Positions
<1>2. i \in Nat \ {0} /\ i <= Len(timers)
  BY DEF IInv, NodesOK, Positions
<1>3. QED
  BY <1>1, <1>2 DEF Node

(* insertNewTimer's walk stops at a node of the list: it is the last one,  *)
(* or leaves a gap in the ids before the next one.                         *)
LEMMA RunEnds ==
  ASSUME IInv, timers # << >>
  PROVE  /\ RunOfIds \in Positions
         /\ RunOfIds = Len(timers) \/ timers[RunOfIds].id # timers[RunOfIds + 1].id - 1
<1>. DEFINE Stops == {p \in Positions :
                        p = Len(timers) \/ timers[p].id # timers[p + 1].id - 1}
<1>1. Len(timers) \in Stops /\ Stops \subseteq Nat
  BY DEF IInv, NodesOK, Positions
<1>2. PICK p \in Stops : \A q \in Stops : p <= q
  BY <1>1, LeastNumber
<1>3. \A i \in 1 .. p - 1 : timers[i].id = timers[i + 1].id - 1
  BY <1>1, <1>2 DEF IInv, NodesOK, Positions
<1>4. QED
  BY <1>2, <1>3 DEF RunOfIds

-----------------------------------------------------------------------------
LEMMA InitHolds == Init => IInv
<1>. SUFFICES ASSUME Init PROVE IInv
  OBVIOUS
<1>1. timers = << >> /\ Positions = {}
  BY DEF Init, Positions
<1>2. NodesOK
  BY <1>1 DEF Init, NodesOK
<1>3. IdsIncrease /\ OwnTimer /\ DueAfterPause
  BY <1>1 DEF Init, IdsIncrease, OwnTimer, DueAfterPause
<1>4. QED
  BY <1>2, <1>3 DEF IInv

(* Steps that leave the list, the ids of the endpoints and their last      *)
(* digits alone.                                                           *)
LEMMA QuietStep ==
  ASSUME IInv, UNCHANGED <<timers, digitTimerId, lastDigit>>,
         now' \in Nat, nowTime' \in Nat, cur' \in Nat \ {0},
         event' \in Endpoints \union {"none"},
         pc' = "handle" => event' \in Endpoints
  PROVE  IInv'
<1>1. NodesOK'
  BY DEF IInv, NodesOK
<1>2. IdsIncrease' /\ OwnTimer' /\ DueAfterPause'
  BY DEF IInv, IdsIncrease, OwnTimer, DueAfterPause, Positions
<1>3. QED
  BY <1>1, <1>2 DEF IInv

(* No two live timers carry the same endpoint.                             *)
LEMMA OneTimerEach ==
  ASSUME IInv, NEW i \in Positions, NEW j \in Positions,
         timers[i].live, timers[j].live, timers[i].data = timers[j].data
  PROVE  i = j
<1>1. timers[i].id = timers[j].id
  BY DEF IInv, OwnTimer
<1>2. i \in Nat /\ j \in Nat /\ timers[i].id \in Nat /\ timers[j].id \in Nat
  BY NodesTyped
<1>3. QED
  BY <1>1, <1>2 DEF IInv, IdsIncrease

(* The head is run: it is unlinked and its endpoint forgets it.            *)
LEMMA HeadRemoved ==
  ASSUME IInv, NotifyHead
  PROVE  IInv'
<1>. DEFINE d == timers[1].data
<1>1. /\ timers # << >> /\ 1 \in Positions /\ timers[1].live
      /\ timers' = Tail(timers)
      /\ digitTimerId' = [digitTimerId EXCEPT ![d] = -1]
  BY DEF NotifyHead, AtLiveNode, RunHandler, Positions
<1>2. /\ Len(timers) \in Nat \ {0} /\ d \in Endpoints
      /\ \A i \in Positions : timers[i] \in Node
  <2>1. Len(timers) \in Nat \ {0}
    BY <1>1 DEF IInv, NodesOK
  <2>2. QED
    BY <1>1, <2>1, NodesTyped
<1>3. /\ timers' \in Seq(Node)
      /\ Len(timers') = Len(timers) - 1
      /\ \A i \in 1 .. Len(timers) - 1 : timers'[i] = timers[i + 1]
  BY <1>1, <1>2 DEF IInv, NodesOK
<1>4. Positions' = 1 .. Len(timers) - 1
  BY <1>3 DEF Positions
<1>5. NodesOK'
  BY <1>1, <1>2, <1>3 DEF IInv, NodesOK, NotifyHead, AtLiveNode, received
<1>6. IdsIncrease'
  BY <1>2, <1>3, <1>4 DEF IInv, IdsIncrease, Positions
<1>7. OwnTimer'
  <2>1. ASSUME NEW e \in Endpoints, digitTimerId'[e] # -1
        PROVE  \E i \in Positions' : timers'[i].live /\ timers'[i].id = digitTimerId'[e]
                                     /\ timers'[i].data = e
    <3>1. e # d /\ digitTimerId'[e] = digitTimerId[e]
      BY <1>1, <1>2, <2>1 DEF IInv, NodesOK
    <3>2. PICK i \in Positions : timers[i].live /\ timers[i].id = digitTimerId[e]
                                 /\ timers[i].data = e
      BY <2>1, <3>1 DEF IInv, OwnTimer
    <3>3. i - 1 \in Positions' /\ timers'[i - 1] = timers[i]
      BY <1>2, <1>3, <1>4, <3>1, <3>2 DEF Positions
    <3>4. QED
      BY <3>1, <3>2, <3>3
  <2>2. ASSUME NEW i \in Positions', timers'[i].live
        PROVE  digitTimerId'[timers'[i].data] = timers'[i].id
    <3>1. i + 1 \in Positions /\ i + 1 # 1 /\ timers'[i] = timers[i + 1]
      BY <1>2, <1>3, <1>4 DEF Positions
    <3>2. timers[i + 1].data # d
      BY <1>1, <2>2, <3>1, OneTimerEach
    <3>3. timers[i + 1].data \in Endpoints
      BY <1>2, <3>1 DEF Node
    <3>4. digitTimerId'[timers[i + 1].data] = digitTimerId[timers[i + 1].data]
      BY <1>1, <3>2, <3>3 DEF IInv, NodesOK
    <3>5. QED
      BY <2>2, <3>1, <3>4 DEF IInv, OwnTimer
  <2>3. QED
    BY <2>1, <2>2 DEF OwnTimer
<1>8. DueAfterPause'
  BY <1>2, <1>3, <1>4 DEF IInv, DueAfterPause, Positions, NotifyHead
<1>9. QED
  BY <1>5, <1>6, <1>7, <1>8 DEF IInv

(* A timer further down is run: its node is freed and stays linked.        *)
LEMMA InnerFreed ==
  ASSUME IInv, NotifyInner
  PROVE  IInv'
<1>. DEFINE d == timers[cur].data
<1>1. /\ cur \in Positions /\ timers[cur].live
      /\ timers' = [timers EXCEPT ![cur].live = FALSE]
      /\ digitTimerId' = [digitTimerId EXCEPT ![d] = -1]
  BY DEF NotifyInner, AtLiveNode, RunHandler
<1>2. d \in Endpoints
  BY <1>1, NodesTyped
<1>3. /\ timers' \in Seq(Node) /\ Positions' = Positions
      /\ \A i \in Positions : i # cur => timers'[i] = timers[i]
      /\ ~ timers'[cur].live /\ timers'[cur].id = timers[cur].id
  <2>1. timers[cur] \in Node
    BY <1>1, NodesTyped
  <2>2. /\ [timers[cur] EXCEPT !.live = FALSE] \in Node
        /\ ~ [timers[cur] EXCEPT !.live = FALSE].live
        /\ [timers[cur] EXCEPT !.live = FALSE].id = timers[cur].id
    BY <2>1 DEF Node
  <2>3. timers' = [timers EXCEPT ![cur] = [timers[cur] EXCEPT !.live = FALSE]]
    BY <1>1
  <2>4. timers \in Seq(Node) /\ cur \in 1 .. Len(timers)
    BY <1>1 DEF IInv, NodesOK, Positions
  <2>5. timers' \in Seq(Node) /\ Len(timers') = Len(timers)
    BY <2>2, <2>3, <2>4
  <2>6. \A i \in Positions : i # cur => timers'[i] = timers[i]
    BY <2>3, <2>4 DEF Positions
  <2>7. ~ timers'[cur].live /\ timers'[cur].id = timers[cur].id
    BY <2>2, <2>3, <2>4
  <2>8. QED
    BY <2>5, <2>6, <2>7 DEF Positions
<1>4. NodesOK'
  BY <1>1, <1>2, <1>3 DEF IInv, NodesOK, NotifyInner, AtLiveNode, received
<1>5. IdsIncrease'
  BY <1>3 DEF IInv, IdsIncrease
<1>6. OwnTimer'
  <2>1. ASSUME NEW e \in Endpoints, digitTimerId'[e] # -1
        PROVE  \E i \in Positions' : timers'[i].live /\ timers'[i].id = digitTimerId'[e]
                                     /\ timers'[i].data = e
    <3>1. e # d /\ digitTimerId'[e] = digitTimerId[e]
      BY <1>1, <1>2, <2>1 DEF IInv, NodesOK
    <3>2. PICK i \in Positions : timers[i].live /\ timers[i].id = digitTimerId[e]
                                 /\ timers[i].data = e
      BY <2>1, <3>1 DEF IInv, OwnTimer
    <3>3. QED
      BY <1>3, <3>1, <3>2
  <2>2. ASSUME NEW i \in Positions', timers'[i].live
        PROVE  digitTimerId'[timers'[i].data] = timers'[i].id
    <3>1. i \in Positions /\ i # cur /\ timers'[i] = timers[i]
      BY <1>3, <2>2
    <3>2. timers[i].data # d /\ timers[i].data \in Endpoints
      BY <1>1, <1>2, <2>2, <3>1, OneTimerEach, NodesTyped
    <3>3. QED
      BY <1>1, <2>2, <3>1, <3>2 DEF IInv, OwnTimer, NodesOK
  <2>3. QED
    BY <2>1, <2>2 DEF OwnTimer
<1>7. DueAfterPause'
  BY <1>3 DEF IInv, DueAfterPause, NotifyInner
<1>8. QED
  BY <1>4, <1>5, <1>6, <1>7 DEF IInv

(* A digit of an endpoint that has no timer: the new node carries the one  *)
(* id of the run's last node plus one, which the gap after it leaves free. *)
LEMMA TimerRegistered ==
  ASSUME IInv, HandleDigit, digitTimerId[event] < 0
  PROVE  IInv' /\ digitTimerId'[event] # -1
<1>. DEFINE node == [id |-> NewId, finalTime |-> now + Timeout,
                     data |-> event, live |-> TRUE]
            L == Len(timers)
<1>1. /\ event \in Endpoints /\ L \in Nat /\ now + Timeout \in Nat
      /\ digitTimerId' = [digitTimerId EXCEPT ![event] = NewId]
      /\ lastDigit' = [lastDigit EXCEPT ![event] = now]
  BY TimeoutAssumption DEF IInv, NodesOK, HandleDigit, AtDigit, RegisterTimer
<1>2. PICK p \in 0 .. L :
        /\ timers = << >> => p = 0 /\ NewId = 0
        /\ timers # << >> => /\ p \in Positions /\ NewId = timers[p].id + 1
                             /\ p = L \/ timers[p].id # timers[p + 1].id - 1
                             /\ p = RunOfIds
  <2>1. CASE timers = << >>
    BY <1>1, <2>1 DEF NewId
  <2>2. CASE timers # << >>
    BY <1>1, <2>2, RunEnds DEF NewId, Positions
  <2>3. QED
    BY <2>1, <2>2
<1>3. NewId \in Nat
  <2>1. CASE timers = << >>
    BY <1>2, <2>1
  <2>2. CASE timers # << >>
    BY <1>2, <2>2, NodesTyped
  <2>3. QED
    BY <2>1, <2>2
<1>4. /\ node \in Node
      /\ node.id = NewId /\ node.finalTime = now + Timeout /\ node.data = event /\ node.live
  BY <1>1, <1>3 DEF Node
<1>5. /\ DOMAIN timers' = 1 .. L + 1
      /\ timers' = [i \in DOMAIN timers' |-> timers'[i]]
      /\ \A i \in 1 .. L + 1 :
           timers'[i] = IF i <= p THEN timers[i] ELSE IF i = p + 1 THEN node ELSE timers[i - 1]
  <2>1. CASE timers = << >>
    BY <1>1, <1>2, <2>1 DEF HandleDigit, RegisterTimer
  <2>2. CASE timers # << >>
    BY <1>2, <2>2 DEF HandleDigit, RegisterTimer, InsertAfter
  <2>3. QED
    BY <2>1, <2>2
<1>. HIDE DEF node
<1>. DEFINE old(i) == IF i <= p THEN i ELSE i - 1
            new(i) == IF i <= p THEN i ELSE i + 1
<1>6. \A i \in Positions : timers[i] \in Node
  BY NodesTyped
<1>7. timers' \in Seq(Node) /\ Len(timers') = L + 1 /\ Positions' = 1 .. L + 1
  <2>1. ASSUME NEW i \in 1 .. L + 1
        PROVE  timers'[i] \in Node
    <3>1. CASE i <= p
      BY <1>1, <1>2, <1>5, <1>6, <3>1 DEF Positions
    <3>2. CASE i = p + 1
      BY <1>1, <1>2, <1>4, <1>5, <3>2
    <3>3. CASE i > p + 1
      <4>1. i - 1 \in Positions /\ timers'[i] = timers[i - 1]
        BY <1>1, <1>2, <1>5, <3>3 DEF Positions
      <4>2. QED
        BY <1>6, <4>1
    <3>4. QED
      BY <1>1, <1>2, <3>1, <3>2, <3>3
  <2>2. timers' \in [1 .. L + 1 -> Node]
    BY <1>5, <2>1
  <2>3. timers' \in Seq(Node) /\ Len(timers') = L + 1
    BY <1>1, <2>2
  <2>4. QED
    BY <2>3 DEF Positions
<1>8. /\ p + 1 \in Positions' /\ timers'[p + 1] = node
      /\ \A i \in Positions' : i # p + 1 => old(i) \in Positions /\ timers'[i] = timers[old(i)]
      /\ \A i \in Positions : new(i) \in Positions' /\ timers'[new(i)] = timers[i]
  <2>1. p + 1 \in Positions' /\ timers'[p + 1] = node
    BY <1>1, <1>2, <1>5, <1>7
  <2>2. ASSUME NEW i \in Positions', i # p + 1
        PROVE  old(i) \in Positions /\ timers'[i] = timers[old(i)]
    <3>1. CASE i <= p
      BY <1>1, <1>2, <1>5, <1>7, <3>1 DEF Positions
    <3>2. CASE i > p + 1
      BY <1>1, <1>2, <1>5, <1>7, <3>2 DEF Positions
    <3>3. QED
      BY <1>1, <1>2, <1>7, <2>2, <3>1, <3>2
  <2>3. ASSUME NEW i \in Positions
        PROVE  new(i) \in Positions' /\ timers'[new(i)] = timers[i]
    <3>1. CASE i <= p
      BY <1>1, <1>2, <1>5, <1>7, <3>1 DEF Positions
    <3>2. CASE i > p
      BY <1>1, <1>2, <1>5, <1>7, <3>2 DEF Positions
    <3>3. QED
      BY <1>1, <1>2, <3>1, <3>2 DEF Positions
  <2>4. QED
    BY <2>1, <2>2, <2>3
<1>9. NodesOK'
  BY <1>1, <1>3, <1>7 DEF IInv, NodesOK, HandleDigit, AtDigit, EventHandled
<1>10. \A i \in Positions : timers[i].live => timers[i].data # event
  BY <1>1, NodesTyped DEF IInv, OwnTimer
<1>11. IdsIncrease'
  <2>1. ASSUME NEW i \in Positions, i <= p
        PROVE  timers[i].id < NewId
    <3>1. p \in Positions /\ NewId = timers[p].id + 1
      BY <1>2, <2>1, NodesTyped DEF Positions
    <3>2. timers[i].id <= timers[p].id
      BY <2>1, <3>1, NodesTyped DEF IInv, IdsIncrease
    <3>3. QED
      BY <3>1, <3>2, NodesTyped
  <2>2. ASSUME NEW i \in Positions, i > p
        PROVE  NewId < timers[i].id
    <3>1. /\ timers # << >> /\ p \in Positions /\ p + 1 \in Positions
          /\ NewId = timers[p].id + 1 /\ timers[p].id # timers[p + 1].id - 1
      BY <1>1, <1>2, <2>2, NodesTyped DEF Positions
    <3>2. timers[p].id < timers[p + 1].id
      BY <3>1, NodesTyped DEF IInv, IdsIncrease
    <3>3. timers[p + 1].id <= timers[i].id
      <4>1. p + 1 = i \/ p + 1 < i
        BY <2>2, <1>2, NodesTyped
      <4>2. QED
        BY <3>1, <4>1, NodesTyped DEF IInv, IdsIncrease
    <3>4. QED
      BY <3>1, <3>2, <3>3, NodesTyped
  <2>3. ASSUME NEW i \in Positions', NEW j \in Positions', i < j
        PROVE  timers'[i].id < timers'[j].id
    <3>1. i \in Nat /\ j \in Nat /\ p \in Nat /\ node.id = NewId
      BY <1>1, <1>2, <1>4, <1>7
    <3>2. CASE i = p + 1
      <4>. j # p + 1 /\ old(j) > p
        BY <2>3, <3>1, <3>2
      <4>1. j # p + 1 /\ old(j) \in Positions /\ old(j) > p /\ timers'[j] = timers[old(j)]
        BY <1>8, <2>3, <3>1, <3>2
      <4>2. QED
        BY <1>8, <2>2, <3>1, <3>2, <4>1
    <3>3. CASE j = p + 1
      <4>1. i # p + 1 /\ old(i) \in Positions /\ old(i) <= p /\ timers'[i] = timers[old(i)]
        BY <1>8, <2>3, <3>1, <3>3
      <4>2. QED
        BY <1>8, <2>1, <3>1, <3>3, <4>1
    <3>4. CASE i # p + 1 /\ j # p + 1
      <4>1. old(i) < old(j)
        BY <2>3, <3>1, <3>4
      <4>2. QED
        BY <1>8, <3>4, <4>1 DEF IInv, IdsIncrease
    <3>5. QED
      BY <3>2, <3>3, <3>4
  <2>4. QED
    BY <2>3 DEF IdsIncrease
<1>12. OwnTimer'
  <2>1. ASSUME NEW e \in Endpoints, digitTimerId'[e] # -1
        PROVE  \E i \in Positions' : timers'[i].live /\ timers'[i].id = digitTimerId'[e]
                                     /\ timers'[i].data = e
    <3>1. CASE e = event
      <4>1. digitTimerId'[e] = NewId
        BY <1>1, <3>1 DEF IInv, NodesOK
      <4>2. QED
        BY <1>4, <1>8, <3>1, <4>1
    <3>2. CASE e # event
      <4>1. digitTimerId'[e] = digitTimerId[e]
        BY <1>1, <3>2 DEF IInv, NodesOK
      <4>2. PICK i \in Positions : timers[i].live /\ timers[i].id = digitTimerId[e]
                                   /\ timers[i].data = e
        BY <2>1, <4>1 DEF IInv, OwnTimer
      <4>3. QED
        BY <1>8, <4>1, <4>2
    <3>3. QED
      BY <3>1, <3>2
  <2>2. ASSUME NEW i \in Positions', timers'[i].live
        PROVE  digitTimerId'[timers'[i].data] = timers'[i].id
    <3>1. CASE i = p + 1
      BY <1>1, <1>4, <1>8, <3>1 DEF IInv, NodesOK
    <3>2. CASE i # p + 1
      <4>1. PICK j \in Positions : timers'[i] = timers[j]
        BY <1>8, <3>2
      <4>2. timers[j].data # event /\ timers[j].data \in Endpoints
        BY <1>10, <2>2, <4>1, NodesTyped
      <4>3. QED
        BY <1>1, <2>2, <4>1, <4>2 DEF IInv, NodesOK, OwnTimer
    <3>3. QED
      BY <3>1, <3>2
  <2>3. QED
    BY <2>1, <2>2 DEF OwnTimer
<1>13. DueAfterPause'
  <2>1. ASSUME NEW i \in Positions', timers'[i].live
        PROVE  timers'[i].finalTime = lastDigit'[timers'[i].data] + Timeout
    <3>1. CASE i = p + 1
      BY <1>1, <1>4, <1>8, <3>1 DEF IInv, NodesOK
    <3>2. CASE i # p + 1
      <4>1. PICK j \in Positions : timers'[i] = timers[j]
        BY <1>8, <3>2
      <4>2. timers[j].data # event /\ timers[j].data \in Endpoints
        BY <1>10, <2>1, <4>1, NodesTyped
      <4>3. QED
        BY <1>1, <2>1, <4>1, <4>2 DEF IInv, NodesOK, DueAfterPause
    <3>3. QED
      BY <3>1, <3>2
  <2>2. QED
    BY <2>1 DEF DueAfterPause
<1>14. QED
  BY <1>1, <1>3, <1>9, <1>11, <1>12, <1>13 DEF IInv, NodesOK

(* A digit of an endpoint that has one: its deadline moves.                *)
LEMMA TimerRestarted ==
  ASSUME IInv, HandleDigit, ~ (digitTimerId[event] < 0)
  PROVE  IInv' /\ digitTimerId'[event] # -1
<1>1. /\ event \in Endpoints /\ now + Timeout \in Nat
      /\ digitTimerId[event] \in Int /\ digitTimerId' = digitTimerId
      /\ lastDigit' = [lastDigit EXCEPT ![event] = now]
  BY TimeoutAssumption DEF IInv, NodesOK, HandleDigit, AtDigit, UpdateTimer
<1>2. PICK k \in Positions : timers[k].live /\ timers[k].id = digitTimerId[event]
                             /\ timers[k].data = event
  BY <1>1 DEF IInv, OwnTimer
<1>3. \A j \in Positions : j # k => timers[j].id # timers[k].id
  BY NodesTyped DEF IInv, IdsIncrease
<1>4. timers' = [i \in Positions |-> IF i = k THEN [timers[i] EXCEPT !.finalTime = now + Timeout]
                                     ELSE timers[i]]
  <2>1. ASSUME NEW i \in Positions
        PROVE  (/\ timers[i].id = digitTimerId[event]
                /\ \A j \in 1 .. i - 1 : timers[j].id # digitTimerId[event]) <=> i = k
    <3>1. \A j \in 1 .. i - 1 : j \in Positions /\ j # i
      BY NodesTyped DEF IInv, NodesOK, Positions
    <3>2. QED
      BY <1>2, <1>3, <3>1
  <2>2. QED
    BY <1>1, <2>1 DEF HandleDigit, UpdateTimer
<1>5. /\ \A i \in Positions : timers'[i] \in Node /\ timers'[i].id = timers[i].id
                              /\ timers'[i].live = timers[i].live
                              /\ timers'[i].data = timers[i].data
      /\ timers'[k].finalTime = now + Timeout
      /\ \A i \in Positions : i # k => timers'[i] = timers[i]
  <2>1. ASSUME NEW i \in Positions
        PROVE  [timers[i] EXCEPT !.finalTime = now + Timeout]
                 = [id |-> timers[i].id, finalTime |-> now + Timeout,
                    data |-> timers[i].data, live |-> timers[i].live]
    BY NodesTyped DEF Node
  <2>2. ASSUME NEW i \in Positions
        PROVE  [id |-> timers[i].id, finalTime |-> now + Timeout,
                data |-> timers[i].data, live |-> timers[i].live] \in Node
    BY <1>1, NodesTyped DEF Node
  <2>3. QED
    BY <1>4, <2>1, <2>2, NodesTyped
<1>6. timers' \in Seq(Node) /\ Positions' = Positions
  <2>1. Len(timers) \in Nat /\ timers' \in [1 .. Len(timers) -> Node]
    BY <1>4, <1>5 DEF IInv, NodesOK, Positions
  <2>2. timers' \in Seq(Node) /\ Len(timers') = Len(timers)
    BY <2>1
  <2>3. QED
    BY <2>2 DEF Positions
<1>7. NodesOK'
  BY <1>1, <1>6 DEF IInv, NodesOK, HandleDigit, AtDigit, EventHandled
<1>8. IdsIncrease' /\ OwnTimer'
  BY <1>1, <1>5, <1>6 DEF IInv, IdsIncrease, OwnTimer
<1>9. DueAfterPause'
  <2>1. ASSUME NEW i \in Positions, timers[i].live
        PROVE  timers'[i].finalTime = lastDigit'[timers[i].data] + Timeout
    <3>1. CASE i = k
      BY <1>1, <1>2, <1>5, <3>1 DEF IInv, NodesOK
    <3>2. CASE i # k
      <4>1. timers[i].data # event /\ timers[i].data \in Endpoints
        BY <1>2, <2>1, <3>2, OneTimerEach, NodesTyped
      <4>2. QED
        BY <1>1, <1>5, <2>1, <3>2, <4>1 DEF IInv, NodesOK, DueAfterPause
    <3>3. QED
      BY <3>1, <3>2
  <2>2. QED
    BY <1>5, <1>6, <2>1 DEF DueAfterPause
<1>10. QED
  BY <1>1, <1>2, <1>7, <1>8, <1>9, NodesTyped DEF IInv

-----------------------------------------------------------------------------
LEMMA StepPreserves == IInv /\ [Next]_vars => IInv'
<1>. SUFFICES ASSUME IInv, [Next]_vars PROVE IInv'
  OBVIOUS
<1>1. CASE Tick
  BY <1>1, QuietStep DEF Tick, received, endptsStatus, IInv, NodesOK
<1>2. CASE GetLatestTimer
  BY <1>2, QuietStep DEF GetLatestTimer, received, endptsStatus, IInv, NodesOK
<1>3. ASSUME NEW e \in Endpoints, GetDigit(e) PROVE IInv'
  BY <1>3, QuietStep DEF GetDigit, received, endptsStatus, IInv, NodesOK
<1>4. CASE GetOtherEvent
  BY <1>4, QuietStep DEF GetOtherEvent, received, endptsStatus, IInv, NodesOK
<1>5. CASE WaitTimesOut
  BY <1>5, QuietStep DEF WaitTimesOut, received, endptsStatus, IInv, NodesOK
<1>6. CASE NotifyBegin
  BY <1>6, QuietStep DEF NotifyBegin, received, endptsStatus, IInv, NodesOK
<1>7. CASE NotifyHead
  BY <1>7, HeadRemoved
<1>8. CASE NotifyInner
  BY <1>8, InnerFreed
<1>9. CASE NotifySkip
  BY <1>9, QuietStep DEF NotifySkip, received, endptsStatus, AtLiveNode, IInv, NodesOK
<1>10. CASE NotifyFreedNode
  BY <1>10, QuietStep DEF NotifyFreedNode, received, endptsStatus, IInv, NodesOK
<1>11. CASE NotifyEnd
  BY <1>11, QuietStep DEF NotifyEnd, received, endptsStatus, IInv, NodesOK
<1>12. CASE HandleStart \/ RefuseDigit
  BY <1>12, QuietStep DEF HandleStart, RefuseDigit, EventHandled, endptsStatus, IInv, NodesOK
<1>13. CASE HandleDigit
  BY <1>13, TimerRegistered, TimerRestarted
<1>14. CASE UNCHANGED vars
  BY <1>14, QuietStep DEF vars, received, endptsStatus, IInv, NodesOK
<1>15. QED
  BY <1>1, <1>2, <1>3, <1>4, <1>5, <1>6, <1>7, <1>8, <1>9, <1>10, <1>11, <1>12, <1>13, <1>14
     DEF Next, Processor, Notify, Handle

THEOREM Invariance == Spec => []IInv
<1>1. QED
  BY InitHolds, StepPreserves, PTL DEF Spec

(* insertNewTimer gives every timer an id of its own, however timers are   *)
(* registered, restarted and run.                                          *)
THEOREM UniqueIds == Spec => []IdsIncrease
<1>1. IInv => IdsIncrease
  BY DEF IInv
<1>2. QED
  BY <1>1, Invariance, PTL

(* digitTimerId and the endpoint's timer always agree.                     *)
THEOREM TimersOwned == Spec => []OwnTimer
<1>1. IInv => OwnTimer
  BY DEF IInv
<1>2. QED
  BY <1>1, Invariance, PTL

(* A run of the handler is Timeout or more after the last digit that was   *)
(* taken; a digit too many, which dfmtEndDtmfStart refuses, moves no       *)
(* deadline.                                                               *)
THEOREM PauseKept == Spec => RunsAfterPause
<1>. DEFINE Kept == \A e \in Endpoints :
       digitTimerId[e] # -1 /\ digitTimerId'[e] = -1 => nowTime >= lastDigit[e] + Timeout
<1>1. ASSUME IInv, [Next]_vars PROVE Kept
  <2>1. CASE UNCHANGED digitTimerId
    BY <2>1
  <2>2. CASE AtLiveNode /\ Due(cur) /\ RunHandler
    <3>1. SUFFICES ASSUME NEW e \in Endpoints, digitTimerId[e] # -1, digitTimerId'[e] = -1
                   PROVE  nowTime >= lastDigit[e] + Timeout
      OBVIOUS
    <3>2. cur \in Positions /\ timers[cur].live /\ nowTime >= timers[cur].finalTime
      BY <2>2 DEF AtLiveNode, Due
    <3>3. e = timers[cur].data
      BY <2>2, <3>1, <3>2, NodesTyped, <1>1 DEF RunHandler, IInv, NodesOK
    <3>4. timers[cur].finalTime = lastDigit[e] + Timeout
      BY <1>1, <3>2, <3>3 DEF IInv, DueAfterPause
    <3>5. QED
      BY <3>2, <3>4
  <2>3. CASE HandleDigit
    <3>1. event \in Endpoints /\ digitTimerId'[event] # -1
      BY <1>1, <2>3, TimerRegistered, TimerRestarted DEF HandleDigit, AtDigit, IInv, NodesOK
    <3>2. \A e \in Endpoints : e # event => digitTimerId'[e] = digitTimerId[e]
      BY <1>1, <2>3 DEF HandleDigit, AtDigit, RegisterTimer, UpdateTimer, IInv, NodesOK
    <3>3. QED
      BY <3>1, <3>2
  <2>4. QED
    BY <1>1, <2>1, <2>2, <2>3
       DEF Next, Processor, Notify, Handle, vars, endptsStatus, Tick, GetLatestTimer, GetDigit,
           GetOtherEvent, WaitTimesOut, NotifyBegin, NotifyHead, NotifyInner, NotifySkip,
           NotifyFreedNode, NotifyEnd, HandleStart, RefuseDigit
<1>2. IInv /\ [Next]_vars => [Kept]_vars
  BY <1>1
<1>3. QED
  BY <1>2, Invariance, PTL DEF Spec, RunsAfterPause


-----------------------------------------------------------------------------
(* Induction over the naturals, by sets: the numbers outside T would have  *)
(* a least one.                                                            *)
LEMMA NumbersByInduction ==
  ASSUME NEW T, 0 \in T, \A n \in Nat : n \in T => n + 1 \in T
  PROVE  \A n \in Nat : n \in T
<1>. DEFINE Rest == {n \in Nat : n \notin T}
<1>1. SUFFICES ASSUME Rest # {} PROVE FALSE
  OBVIOUS
<1>2. PICK x \in Rest : \A y \in Rest : x <= y
  BY <1>1, LeastNumber
<1>3. x \in Nat /\ x # 0 /\ x - 1 \in Nat /\ (x - 1) + 1 = x
  BY <1>2
<1>4. x - 1 \in T
  BY <1>2, <1>3
<1>5. QED
  BY <1>2, <1>3, <1>4

(* The walk of vt_getLatestTimer, for the first n nodes.                   *)
WalkTo(walk, n) ==
  walk = [i \in 0 .. n |->
            IF i = 0 THEN 0
            ELSE IF timers[i].finalTime < walk[i - 1] \/ walk[i - 1] = 0
                 THEN timers[i].finalTime ELSE walk[i - 1]]

LEMMA WalkExists == \A n \in Nat : \E walk : WalkTo(walk, n)
<1>. DEFINE T == {n \in Nat : \E walk : WalkTo(walk, n)}
<1>1. 0 \in T
  <2>1. WalkTo([i \in 0 .. 0 |-> 0], 0)
    BY DEF WalkTo
  <2>2. QED
    BY <2>1
<1>2. ASSUME NEW n \in Nat, n \in T
      PROVE  n + 1 \in T
  <2>1. PICK w : WalkTo(w, n)
    BY <1>2
  <2>. DEFINE e == IF timers[n + 1].finalTime < w[n] \/ w[n] = 0
                   THEN timers[n + 1].finalTime ELSE w[n]
              v == [i \in 0 .. n + 1 |-> IF i <= n THEN w[i] ELSE e]
  <2>2. \A i \in 0 .. n : w[i] = IF i = 0 THEN 0
                                 ELSE IF timers[i].finalTime < w[i - 1] \/ w[i - 1] = 0
                                      THEN timers[i].finalTime ELSE w[i - 1]
    BY <2>1 DEF WalkTo
  <2>3. ASSUME NEW i \in 0 .. n + 1
        PROVE  v[i] = IF i = 0 THEN 0
                      ELSE IF timers[i].finalTime < v[i - 1] \/ v[i - 1] = 0
                           THEN timers[i].finalTime ELSE v[i - 1]
    <3>1. CASE i <= n
      <4>1. v[i] = w[i] /\ (i # 0 => v[i - 1] = w[i - 1])
        BY <3>1
      <4>2. QED
        BY <2>2, <3>1, <4>1
    <3>2. CASE i = n + 1
      <4>1. v[i] = e /\ v[i - 1] = w[n] /\ i # 0 /\ i - 1 = n
        BY <3>2
      <4>2. QED
        BY <3>2, <4>1
    <3>3. QED
      BY <3>1, <3>2
  <2>4. WalkTo(v, n + 1)
    BY <2>3 DEF WalkTo
  <2>5. QED
    BY <2>4
<1>. HIDE DEF T
<1>3. \A n \in Nat : n \in T
  BY <1>1, <1>2, NumbersByInduction
<1>4. QED
  BY <1>3 DEF T

(* Every deadline is past 0, which stands for none.                        *)
DeadlinesPositive == \A i \in Positions : timers[i].finalTime # 0

IsEarliest(t) ==
  IF timers = << >> THEN t = 0
  ELSE /\ t # 0
       /\ \A i \in Positions : t <= timers[i].finalTime
       /\ \E i \in Positions : t = timers[i].finalTime

(* vt_getLatestTimer finds the earliest deadline.                          *)
LEMMA LatestIsEarliest ==
  ASSUME NodesOK, DeadlinesPositive
  PROVE  LatestTimer \in Nat /\ IsEarliest(LatestTimer)
<1>. DEFINE L == Len(timers)
            walk == CHOOSE w : WalkTo(w, L)
            Upto(n) == IF n = 0 THEN walk[n] = 0
                       ELSE /\ walk[n] \in Nat \ {0}
                            /\ \A i \in 1 .. n : walk[n] <= timers[i].finalTime
                            /\ \E i \in 1 .. n : walk[n] = timers[i].finalTime
            T == {n \in Nat : n <= L => Upto(n)}
<1>1. L \in Nat /\ \A i \in 1 .. L : timers[i].finalTime \in Nat \ {0}
  <2>1. ASSUME NEW i \in 1 .. L
        PROVE  timers[i].finalTime \in Nat \ {0}
    <3>1. timers[i] \in Node /\ i \in Positions
      BY DEF NodesOK, Positions
    <3>2. QED
      BY <3>1 DEF DeadlinesPositive, Node
  <2>2. QED
    BY <2>1 DEF NodesOK
<1>2. WalkTo(walk, L)
  BY <1>1, WalkExists
<1>. HIDE DEF walk
<1>3. \A i \in 0 .. L : walk[i] = IF i = 0 THEN 0
                                  ELSE IF timers[i].finalTime < walk[i - 1] \/ walk[i - 1] = 0
                                       THEN timers[i].finalTime ELSE walk[i - 1]
  BY <1>2 DEF WalkTo
<1>4. 0 \in T
  BY <1>1, <1>3
<1>5. ASSUME NEW n \in Nat, n \in T
      PROVE  n + 1 \in T
  <2>1. SUFFICES ASSUME n + 1 <= L PROVE Upto(n + 1)
    OBVIOUS
  <2>2. n <= L /\ n + 1 \in 1 .. L /\ Upto(n)
    BY <1>1, <1>5, <2>1
  <2>3. walk[n + 1] = IF timers[n + 1].finalTime < walk[n] \/ walk[n] = 0
                      THEN timers[n + 1].finalTime ELSE walk[n]
    BY <1>3, <2>2
  <2>4. timers[n + 1].finalTime \in Nat \ {0}
    BY <1>1, <2>2
  <2>5. CASE n = 0
    BY <2>2, <2>3, <2>4, <2>5
  <2>6. CASE n # 0
    <3>1. /\ walk[n] \in Nat \ {0}
          /\ \A i \in 1 .. n : walk[n] <= timers[i].finalTime
          /\ \E i \in 1 .. n : walk[n] = timers[i].finalTime
      BY <2>2, <2>6
    <3>2. CASE timers[n + 1].finalTime < walk[n]
      <4>1. walk[n + 1] = timers[n + 1].finalTime
        BY <2>3, <3>2
      <4>2. \A i \in 1 .. n + 1 : walk[n + 1] <= timers[i].finalTime
        <5>1. ASSUME NEW i \in 1 .. n PROVE walk[n + 1] <= timers[i].finalTime
          BY <1>1, <2>2, <2>4, <3>1, <3>2, <4>1
        <5>2. QED
          BY <2>4, <4>1, <5>1
      <4>3. QED
        BY <2>2, <2>4, <4>1, <4>2
    <3>3. CASE ~ (timers[n + 1].finalTime < walk[n])
      <4>1. walk[n + 1] = walk[n]
        BY <2>3, <3>1, <3>3
      <4>2. walk[n] <= timers[n + 1].finalTime
        BY <2>4, <3>1, <3>3
      <4>3. \A i \in 1 .. n + 1 : walk[n + 1] <= timers[i].finalTime
        BY <3>1, <4>1, <4>2
      <4>4. QED
        BY <3>1, <4>1, <4>3
    <3>4. QED
      BY <3>2, <3>3
  <2>7. QED
    BY <2>5, <2>6
<1>. HIDE DEF T
<1>6. \A n \in Nat : n \in T
  BY <1>4, <1>5, NumbersByInduction
<1>7. Upto(L)
  BY <1>1, <1>6 DEF T
<1>8. LatestTimer = walk[L]
  BY DEF LatestTimer, walk, WalkTo
<1>9. timers = << >> <=> L = 0
  BY DEF NodesOK
<1>10. QED
  BY <1>1, <1>3, <1>7, <1>8, <1>9 DEF IsEarliest, Positions


-----------------------------------------------------------------------------
(* Sleeping and running.  What a walk has passed was not due; a node that  *)
(* was freed is where the walk stands, and ends it.                        *)
WalkedNotDue ==
  pc = "walk" => \A i \in Positions : i < cur => timers[i].finalTime > nowTime

Clocks == now \in Nat /\ nowTime \in Nat /\ nowTime <= now

SInv == IInv /\ DeadlinesPositive /\ Clocks /\ WalkedNotDue /\ SleepsUntilEarliest /\ NoneOverlooked

LEMMA SleepsByEarliest == SleepsUntilEarliest <=> (pc = "wait" => IsEarliest(latest))
  BY DEF SleepsUntilEarliest, IsEarliest

LEMMA SleepInit == Init => SInv
<1>. SUFFICES ASSUME Init PROVE SInv
  OBVIOUS
<1>1. timers = << >> /\ Positions = {}
  BY DEF Init, Positions
<1>2. DeadlinesPositive /\ Clocks /\ WalkedNotDue /\ SleepsUntilEarliest /\ NoneOverlooked
  BY <1>1 DEF Init, DeadlinesPositive, Clocks, WalkedNotDue, SleepsUntilEarliest, NoneOverlooked
<1>3. QED
  BY <1>2, InitHolds DEF SInv

(* Steps that leave the list alone and do not sleep or walk.               *)
LEMMA ListStays ==
  ASSUME SInv, UNCHANGED <<timers, nowTime>>, now' \in Nat, now' >= now,
         pc' = "walk" => pc = "walk" /\ cur' = cur,
         pc' = "wait" => pc = "wait" /\ latest' = latest,
         pc' \in {"loop", "wait", "handle"} =>
           \/ pc \in {"loop", "wait", "handle"}
           \/ pc = "walk" /\ cur \notin Positions
  PROVE  /\ DeadlinesPositive' /\ Clocks' /\ WalkedNotDue'
         /\ SleepsUntilEarliest' /\ NoneOverlooked'
<1>1. Positions' = Positions /\ DeadlinesPositive'
  BY DEF SInv, DeadlinesPositive, Positions
<1>2. Clocks'
  BY DEF SInv, Clocks
<1>3. WalkedNotDue'
  BY <1>1 DEF SInv, WalkedNotDue
<1>4. SleepsUntilEarliest'
  BY <1>1 DEF SInv, SleepsUntilEarliest
<1>5. NoneOverlooked'
  <2>1. SUFFICES ASSUME pc' \in {"loop", "wait", "handle"}, NEW i \in Positions
                 PROVE  timers[i].finalTime > nowTime
    BY <1>1 DEF NoneOverlooked
  <2>2. CASE pc \in {"loop", "wait", "handle"}
    BY <2>2 DEF SInv, NoneOverlooked
  <2>3. CASE pc = "walk" /\ cur \notin Positions
    <3>1. cur \in Nat \ {0} /\ Len(timers) \in Nat
      BY DEF SInv, IInv, NodesOK
    <3>2. i < cur
      BY <2>3, <3>1 DEF Positions
    <3>3. QED
      BY <2>3, <3>2 DEF SInv, WalkedNotDue
  <2>4. QED
    BY <2>1, <2>2, <2>3
<1>6. QED
  BY <1>1, <1>2, <1>3, <1>4, <1>5

(* A digit moves one deadline, or adds one, to Timeout from now.           *)
LEMMA DeadlinesAfterDigit ==
  ASSUME IInv, HandleDigit
  PROVE  \A i \in Positions' :
           \/ timers'[i].finalTime = now + Timeout
           \/ \E j \in Positions : timers'[i].finalTime = timers[j].finalTime
<1>. DEFINE node == [id |-> NewId, finalTime |-> now + Timeout, data |-> event, live |-> TRUE]
<1>0. Len(timers) \in Nat /\ \A i \in Positions : timers[i] \in Node
  BY NodesTyped DEF IInv, NodesOK
<1>1. CASE digitTimerId[event] < 0 /\ timers = << >>
  <2>1. timers' = <<node>>
    BY <1>1 DEF HandleDigit, RegisterTimer
  <2>2. QED
    BY <2>1 DEF Positions
<1>2. CASE digitTimerId[event] < 0 /\ timers # << >>
  <2>1. timers' = InsertAfter(RunOfIds, node)
    BY <1>2 DEF HandleDigit, RegisterTimer
  <2>2. RunOfIds \in Positions
    BY <1>2, RunEnds
  <2>3. PICK p \in Positions : p = RunOfIds
    BY <2>2
  <2>4. Positions' = 1 .. Len(timers) + 1
    <3>1. timers' = [i \in 1 .. Len(timers) + 1 |-> timers'[i]]
      BY <2>1 DEF InsertAfter
    <3>2. Len(timers') = Len(timers) + 1
      BY <1>0, <3>1
    <3>3. QED
      BY <3>2 DEF Positions
  <2>5. ASSUME NEW i \in 1 .. Len(timers) + 1
        PROVE  \/ timers'[i].finalTime = now + Timeout
               \/ \E j \in Positions : timers'[i].finalTime = timers[j].finalTime
    <3>1. timers'[i] = IF i <= p THEN timers[i] ELSE IF i = p + 1 THEN node ELSE timers[i - 1]
      BY <2>1, <2>3 DEF InsertAfter
    <3>2. CASE i <= p
      BY <1>0, <3>1, <3>2 DEF Positions
    <3>3. CASE i = p + 1
      BY <3>1, <3>3, <2>3 DEF Positions
    <3>4. CASE i > p + 1
      <4>1. i - 1 \in Positions /\ timers'[i] = timers[i - 1]
        BY <1>0, <3>1, <3>4 DEF Positions
      <4>2. QED
        BY <4>1
    <3>5. QED
      BY <1>0, <3>2, <3>3, <3>4 DEF Positions
  <2>6. QED
    BY <2>4, <2>5
<1>3. CASE ~ (digitTimerId[event] < 0)
  <2>1. timers' = [i \in Positions |->
                     IF /\ timers[i].id = digitTimerId[event]
                        /\ \A j \in 1 .. i - 1 : timers[j].id # digitTimerId[event]
                     THEN [timers[i] EXCEPT !.finalTime = now + Timeout]
                     ELSE timers[i]]
    BY <1>3 DEF HandleDigit, UpdateTimer
  <2>2. Positions' = Positions
    <3>1. timers' = [i \in 1 .. Len(timers) |-> timers'[i]]
      BY <2>1 DEF Positions
    <3>2. Len(timers') = Len(timers)
      BY <1>0, <3>1
    <3>3. QED
      BY <3>2 DEF Positions
  <2>3. ASSUME NEW i \in Positions
        PROVE  timers'[i].finalTime = now + Timeout \/ timers'[i].finalTime = timers[i].finalTime
    <3>1. timers'[i] = [timers[i] EXCEPT !.finalTime = now + Timeout] \/ timers'[i] = timers[i]
      BY <2>1
    <3>2. QED
      BY <1>0, <3>1 DEF Node
  <2>4. QED
    BY <2>2, <2>3
<1>4. QED
  BY <1>1, <1>2, <1>3

LEMMA SleepPreserves == SInv /\ [Next]_vars => SInv'
<1>. SUFFICES ASSUME SInv, [Next]_vars PROVE SInv'
  OBVIOUS
<1>. DEFINE Rest == /\ DeadlinesPositive' /\ Clocks' /\ WalkedNotDue'
                    /\ SleepsUntilEarliest' /\ NoneOverlooked'
<1>0. IInv /\ IInv'
  BY StepPreserves DEF SInv
<1>1. now \in Nat /\ nowTime \in Nat /\ nowTime <= now /\ cur \in Nat \ {0} /\ Len(timers) \in Nat
  BY DEF SInv, Clocks, IInv, NodesOK
<1>2. CASE Tick
  <2>1. Rest
    BY <1>1, <1>2, ListStays DEF Tick, received, endptsStatus
  <2>2. QED
    BY <1>0, <2>1 DEF SInv
<1>3. CASE GetLatestTimer
  <2>1. timers' = timers /\ Positions' = Positions /\ latest' = LatestTimer /\ pc = "loop"
        /\ pc' = "wait" /\ now' = now /\ nowTime' = nowTime
    BY <1>3 DEF GetLatestTimer, Positions
  <2>2. IsEarliest(LatestTimer)
    BY LatestIsEarliest DEF SInv, IInv
  <2>3. SleepsUntilEarliest'
    BY <2>1, <2>2 DEF SleepsUntilEarliest, IsEarliest
  <2>4. DeadlinesPositive' /\ Clocks' /\ WalkedNotDue' /\ NoneOverlooked'
    BY <2>1 DEF SInv, DeadlinesPositive, Clocks, WalkedNotDue, NoneOverlooked
  <2>5. QED
    BY <1>0, <2>3, <2>4 DEF SInv
<1>4. ASSUME NEW e \in Endpoints, GetDigit(e)
      PROVE  SInv'
  <2>1. Rest
    BY <1>1, <1>4, ListStays DEF GetDigit, received, endptsStatus
  <2>2. QED
    BY <1>0, <2>1 DEF SInv
<1>5. CASE GetOtherEvent \/ WaitTimesOut
  <2>1. Rest
    BY <1>1, <1>5, ListStays DEF GetOtherEvent, WaitTimesOut
  <2>2. QED
    BY <1>0, <2>1 DEF SInv
<1>6. CASE NotifyBegin
  <2>1. timers' = timers /\ Positions' = Positions /\ nowTime' = now /\ now' = now /\ cur' = 1
        /\ pc' = "walk"
    BY <1>6 DEF NotifyBegin, Positions
  <2>2. DeadlinesPositive' /\ Clocks' /\ WalkedNotDue' /\ SleepsUntilEarliest' /\ NoneOverlooked'
    BY <1>1, <2>1
    DEF SInv, DeadlinesPositive, Clocks, WalkedNotDue, SleepsUntilEarliest, NoneOverlooked, Positions
  <2>3. QED
    BY <1>0, <2>2 DEF SInv
<1>7. CASE NotifyHead
  <2>1. /\ timers # << >> /\ timers' = Tail(timers) /\ cur' = 1 /\ pc = "walk" /\ pc' = "walk"
        /\ nowTime' = nowTime /\ now' = now
    BY <1>7 DEF NotifyHead, AtLiveNode, Positions
  <2>2. /\ Len(timers') = Len(timers) - 1
        /\ \A i \in 1 .. Len(timers) - 1 : timers'[i] = timers[i + 1]
    BY <2>1 DEF SInv, IInv, NodesOK
  <2>3. \A i \in Positions' : i + 1 \in Positions /\ timers'[i] = timers[i + 1]
    BY <1>1, <2>2 DEF Positions
  <2>4. DeadlinesPositive'
    BY <2>3 DEF SInv, DeadlinesPositive
  <2>5. WalkedNotDue'
    BY <2>1 DEF WalkedNotDue, Positions
  <2>6. Clocks' /\ SleepsUntilEarliest' /\ NoneOverlooked'
    BY <2>1 DEF SInv, Clocks, SleepsUntilEarliest, NoneOverlooked
  <2>7. QED
    BY <1>0, <2>4, <2>5, <2>6 DEF SInv
<1>8. CASE NotifyInner
  <2>1. /\ cur \in Positions /\ timers' = [timers EXCEPT ![cur].live = FALSE]
        /\ pc = "walk" /\ pc' = "walk" /\ cur' = cur /\ nowTime' = nowTime /\ now' = now
    BY <1>8 DEF NotifyInner, AtLiveNode
  <2>2. Positions' = Positions /\ \A i \in Positions : timers'[i].finalTime = timers[i].finalTime
    <3>1. timers \in Seq(Node) /\ timers[cur] \in Node
      BY <1>0, <2>1, NodesTyped DEF IInv, NodesOK
    <3>2. [timers[cur] EXCEPT !.live = FALSE].finalTime = timers[cur].finalTime
      BY <3>1 DEF Node
    <3>3. timers' = [timers EXCEPT ![cur] = [timers[cur] EXCEPT !.live = FALSE]]
      BY <2>1
    <3>4. QED
      BY <2>1, <3>1, <3>2, <3>3 DEF Positions
  <2>3. DeadlinesPositive' /\ WalkedNotDue'
    BY <2>1, <2>2 DEF SInv, DeadlinesPositive, WalkedNotDue
  <2>4. Clocks' /\ SleepsUntilEarliest' /\ NoneOverlooked'
    BY <2>1 DEF SInv, Clocks, SleepsUntilEarliest, NoneOverlooked
  <2>5. QED
    BY <1>0, <2>3, <2>4 DEF SInv
<1>9. CASE NotifySkip
  <2>1. /\ timers' = timers /\ Positions' = Positions /\ cur \in Positions
        /\ ~ (nowTime >= timers[cur].finalTime) /\ cur' = cur + 1
        /\ pc = "walk" /\ pc' = "walk" /\ nowTime' = nowTime /\ now' = now
    BY <1>9 DEF NotifySkip, AtLiveNode, Due, Positions
  <2>2. timers[cur].finalTime > nowTime
    BY <1>0, <1>1, <2>1, NodesTyped
  <2>3. WalkedNotDue'
    <3>1. ASSUME NEW i \in Positions, i < cur + 1
          PROVE  timers[i].finalTime > nowTime
      <4>1. i < cur \/ i = cur
        BY <1>1, <3>1 DEF Positions
      <4>2. QED
        BY <2>1, <2>2, <4>1 DEF SInv, WalkedNotDue
    <3>2. QED
      BY <2>1, <3>1 DEF WalkedNotDue
  <2>4. DeadlinesPositive' /\ Clocks' /\ SleepsUntilEarliest' /\ NoneOverlooked'
    BY <2>1 DEF SInv, DeadlinesPositive, Clocks, SleepsUntilEarliest, NoneOverlooked
  <2>5. QED
    BY <1>0, <2>3, <2>4 DEF SInv
<1>10. CASE NotifyFreedNode \/ NotifyEnd
  <2>1. Rest
    BY <1>1, <1>10, ListStays DEF NotifyFreedNode, NotifyEnd
  <2>2. QED
    BY <1>0, <2>1 DEF SInv
<1>11. CASE HandleDigit
  <2>1. /\ pc = "handle" /\ pc' = "loop" /\ now' = now /\ nowTime' = nowTime /\ Timeout \in Nat \ {0}
        /\ \A i \in Positions : timers[i].finalTime > nowTime
    BY <1>11, TimeoutAssumption DEF HandleDigit, AtDigit, EventHandled, SInv, NoneOverlooked
  <2>2. \A i \in Positions' :
          \/ timers'[i].finalTime = now + Timeout
          \/ \E j \in Positions : timers'[i].finalTime = timers[j].finalTime
    BY <1>0, <1>11, DeadlinesAfterDigit
  <2>3. DeadlinesPositive' /\ NoneOverlooked'
    <3>1. ASSUME NEW i \in Positions'
          PROVE  timers'[i].finalTime # 0 /\ timers'[i].finalTime > nowTime
      BY <1>1, <2>1, <2>2 DEF SInv, DeadlinesPositive
    <3>2. QED
      BY <2>1, <3>1 DEF DeadlinesPositive, NoneOverlooked
  <2>4. Clocks' /\ WalkedNotDue' /\ SleepsUntilEarliest'
    BY <2>1 DEF SInv, Clocks, WalkedNotDue, SleepsUntilEarliest
  <2>5. QED
    BY <1>0, <2>3, <2>4 DEF SInv
<1>12. CASE HandleStart \/ RefuseDigit
  <2>1. Rest
    BY <1>1, <1>12, ListStays DEF HandleStart, RefuseDigit, AtDigit, EventHandled
  <2>2. QED
    BY <1>0, <2>1 DEF SInv
<1>13. CASE UNCHANGED vars
  <2>1. Rest
    BY <1>1, <1>13, ListStays DEF vars
  <2>2. QED
    BY <1>0, <2>1 DEF SInv
<1>14. QED
  BY <1>2, <1>3, <1>4, <1>5, <1>6, <1>7, <1>8, <1>9, <1>10, <1>11, <1>12, <1>13
  DEF Next, Processor, Notify, Handle

(* vt_getLatestTimer's walk finds the earliest deadline, and nothing moves *)
(* one while the processor sleeps: it never sleeps past a timer, and       *)
(* without limit only when there is none.                                  *)
THEOREM EarliestKept == Spec => []SleepsUntilEarliest
<1>1. SInv => SleepsUntilEarliest
  BY DEF SInv
<1>2. QED
  BY <1>1, SleepInit, SleepPreserves, PTL DEF Spec

(* A walk of vt_notifyTimer that ends leaves no timer behind that was due  *)
(* when it began, whatever it removed on its way.                          *)
THEOREM NoneLeftDue == Spec => []NoneOverlooked
<1>1. SInv => NoneOverlooked
  BY DEF SInv
<1>2. QED
  BY <1>1, SleepInit, SleepPreserves, PTL DEF Spec
=============================================================================
