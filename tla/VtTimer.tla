-------------------------------- MODULE VtTimer --------------------------------
(***************************************************************************)
(* The timers of vt_shell (vt/vt_timer.c) and the one client they have:    *)
(* the pause that ends the dialling of a number, started and restarted by  *)
(* dfmtEndDtmfStart (vt/vt_fsm.c).  Only the processor thread touches      *)
(* them, in this order in each round: it reads the earliest deadline, it   *)
(* waits for an event until then, it runs the timers that are due and only *)
(* then it handles the event.  Of the events, VT_EVENT_DTMF_END may take a *)
(* digit and VT_EVENT_DTMF_START begins a number; the others, among them   *)
(* both of these in a state of the telephone that has no row for them, are *)
(* none of the timers' business, so the two may come in any order.         *)
(*                                                                         *)
(* The linked list l_timers is a sequence of nodes.  A node that was freed *)
(* while its predecessor still points to it stays in the sequence with     *)
(* live = FALSE; to look at such a node is undefined behaviour, and the    *)
(* model goes no further.                                                  *)
(***************************************************************************)
EXTENDS Integers, Sequences

CONSTANTS
  Endpoints,  (* the telephones                                            *)
  Timeout,    (* VT_DIGIT_TIMEOUT                                          *)
  VT_INPUT_NUM_MAX,  (* the digits that inputNumber has room for           *)
  MaxTime     (* no digit is dialled from this time on                     *)

ASSUME TimeoutAssumption == Timeout \in Nat \ {0}
ASSUME NumberAssumption == VT_INPUT_NUM_MAX \in Nat \ {0}
ASSUME MaxTimeAssumption == MaxTime \in Nat
ASSUME EndpointsAssumption == "none" \notin Endpoints

VARIABLES
  timers,        (* l_timers                                               *)
  now,           (* gettimeofday                                           *)
  pc,            (* where the processor is                                 *)
  latest,        (* latestTime, 0 when no timer is registered              *)
  eventType,     (* VT_EVENT_DTMF_START, VT_EVENT_DTMF_END or another      *)
  event,         (* the endpoint of the event received, or "none"          *)
  nowTime,       (* vt_notifyTimer's reading of the clock                  *)
  cur,           (* position of pTimer in vt_notifyTimer                   *)
  digitTimerId,  (* the timer of each endpoint, or -1                      *)
  numberIndex,   (* inputNumber.numberIndex of each endpoint               *)
  lastDigit      (* history: when the endpoint's last digit was taken      *)

received == <<eventType, event>>
endptsStatus == <<digitTimerId, numberIndex>>
vars == <<timers, now, pc, latest, received, nowTime, cur, endptsStatus, lastDigit>>

Node == [id : Nat, finalTime : Nat, data : Endpoints, live : BOOLEAN]
Positions == 1 .. Len(timers)

Init ==
  /\ timers = << >>
  /\ now = 1
  /\ pc = "loop"
  /\ latest = 0
  /\ eventType = "other"
  /\ event = "none"
  /\ nowTime = 0
  /\ cur = 1
  /\ digitTimerId = [e \in Endpoints |-> -1]
  /\ numberIndex = [e \in Endpoints |-> 0]
  /\ lastDigit = [e \in Endpoints |-> 0]

(* Time passes whatever the processor does.  The bound MaxTime lets the    *)
(* timers that are left run out.                                           *)
Tick ==
  /\ now < MaxTime \/ \E i \in Positions : timers[i].finalTime > now
  /\ now' = now + 1
  /\ UNCHANGED <<timers, pc, latest, received, nowTime, cur, endptsStatus, lastDigit>>

-----------------------------------------------------------------------------
(* vt_getLatestTimer walks the list and keeps the smallest finalTime; a    *)
(* cleared result stands for none yet.                                     *)

(* Mutant: the test for a cleared result is left out.                      *)
MutLatestTimer ==
  LET walk[i \in 0 .. Len(timers)] ==
        IF i = 0 THEN 0
        ELSE IF timers[i].finalTime < walk[i - 1]
             THEN timers[i].finalTime ELSE walk[i - 1]
  IN walk[Len(timers)]

LatestTimer ==
  LET walk[i \in 0 .. Len(timers)] ==
        IF i = 0 THEN 0
        ELSE IF timers[i].finalTime < walk[i - 1] \/ walk[i - 1] = 0
             THEN timers[i].finalTime ELSE walk[i - 1]
  IN walk[Len(timers)]

GetLatestTimer ==
  /\ pc = "loop"
  /\ latest' = LatestTimer
  /\ pc' = "wait"
  /\ UNCHANGED <<timers, now, received, nowTime, cur, endptsStatus, lastDigit>>

(* vt_getEventUntilTime returns with the start or the end of a digit, with *)
(* an event that is none of the timers' business, or because the deadline  *)
(* has passed.                                                             *)
GetDigit(e) ==
  /\ pc = "wait"
  /\ now < MaxTime
  /\ eventType' \in {"VT_EVENT_DTMF_START", "VT_EVENT_DTMF_END"}
  /\ event' = e
  /\ pc' = "notify"
  /\ UNCHANGED <<timers, now, latest, nowTime, cur, endptsStatus, lastDigit>>

GetOtherEvent ==
  /\ pc = "wait"
  /\ eventType' = "other"
  /\ event' = "none"
  /\ pc' = "notify"
  /\ UNCHANGED <<timers, now, latest, nowTime, cur, endptsStatus, lastDigit>>

WaitTimesOut ==
  /\ pc = "wait"
  /\ latest # 0
  /\ latest <= now
  /\ eventType' = "other"
  /\ event' = "none"
  /\ pc' = "notify"
  /\ UNCHANGED <<timers, now, latest, nowTime, cur, endptsStatus, lastDigit>>

-----------------------------------------------------------------------------
(* vt_notifyTimer: one reading of the clock, then a walk over the list.    *)
(* pPrev is the node before pTimer, or the head when pTimer is the head.   *)

NotifyBegin ==
  /\ pc = "notify"
  /\ nowTime' = now
  /\ cur' = 1
  /\ pc' = "walk"
  /\ UNCHANGED <<timers, now, latest, received, endptsStatus, lastDigit>>

AtLiveNode == pc = "walk" /\ cur \in Positions /\ timers[cur].live
Due(i) == nowTime >= timers[i].finalTime

(* Mutant: the handler leaves digitTimerId set.                            *)
MutRunHandler == UNCHANGED digitTimerId

(* digitTimeoutHandler puts NUM_DONE or NUM_ERR into the event queue and   *)
(* forgets the timer.                                                      *)
RunHandler == digitTimerId' = [digitTimerId EXCEPT ![timers[cur].data] = -1]

(* Mutant: the walk moves on after the head was removed.                   *)
MutNotifyHead ==
  /\ AtLiveNode /\ Due(cur)
  /\ cur = 1
  /\ RunHandler
  /\ timers' = Tail(timers)
  /\ cur' = cur + 1
  /\ UNCHANGED <<now, pc, latest, received, nowTime, numberIndex, lastDigit>>

NotifyHead ==
  /\ AtLiveNode /\ Due(cur)
  /\ cur = 1
  /\ RunHandler
  /\ timers' = Tail(timers)
  /\ UNCHANGED <<now, pc, latest, received, nowTime, cur, numberIndex, lastDigit>>

(* A node further down is freed but not unlinked: pPrev->pNext, which is   *)
(* looked at next, is still that node.                                     *)
NotifyInner ==
  /\ AtLiveNode /\ Due(cur)
  /\ cur > 1
  /\ RunHandler
  /\ timers' = [timers EXCEPT ![cur].live = FALSE]
  /\ UNCHANGED <<now, pc, latest, received, nowTime, cur, numberIndex, lastDigit>>

NotifySkip ==
  /\ AtLiveNode /\ ~Due(cur)
  /\ cur' = cur + 1
  /\ UNCHANGED <<timers, now, pc, latest, received, nowTime, endptsStatus, lastDigit>>

NotifyFreedNode ==
  /\ pc = "walk" /\ cur \in Positions /\ ~timers[cur].live
  /\ pc' = "undefined"
  /\ UNCHANGED <<timers, now, latest, received, nowTime, cur, endptsStatus, lastDigit>>

(* The event is then handled; after a timeout, or another event, the loop  *)
(* starts again.                                                           *)
NotifyEnd ==
  /\ pc = "walk" /\ cur \notin Positions
  /\ pc' = IF event = "none" THEN "loop" ELSE "handle"
  /\ UNCHANGED <<timers, now, latest, received, nowTime, cur, endptsStatus, lastDigit>>

-----------------------------------------------------------------------------
(* insertNewTimer: after the run of consecutive ids that the head starts.  *)
RunOfIds ==
  CHOOSE p \in Positions :
    /\ \A i \in 1 .. p - 1 : timers[i].id = timers[i + 1].id - 1
    /\ p = Len(timers) \/ timers[p].id # timers[p + 1].id - 1

InsertAfter(p, node) ==
  [i \in 1 .. Len(timers) + 1 |->
     IF i <= p THEN timers[i] ELSE IF i = p + 1 THEN node ELSE timers[i - 1]]

NewId == IF timers = << >> THEN 0 ELSE timers[RunOfIds].id + 1

RegisterTimer(e) ==
  LET node == [id |-> NewId, finalTime |-> now + Timeout, data |-> e, live |-> TRUE]
  IN /\ timers' = IF timers = << >> THEN <<node>> ELSE InsertAfter(RunOfIds, node)
     /\ digitTimerId' = [digitTimerId EXCEPT ![e] = node.id]

(* Mutant: only the endpoint whose timer is first in the list is restarted.*)
MutUpdateTimer(e) ==
  /\ timers' = [timers EXCEPT ![1].finalTime = now + Timeout]
  /\ UNCHANGED digitTimerId

(* vt_updateTimer: the first node with the endpoint's id is restarted; one *)
(* that does not exist is only logged.                                     *)
UpdateTimer(e) ==
  /\ timers' = [i \in Positions |->
       IF /\ timers[i].id = digitTimerId[e]
          /\ \A j \in 1 .. i - 1 : timers[j].id # digitTimerId[e]
       THEN [timers[i] EXCEPT !.finalTime = now + Timeout]
       ELSE timers[i]]
  /\ UNCHANGED digitTimerId

(* The next round clears eventContent before it waits.                     *)
EventHandled == pc' = "loop" /\ eventType' = "other" /\ event' = "none"

(* dfmtStartHookOff begins a number; a timer still running from an earlier *)
(* one, given up before its pause was over, is left alone.                 *)
HandleStart ==
  /\ pc = "handle" /\ eventType = "VT_EVENT_DTMF_START"
  /\ numberIndex' = [numberIndex EXCEPT ![event] = 0]
  /\ EventHandled
  /\ UNCHANGED <<timers, now, latest, nowTime, cur, digitTimerId, lastDigit>>

AtDigit == pc = "handle" /\ eventType = "VT_EVENT_DTMF_END"

(* dfmtEndDtmfStart fails on a digit that inputNumber has no room for: the *)
(* timer is neither registered nor restarted.                              *)
RefuseDigit ==
  /\ AtDigit
  /\ numberIndex[event] >= VT_INPUT_NUM_MAX
  /\ EventHandled
  /\ UNCHANGED <<timers, now, latest, nowTime, cur, endptsStatus, lastDigit>>

(* Mutant: every digit registers a timer.                                  *)
MutHandleDigit ==
  /\ AtDigit
  /\ numberIndex[event] < VT_INPUT_NUM_MAX
  /\ numberIndex' = [numberIndex EXCEPT ![event] = @ + 1]
  /\ RegisterTimer(event)
  /\ lastDigit' = [lastDigit EXCEPT ![event] = now]
  /\ EventHandled
  /\ UNCHANGED <<now, latest, nowTime, cur>>

(* dfmtEndDtmfStart takes a digit.                                         *)
HandleDigit ==
  /\ AtDigit
  /\ numberIndex[event] < VT_INPUT_NUM_MAX
  /\ numberIndex' = [numberIndex EXCEPT ![event] = @ + 1]
  /\ IF digitTimerId[event] < 0 THEN RegisterTimer(event) ELSE UpdateTimer(event)
  /\ lastDigit' = [lastDigit EXCEPT ![event] = now]
  /\ EventHandled
  /\ UNCHANGED <<now, latest, nowTime, cur>>

-----------------------------------------------------------------------------
Notify == NotifyBegin \/ NotifyHead \/ NotifyInner \/ NotifySkip \/ NotifyFreedNode \/ NotifyEnd

Handle == HandleStart \/ RefuseDigit \/ HandleDigit

Processor ==
  \/ GetLatestTimer
  \/ \E e \in Endpoints : GetDigit(e)
  \/ GetOtherEvent
  \/ WaitTimesOut
  \/ Notify
  \/ Handle

Next == Tick \/ Processor

Spec == Init /\ [][Next]_vars

(* The clock runs and the processor does not stop in the middle of its     *)
(* loop; digits and other events may stop coming.                          *)
FairSpec ==
  /\ Spec
  /\ WF_vars(Tick)
  /\ WF_vars(GetLatestTimer) /\ WF_vars(WaitTimesOut)
  /\ WF_vars(Notify) /\ WF_vars(Handle)

-----------------------------------------------------------------------------
TypeOK ==
  /\ timers \in Seq(Node)
  /\ now \in Nat /\ latest \in Nat /\ nowTime \in Nat
  /\ pc \in {"loop", "wait", "notify", "walk", "handle", "undefined"}
  /\ eventType \in {"VT_EVENT_DTMF_START", "VT_EVENT_DTMF_END", "other"}
  /\ event \in Endpoints \union {"none"}
  /\ pc = "handle" => event \in Endpoints /\ eventType # "other"
  /\ cur \in Nat \ {0}
  /\ digitTimerId \in [Endpoints -> Int]
  /\ numberIndex \in [Endpoints -> 0 .. VT_INPUT_NUM_MAX]
  /\ lastDigit \in [Endpoints -> Nat]

(* "Every timer should have a different ID" (README 5.2.2): the ids in the *)
(* list increase, however timers are registered and run.                   *)
IdsIncrease ==
  \A i, j \in Positions : i < j => timers[i].id < timers[j].id

(* An endpoint and its timer know each other: digitTimerId names a live    *)
(* node that carries this endpoint, and every live node is so named.  A    *)
(* restart therefore never moves another endpoint's deadline, and no timer *)
(* is left behind that would end a later dialling.                         *)
OwnTimer ==
  /\ \A e \in Endpoints : digitTimerId[e] # -1 =>
       \E i \in Positions :
         timers[i].live /\ timers[i].id = digitTimerId[e] /\ timers[i].data = e
  /\ \A i \in Positions :
       timers[i].live => digitTimerId[timers[i].data] = timers[i].id

(* vt_getLatestTimer returns the earliest deadline: the processor never    *)
(* sleeps past a timer, and waits without limit only when there is none.   *)
SleepsUntilEarliest ==
  pc = "wait" =>
    IF timers = << >> THEN latest = 0
    ELSE /\ latest # 0
         /\ \A i \in Positions : latest <= timers[i].finalTime
         /\ \E i \in Positions : latest = timers[i].finalTime

(* A walk leaves no timer behind that was due when it began.               *)
NoneOverlooked ==
  pc \in {"loop", "wait", "handle"} =>
    \A i \in Positions : timers[i].finalTime > nowTime

(* A dialling ends only after a pause: a timer runs no sooner than Timeout *)
(* after the last digit of its endpoint that was taken, also when it was   *)
(* left over from a number given up.  A digit too many was not taken and   *)
(* does not restart the pause.                                             *)
RunsAfterPause ==
  [][\A e \in Endpoints :
       digitTimerId[e] # -1 /\ digitTimerId'[e] = -1 =>
         nowTime >= lastDigit[e] + Timeout]_vars

(* Every dialling ends: a timer that is registered is run some day.        *)
DiallingEnds ==
  \A e \in Endpoints :
    digitTimerId[e] # -1 ~> (digitTimerId[e] = -1 \/ pc = "undefined")

(* No node of the list was freed: pNext points to the next timer (README   *)
(* 5.2.2).  It fails when a timer that is not the head is due first.       *)
LinkedAreAllocated == \A i \in Positions : timers[i].live
=============================================================================
