-------------------------------- MODULE CallFsm --------------------------------
(***************************************************************************)
(* The call state machine of vt_shell (vt/vt_fsm.c) with the call sessions *)
(* it talks over: the listener's table of session sockets                  *)
(* (vt/vt_event.c) and the messages two programs exchange.                 *)
(*                                                                         *)
(* Each host is one running vt_shell with its telephones, its event queue, *)
(* a listener and a processor.  A call is a connection from the host of    *)
(* the caller to the host of the number dialled, which is the same host    *)
(* when both telephones hang on it.  The event queue is a plain FIFO here; *)
(* its own behaviour, its limit included, is the subject of EventQueue.    *)
(*                                                                         *)
(* What a telephone reports reaches the queue in one step: the VoIP        *)
(* server's socket and putDspEvent keep its order, and nothing else        *)
(* depends on the time the report takes.                                   *)
(***************************************************************************)
EXTENDS Integers, Sequences, FiniteSets

CONSTANTS
  Hosts,
  Phones,         (* the telephones of all hosts; a telephone's name is    *)
                  (* also its number                                       *)
  HostOf,         (* HostOf[p] is the host telephone p is connected to     *)
  Dials,          (* Dials[p] is what the user of telephone p dials        *)
  Flashers,       (* the telephones that flash the hook                    *)
  SessFdsMax,     (* VT_SESS_FDS_MAX: the listener's session table         *)
  ActionResults,  (* what vt_runAction may return                          *)
  MaxCalls,       (* no number is dialled when this many connections exist *)
  MaxActs         (* MaxActs[p]: how often the user of p does something    *)

ASSUME HostAssumption == HostOf \in [Phones -> Hosts]
ASSUME ActionAssumption == ActionResults \subseteq BOOLEAN /\ TRUE \in ActionResults
ASSUME ActsAssumption == MaxActs \in [Phones -> Nat]
ASSUME BoundsAssumption == MaxCalls \in Nat /\ SessFdsMax \in Nat

VARIABLES
  hook,        (* the telephone itself                                     *)
  acts,        (* how much its user has left to do                         *)
  fxsState,    (* fxsState of l_endptsStatus                               *)
  sessionFd,   (* sessionFd, or NoFd                                       *)
  destNumber,  (* destNumber                                               *)
  number,      (* what inputNumber.number spells                           *)
  digitTimer,  (* digitTimerId is not -1                                   *)
  queue,       (* the unread events of each host                           *)
  calls,       (* the connections made so far, by their numbers            *)
  accepted,    (* the connections the listener called accept for           *)
  active,      (* l_activeSessFds of all hosts                             *)
  shut,        (* the sockets on which shutdown was called                 *)
  wire,        (* what was sent to a socket and not yet read from it       *)
  misread,     (* history: closeFd read an fd where there is none          *)
  answer       (* history: the callee's answers on each connection         *)

phoneVars == <<hook, acts>>
endptVars == <<fxsState, sessionFd, destNumber, number, digitTimer>>
netVars == <<calls, accepted, active, shut, wire>>
vars == <<phoneVars, endptVars, queue, netVars, misread, answer>>

-----------------------------------------------------------------------------
(* A number nobody has; a code with '*' that runs a user's action; digits  *)
(* that are no number.                                                     *)
Numbers == Phones \union {"unassigned"}
Dialled == Numbers \union {"key", "illegal"}
ASSUME DialAssumption == Dials \in [Phones -> SUBSET Dialled]

States == {"BE_CALLED", "CALL_DOWN", "CALL_REJECT", "CALLING", "CALLING_FAILED",
           "DTMF_START", "HOOK_OFF", "HOOK_ON", "TALKING"}

(* A socket is one end of a connection.  It is shut down, never closed, so *)
(* its descriptor is not used again.                                       *)
Fds == (1 .. MaxCalls) \X {"caller", "callee"}
NoFd == <<0, "caller">>
Peer(f) == <<f[1], IF f[2] = "caller" THEN "callee" ELSE "caller">>

(* getIPPortByNum: a number of this host, else the other host.             *)
HasOther(h) == Hosts # {h}
HostByNum(h, n) ==
  IF n \in Phones /\ HostOf[n] = h THEN h
  ELSE IF HasOther(h) THEN CHOOSE g \in Hosts : g # h ELSE h

FdHost(f) ==
  LET from == HostOf[calls[f[1]].src]
  IN IF f[2] = "caller" THEN from ELSE HostByNum(from, calls[f[1]].dest)

(* Whose socket it is, and the number at the other end.                    *)
Owner(f) == IF f[2] = "caller" THEN calls[f[1]].src ELSE calls[f[1]].dest
FarNumber(f) == IF f[2] = "caller" THEN calls[f[1]].dest ELSE calls[f[1]].src

DspEvent(type, p) == [type |-> type, endpt |-> p]
DtmfEnd(p, n) == [type |-> "DTMF_END", endpt |-> p, digits |-> n]
CallEvent(msg, f) == [type |-> msg.type, src |-> msg.src, dest |-> msg.dest, fd |-> f]
CallMsg(type, p, n) == [type |-> type, src |-> p, dest |-> n]
CallTypes == {"CALLING", "CALL_ACCEPT", "CALL_DOWN", "CALL_REJECT"}

Init ==
  /\ hook = [p \in Phones |-> "on"]
  /\ acts = MaxActs
  /\ fxsState = [p \in Phones |-> "HOOK_ON"]
  /\ sessionFd = [p \in Phones |-> NoFd]
  /\ destNumber = [p \in Phones |-> "unassigned"]
  /\ number = [p \in Phones |-> "illegal"]
  /\ digitTimer = [p \in Phones |-> FALSE]
  /\ queue = [h \in Hosts |-> << >>]
  /\ calls = << >>
  /\ accepted = {}
  /\ active = {}
  /\ shut = {}
  /\ wire = [f \in Fds |-> << >>]
  /\ misread = FALSE
  /\ answer = [c \in 1 .. MaxCalls |-> << >>]

Put(h, events) == queue' = [queue EXCEPT ![h] = @ \o events]

-----------------------------------------------------------------------------
(* The user of telephone p.                                                *)
Report(p, events) ==
  /\ acts[p] > 0
  /\ acts' = [acts EXCEPT ![p] = @ - 1]
  /\ Put(HostOf[p], events)
  /\ UNCHANGED <<endptVars, netVars, misread, answer>>

LiftHandset(p) ==
  /\ hook[p] = "on"
  /\ hook' = [hook EXCEPT ![p] = "off"]
  /\ Report(p, <<DspEvent("HOOK_OFF", p)>>)

HangUp(p) ==
  /\ hook[p] = "off"
  /\ hook' = [hook EXCEPT ![p] = "on"]
  /\ Report(p, <<DspEvent("HOOK_ON", p)>>)

FlashHook(p) ==
  /\ p \in Flashers
  /\ hook[p] = "off"
  /\ Report(p, <<DspEvent("HOOK_FLASH", p)>>)
  /\ UNCHANGED hook

(* A key is pressed and released; afterwards the digits spell n.           *)
PressKey(p, n) ==
  /\ hook[p] = "off"
  /\ Report(p, <<DspEvent("DTMF_START", p), DtmfEnd(p, n)>>)
  /\ UNCHANGED hook

-----------------------------------------------------------------------------
(* The listener.                                                           *)

TableFull(h) == Cardinality({f \in active : FdHost(f) = h}) >= SessFdsMax

(* A full table is not noticed: the socket is left open and unwatched.     *)
RegisterSessionFd(f, h) ==
  active' = IF TableFull(h) THEN active ELSE active \union {f}

Accept(c) ==
  LET f == <<c, "callee">>
  IN /\ c \notin accepted
     /\ accepted' = accepted \union {c}
     /\ RegisterSessionFd(f, FdHost(f))
     /\ UNCHANGED <<phoneVars, endptVars, queue, calls, shut, wire, misread, answer>>

(* putCallEvent: the message becomes an event that carries the socket.     *)
ReadCallMsg(f) ==
  /\ f \in active
  /\ wire[f] # << >>
  /\ wire' = [wire EXCEPT ![f] = Tail(@)]
  /\ Put(FdHost(f), <<CallEvent(Head(wire[f]), f)>>)
  /\ UNCHANGED <<phoneVars, endptVars, calls, accepted, active, shut, misread, answer>>

ReadClosed(f) ==
  /\ f \in active
  /\ wire[f] = << >>
  /\ Peer(f) \in shut
  /\ active' = active \ {f}
  /\ shut' = shut \union {f}
  /\ UNCHANGED <<phoneVars, endptVars, queue, calls, accepted, wire, misread, answer>>

-----------------------------------------------------------------------------
(* The table l_fsmCtxs.  MAX stands for any state in the second column and *)
(* for no change in the third.                                             *)
Row(type, cur, new, handler, failed, action) ==
  [type |-> type, cur |-> cur, new |-> new, handler |-> handler,
   failed |-> failed, action |-> action]

FsmCtxs == <<
  Row("HOOK_ON", "CALLING", "HOOK_ON", "hookOnCalling", "dummy", TRUE),
  Row("HOOK_ON", "TALKING", "HOOK_ON", "hookOnTalking", "dummy", TRUE),
  Row("HOOK_ON", "MAX", "HOOK_ON", "dummy", "dummy", TRUE),
  Row("HOOK_OFF", "BE_CALLED", "TALKING", "hookOffBeCalled", "dummy", TRUE),
  Row("HOOK_OFF", "MAX", "HOOK_OFF", "dummy", "dummy", TRUE),
  Row("HOOK_FLASH", "TALKING", "MAX", "dummy", "dummy", FALSE),
  Row("HOOK_FLASH", "MAX", "HOOK_OFF", "hookFlashAny", "dummy", FALSE),
  Row("DTMF_START", "HOOK_OFF", "DTMF_START", "dummy", "dummy", FALSE),
  Row("DTMF_END", "DTMF_START", "DTMF_START", "dfmtEndDtmfStart", "dummy", FALSE),
  Row("NUM_DONE", "DTMF_START", "MAX", "numDoneDtmfStart", "dummy", FALSE),
  Row("NUM_CALLED", "DTMF_START", "CALLING", "dummy", "dummy", TRUE),
  Row("NUM_CALLED", "MAX", "MAX", "closeFd", "dummy", TRUE),
  Row("NUM_ERR", "DTMF_START", "CALLING_FAILED", "dummy", "dummy", TRUE),
  Row("CALLING", "HOOK_ON", "BE_CALLED", "beCalledHookOn", "rejectCall", TRUE),
  Row("CALLING", "MAX", "MAX", "rejectCall", "dummy", FALSE),
  Row("CALL_ACCEPT", "CALLING", "TALKING", "dummy", "rejectCall", TRUE),
  Row("CALL_DOWN", "BE_CALLED", "CALL_DOWN", "closeFd", "dummy", TRUE),
  Row("CALL_DOWN", "TALKING", "CALL_DOWN", "closeFd", "dummy", TRUE),
  Row("CALL_REJECT", "CALLING", "CALL_REJECT", "closeFd", "dummy", TRUE)
>>

Matches(row, type, state) == row.type = type /\ row.cur \in {state, "MAX"}

(* searchFsmCtx: the first row that matches; none is << >>.                *)
SearchFsmCtx(type, state) ==
  LET rows == {i \in DOMAIN FsmCtxs : Matches(FsmCtxs[i], type, state)}
  IN IF rows = {} THEN << >> ELSE FsmCtxs[CHOOSE i \in rows : \A j \in rows : i <= j]

(* getEndpt: a call's telephone is the one with its destination number.    *)
Endpt(ev) == IF ev.type \in CallTypes THEN ev.dest ELSE ev.endpt

(* The processor of h takes its next event, which is for telephone p.      *)
Taking(h, p) ==
  /\ queue[h] # << >>
  /\ p = Endpt(Head(queue[h]))
  /\ HostOf[p] = h

Event(h) == Head(queue[h])
Matched(h, p) == SearchFsmCtx(Event(h).type, fxsState[p])

(* fsmGo: the action runs first; only when it and the handler succeed does *)
(* the state change.                                                       *)
NewState(p, row) ==
  fxsState' = IF row.new = "MAX" THEN fxsState ELSE [fxsState EXCEPT ![p] = row.new]

Runs(h, p, handler) ==
  /\ Taking(h, p)
  /\ Matched(h, p) # << >>
  /\ Matched(h, p).handler = handler

Taken(h, events) == queue' = [queue EXCEPT ![h] = Tail(@) \o events]

-----------------------------------------------------------------------------
(* sendCallMsg: a write to a socket that was shut down fails; one whose    *)
(* other end is shut down may or may not, and is lost.                     *)
WriteResults(f) ==
  IF f \in shut \union {NoFd} THEN {FALSE}
  ELSE IF Peer(f) \in shut THEN BOOLEAN ELSE {TRUE}
Sent(f, msg, written) ==
  /\ wire' = IF written /\ Peer(f) \notin shut
             THEN [wire EXCEPT ![Peer(f)] = Append(@, msg)] ELSE wire
  /\ answer' = IF /\ written /\ f[2] = "callee"
                  /\ msg.type \in {"CALL_ACCEPT", "CALL_REJECT"}
               THEN [answer EXCEPT ![f[1]] = Append(@, msg.type)] ELSE answer

(* hookOnCalling, hookOnTalking and hookOffBeCalled differ in the message. *)
SendOnSession(h, p, type) ==
  /\ \E written \in WriteResults(sessionFd[p]) :
       /\ Sent(sessionFd[p], CallMsg(type, p, destNumber[p]), written)
       /\ IF written THEN NewState(p, Matched(h, p)) ELSE UNCHANGED fxsState
  /\ Taken(h, << >>)
  /\ UNCHANGED <<phoneVars, sessionFd, destNumber, number, digitTimer,
                 calls, accepted, active, shut, misread>>

HookOnCalling(h, p) == Runs(h, p, "hookOnCalling") /\ SendOnSession(h, p, "CALL_DOWN")
HookOnTalking(h, p) == Runs(h, p, "hookOnTalking") /\ SendOnSession(h, p, "CALL_DOWN")
HookOffBeCalled(h, p) == Runs(h, p, "hookOffBeCalled") /\ SendOnSession(h, p, "CALL_ACCEPT")

DummyEventHandler(h, p) ==
  /\ Runs(h, p, "dummy")
  /\ NewState(p, Matched(h, p))
  /\ Taken(h, << >>)
  /\ UNCHANGED <<phoneVars, sessionFd, destNumber, number, digitTimer,
                 netVars, misread, answer>>

(* The flash becomes a hook-on and a hook-off behind what is queued.       *)
HookFlashAny(h, p) ==
  /\ Runs(h, p, "hookFlashAny")
  /\ NewState(p, Matched(h, p))
  /\ Taken(h, <<DspEvent("HOOK_ON", p), DspEvent("HOOK_OFF", p)>>)
  /\ UNCHANGED <<phoneVars, sessionFd, destNumber, number, digitTimer,
                 netVars, misread, answer>>

(* The digit is stored and the pause that ends the dialling starts anew.   *)
DfmtEndDtmfStart(h, p) ==
  /\ Runs(h, p, "dfmtEndDtmfStart")
  /\ NewState(p, Matched(h, p))
  /\ number' = [number EXCEPT ![p] = Event(h).digits]
  /\ digitTimer' = [digitTimer EXCEPT ![p] = TRUE]
  /\ Taken(h, << >>)
  /\ UNCHANGED <<phoneVars, sessionFd, destNumber, netVars, misread, answer>>

(* digitTimeoutHandler                                                     *)
DigitTimeout(p) ==
  /\ digitTimer[p]
  /\ digitTimer' = [digitTimer EXCEPT ![p] = FALSE]
  /\ Put(HostOf[p],
         <<DspEvent(IF number[p] = "illegal" THEN "NUM_ERR" ELSE "NUM_DONE", p)>>)
  /\ UNCHANGED <<phoneVars, fxsState, sessionFd, destNumber, number,
                 netVars, misread, answer>>

-----------------------------------------------------------------------------
(* callNumber: the call is connected and announced, or NUM_ERR follows.    *)
(* The state changes with the event put here, not before.                  *)
(* Mutant: destNumber is left as the last session set it.                  *)
MutConnect(p) ==
  /\ Len(calls) < MaxCalls
  /\ \/ number[p] \in Phones /\ HostOf[number[p]] = HostOf[p]
     \/ HasOther(HostOf[p])
  /\ calls' = Append(calls, [src |-> p, dest |-> number[p]])
  /\ sessionFd' = [sessionFd EXCEPT ![p] = <<Len(calls) + 1, "caller">>]
  /\ UNCHANGED destNumber
  /\ RegisterSessionFd(<<Len(calls) + 1, "caller">>, HostOf[p])

Connect(p) ==
  /\ Len(calls) < MaxCalls
  /\ \/ number[p] \in Phones /\ HostOf[number[p]] = HostOf[p]
     \/ HasOther(HostOf[p])
  /\ calls' = Append(calls, [src |-> p, dest |-> number[p]])
  /\ sessionFd' = [sessionFd EXCEPT ![p] = <<Len(calls) + 1, "caller">>]
  /\ destNumber' = [destNumber EXCEPT ![p] = number[p]]
  /\ RegisterSessionFd(<<Len(calls) + 1, "caller">>, HostOf[p])

CallNumber(h, p) ==
  /\ Runs(h, p, "numDoneDtmfStart")
  /\ number[p] \in Numbers
  /\ NewState(p, Matched(h, p))
  /\ Connect(p)
  /\ \E written \in BOOLEAN :
       /\ Sent(<<Len(calls) + 1, "caller">>, CallMsg("CALLING", p, number[p]), written)
       /\ Taken(h, <<DspEvent(IF written THEN "NUM_CALLED" ELSE "NUM_ERR", p)>>)
  /\ UNCHANGED <<phoneVars, number, digitTimer, accepted, shut, misread>>

CallNumberFails(h, p) ==
  /\ Runs(h, p, "numDoneDtmfStart")
  /\ number[p] \in Numbers
  /\ Taken(h, <<DspEvent("NUM_ERR", p)>>)
  /\ UNCHANGED <<phoneVars, endptVars, netVars, misread, answer>>

(* getNumHandler picks runKeyAction by the '*'.                            *)
RunKeyAction(h, p) ==
  /\ Runs(h, p, "numDoneDtmfStart")
  /\ number[p] \notin Numbers
  /\ Taken(h, << >>)
  /\ UNCHANGED <<phoneVars, endptVars, netVars, misread, answer>>

(* beCalledHookOn: the socket the call came over becomes the session.      *)
BeCalledHookOn(h, p) ==
  /\ Runs(h, p, "beCalledHookOn")
  /\ NewState(p, Matched(h, p))
  /\ sessionFd' = [sessionFd EXCEPT ![p] = Event(h).fd]
  /\ destNumber' = [destNumber EXCEPT ![p] = Event(h).src]
  /\ Taken(h, << >>)
  /\ UNCHANGED <<phoneVars, number, digitTimer, netVars, misread, answer>>

(* rejectCall answers on the socket of the event, as handler and as the    *)
(* failed handler of a row.                                                *)
(* Mutants: the rejection goes to the session's number, or to its socket.  *)
MutRejectNumber(h, p) ==
  /\ \E written \in WriteResults(Event(h).fd) :
       Sent(Event(h).fd, CallMsg("CALL_REJECT", p, destNumber[p]), written)
  /\ Taken(h, << >>)
  /\ UNCHANGED <<phoneVars, endptVars, calls, accepted, active, shut, misread>>

MutRejectSession(h, p) ==
  /\ \E written \in WriteResults(sessionFd[p]) :
       Sent(sessionFd[p], CallMsg("CALL_REJECT", p, destNumber[p]), written)
  /\ Taken(h, << >>)
  /\ UNCHANGED <<phoneVars, endptVars, calls, accepted, active, shut, misread>>

Reject(h, p) ==
  /\ \E written \in WriteResults(Event(h).fd) :
       Sent(Event(h).fd, CallMsg("CALL_REJECT", p, Event(h).src), written)
  /\ Taken(h, << >>)
  /\ UNCHANGED <<phoneVars, endptVars, calls, accepted, active, shut, misread>>

RejectCall(h, p) == Runs(h, p, "rejectCall") /\ Reject(h, p)

Close(f) == active' = active \ {f} /\ shut' = shut \union ({f} \ {NoFd})

(* Mutant: the socket is closed and the state left alone.                  *)
MutCloseFd(h, p) ==
  /\ Runs(h, p, "closeFd")
  /\ Event(h).type \in CallTypes
  /\ Close(Event(h).fd)
  /\ Taken(h, << >>)
  /\ UNCHANGED <<phoneVars, endptVars, calls, accepted, wire, misread, answer>>

CloseFd(h, p) ==
  /\ Runs(h, p, "closeFd")
  /\ Event(h).type \in CallTypes
  /\ NewState(p, Matched(h, p))
  /\ Close(Event(h).fd)
  /\ Taken(h, << >>)
  /\ UNCHANGED <<phoneVars, sessionFd, destNumber, number, digitTimer,
                 calls, accepted, wire, misread, answer>>

(* NUM_CALLED carries an endpoint and no socket: closeFd reads beyond its  *)
(* data and may hit upon the descriptor of any session.                    *)
CloseFdMisread(h, p) ==
  /\ Runs(h, p, "closeFd")
  /\ Event(h).type \notin CallTypes
  /\ \E f \in {NoFd} \union {g \in active : FdHost(g) = h} : Close(f)
  /\ misread' = TRUE
  /\ Taken(h, << >>)
  /\ UNCHANGED <<phoneVars, endptVars, calls, accepted, wire, answer>>

(* Mutant: after a failed action the rejected call becomes the session.    *)
MutActionFails(h, p) ==
  /\ Taking(h, p)
  /\ Matched(h, p) # << >> /\ Matched(h, p).action
  /\ FALSE \in ActionResults
  /\ Matched(h, p).failed = "rejectCall"
  /\ NewState(p, Matched(h, p))
  /\ sessionFd' = [sessionFd EXCEPT ![p] = Event(h).fd]
  /\ destNumber' = [destNumber EXCEPT ![p] = Event(h).src]
  /\ Sent(Event(h).fd, CallMsg("CALL_REJECT", p, Event(h).src), TRUE)
  /\ Taken(h, << >>)
  /\ UNCHANGED <<phoneVars, number, digitTimer, calls, accepted, active, shut, misread>>

(* vt_runAction fails, for instance because the server is gone: only the   *)
(* failed handler runs.                                                    *)
ActionFails(h, p) ==
  /\ Taking(h, p)
  /\ Matched(h, p) # << >> /\ Matched(h, p).action
  /\ FALSE \in ActionResults
  /\ IF Matched(h, p).failed = "rejectCall" THEN Reject(h, p)
     ELSE /\ Taken(h, << >>)
          /\ UNCHANGED <<phoneVars, endptVars, netVars, misread, answer>>

(* No row, or a call for a number that no telephone here has.              *)
Unmatched(h) ==
  /\ queue[h] # << >>
  /\ \A p \in Phones : Taking(h, p) => Matched(h, p) = << >>
  /\ Taken(h, << >>)
  /\ UNCHANGED <<phoneVars, endptVars, netVars, misread, answer>>

-----------------------------------------------------------------------------
User ==
  \E p \in Phones : \/ LiftHandset(p) \/ HangUp(p) \/ FlashHook(p)
                    \/ \E n \in Dials[p] : PressKey(p, n)

MadeFds == {f \in Fds : f[1] <= Len(calls)}

Listener ==
  \/ \E c \in 1 .. Len(calls) : Accept(c)
  \/ \E f \in MadeFds : ReadCallMsg(f) \/ ReadClosed(f)

ProcessFor(h, p) ==
  \/ HookOnCalling(h, p) \/ HookOnTalking(h, p) \/ HookOffBeCalled(h, p)
  \/ DummyEventHandler(h, p) \/ HookFlashAny(h, p) \/ DfmtEndDtmfStart(h, p)
  \/ CallNumber(h, p) \/ CallNumberFails(h, p) \/ RunKeyAction(h, p)
  \/ BeCalledHookOn(h, p) \/ RejectCall(h, p) \/ CloseFd(h, p) \/ CloseFdMisread(h, p)
  \/ ActionFails(h, p)

Process(h) == Unmatched(h) \/ \E p \in Phones : ProcessFor(h, p)

Next ==
  \/ User
  \/ Listener
  \/ \E p \in Phones : DigitTimeout(p)
  \/ \E h \in Hosts : Process(h)

Spec == Init /\ [][Next]_vars

(* The threads run and the timers run out; users may stop at any moment.   *)
FairSpec ==
  /\ Spec
  /\ \A c \in 1 .. MaxCalls : WF_vars(c <= Len(calls) /\ Accept(c))
  /\ \A f \in Fds : WF_vars(f \in MadeFds /\ (ReadCallMsg(f) \/ ReadClosed(f)))
  /\ \A h \in Hosts : WF_vars(Process(h))
  /\ \A p \in Phones : WF_vars(DigitTimeout(p))

-----------------------------------------------------------------------------
Msgs == [type : CallTypes, src : Phones, dest : Numbers]
Events ==
  [type : {"HOOK_ON", "HOOK_OFF", "HOOK_FLASH", "DTMF_START",
           "NUM_DONE", "NUM_CALLED", "NUM_ERR"}, endpt : Phones]
  \union [type : {"DTMF_END"}, endpt : Phones, digits : Dialled]
  \union [type : CallTypes, src : Phones, dest : Numbers, fd : Fds]

TypeOK ==
  /\ hook \in [Phones -> {"on", "off"}]
  /\ acts \in [Phones -> Nat]
  /\ fxsState \in [Phones -> States]
  /\ sessionFd \in [Phones -> Fds \union {NoFd}]
  /\ destNumber \in [Phones -> Numbers]
  /\ number \in [Phones -> Dialled]
  /\ digitTimer \in [Phones -> BOOLEAN]
  /\ queue \in [Hosts -> Seq(Events)]
  /\ calls \in Seq([src : Phones, dest : Numbers]) /\ Len(calls) <= MaxCalls
  /\ accepted \subseteq 1 .. Len(calls)
  /\ active \subseteq MadeFds /\ shut \subseteq MadeFds
  /\ wire \in [Fds -> Seq(Msgs)]
  /\ misread \in BOOLEAN
  /\ answer \in [1 .. MaxCalls -> Seq({"CALL_ACCEPT", "CALL_REJECT"})]

(* A telephone's session is its own end of a connection, and destNumber is *)
(* the number at the other end: "once the session is created, it stores    *)
(* the number of the other side" (vt_fsm.c:81).                            *)
SessionOwned ==
  \A p \in Phones : sessionFd[p] # NoFd =>
    /\ sessionFd[p] \in MadeFds
    /\ Owner(sessionFd[p]) = p
    /\ FarNumber(sessionFd[p]) = destNumber[p]

(* Whatever is sent on a connection is addressed to the telephone at its   *)
(* other end, so getEndpt finds the telephone the message is about.        *)
AddressedToOwner ==
  /\ \A f \in Fds : \A i \in DOMAIN wire[f] :
       f \in MadeFds /\ wire[f][i].dest = Owner(f) /\ wire[f][i].src = FarNumber(f)
  /\ \A h \in Hosts : \A i \in DOMAIN queue[h] :
       queue[h][i].type \in CallTypes =>
         /\ queue[h][i].fd \in MadeFds /\ FdHost(queue[h][i].fd) = h
         /\ queue[h][i].dest = Owner(queue[h][i].fd)
         /\ queue[h][i].src = FarNumber(queue[h][i].fd)

(* A callee answers each call at most once: no call is both accepted and   *)
(* rejected, however late a call, an answer or a hook event arrives.       *)
AnsweredOnce == \A c \in 1 .. MaxCalls : Len(answer[c]) <= 1

(* While a telephone rings, the listener watches the caller's connection,  *)
(* which is open at both ends: the caller's giving up will be noticed.     *)
RingingIsWatched ==
  \A p \in Phones : fxsState[p] = "BE_CALLED" =>
    \/ /\ sessionFd[p] \in active
       /\ sessionFd[p] \notin shut /\ Peer(sessionFd[p]) \notin shut
    \/ misread

(* A caller who gives up while the callee's telephone rings ends the       *)
(* ringing, provided that the action for it does not fail.                 *)
GivingUpEndsRinging ==
  \A p \in Phones :
    (/\ fxsState[p] = "BE_CALLED"
     /\ \E i \in DOMAIN wire[sessionFd[p]] : wire[sessionFd[p]][i].type = "CALL_DOWN")
      ~> (fxsState[p] # "BE_CALLED" \/ misread)

(* Every call that reaches a host becomes the session of the telephone it  *)
(* is for, or is rejected; a busy telephone does not leave it unanswered.  *)
CallIsAnswered ==
  \A f \in Fds :
    (\E i \in DOMAIN wire[f] : wire[f][i].type = "CALLING")
      ~> (answer[f[1]] # << >> \/ (\E p \in Phones : sessionFd[p] = f) \/ misread)

(* A conversation ends when its own partner hangs up: "when the other side *)
(* want to down or reject our session, we only need to close the socket    *)
(* fd" (vt_fsm.c:184).  It fails: CALL_DOWN is matched by the state alone. *)
PartnerEndsTalk ==
  [][\A p \in Phones :
       fxsState[p] = "TALKING" /\ fxsState'[p] = "CALL_DOWN" =>
         Event(HostOf[p]).fd = sessionFd[p]]_vars
=============================================================================
