------------------------------- MODULE PhoneLine -------------------------------
(***************************************************************************)
(* One telephone of vt_shell: its user, the events of its queue, the rows  *)
(* of the state machine with the actions they run (ActionTable), the       *)
(* messages the actions send to the VoIP server (ServerLink), the digits   *)
(* dialled, and the operator, who gives commands and loads actions while   *)
(* all this goes on.                                                       *)
(*                                                                         *)
(* Handling an event is one step: the actions of the dynamic and of the    *)
(* static row, both handlers and the new state.  Within it the connection  *)
(* to the server may break at any write, and between the two rows, before  *)
(* the handler and before the new state the operator's thread may carry    *)
(* out a command.  Of a call session only counts whether a write to it     *)
(* succeeds; the sessions, and two programs calling each other, are the    *)
(* subject of CallFsm; the queue is that of EventQueue, the stopping of    *)
(* actions that of ActionDebug.                                            *)
(*                                                                         *)
(* The operators named Mut... are wrong variants of the operators behind   *)
(* them; the specification does not use them.                              *)
(***************************************************************************)
EXTENDS ActionTable, FiniteSets

Digits == {"0", "1", "2", "3", "4", "5", "6", "7", "8", "9"}
DtmfDigits == Digits \union {"*", "#"}

CONSTANTS
  endpt,              \* the endpoint the telephone is connected to
  VT_INPUT_NUM_MAX,   \* how many digits inputNumber.number holds
  Keys,               \* the keys that are pressed
  Files,              \* files of actions, by their names
  Configs,            \* files of configuration, by their names
  Commands,           \* the command lines the operator types
  CallEvents,         \* what far ends send
  MaxQueue,           \* bound: unread events when a telephone reports
  BreakAt,            \* bound: how many writes of a step may precede a break
  MaxActs             \* bound: reports, calls and commands, by who makes them

ASSUME PhoneAssumption ==
  /\ endpt \in Endpts
  /\ VT_INPUT_NUM_MAX \in Nat \ {0}
  /\ \A c \in DOMAIN Configs : Configs[c].digits \in [Keys -> DtmfDigits \union {"none"}]
  /\ CallEvents \subseteq {"CALLING", "CALL_ACCEPT", "CALL_DOWN", "CALL_REJECT"}
  /\ MaxQueue \in Nat /\ BreakAt \subseteq Nat /\ MaxActs \subseteq [{"user", "far", "operator"} -> Nat]
  /\ {"vc_config", "missing"} \subseteq DOMAIN Configs

(* A word of a file of actions is that of a command line.                  *)
WORD == [kind : {"number", "text", "option"}, number : Int, text : STRING]
HANDLER == [cmd : STRING, data : Seq(WORD)]
SECTION == [name : STRING, key : Seq(STRING), pairs : Seq(STRING \X STRING), cmds : Seq(HANDLER)]

ASSUME FilesAssumption ==
  /\ {"vc_action", "missing"} \subseteq DOMAIN Files
  /\ \A f \in DOMAIN Files : Files[f].sections \in Seq(SECTION)

(* The repository's own file, but for the number that its last action is   *)
(* for, and a file that is not there.                                      *)
ASSUME RepositoryFiles ==
  /\ LET key == Last(Files["vc_action"].sections).key
     IN /\ Files["vc_action"] = [loads |-> TRUE, sections |-> VcAction(key)]
        /\ key # << >>
  /\ ~ Files["missing"].loads

ASSUME CommandsAssumption == Commands \subseteq Seq(WORD)

VARIABLES
  handset,      \* the telephone itself
  queue,        \* the events nobody has handled
  phone,        \* fxsState, inputNumber and digitTimerId of l_endptsStatus
  link,         \* the connection to the VoIP server and what was sent over it
  dtmfDigitMap, \* g_vtConfig.dtmfDigitMap: the digit each key stands for
  table,        \* the actions and the rows
  left,         \* how much user, far ends and operator have left to do
  file,         \* history: the file loaded last, or "none"
  typed,        \* history: the digits handled since dialling began
  called,       \* history: the number called last and the digits typed for it
  quiet         \* history: nothing has happened that the properties except

vars == <<handset, queue, phone, link, dtmfDigitMap, table, left, file, typed, called, quiet>>

(* vt_initConfig.  A file with an address that is none is read no further, *)
(* which leaves the digits as they were; one without digits clears them.   *)
Unset == [key \in Keys |-> "none"]
Default == [key \in Keys |-> IF key \in DtmfDigits THEN key ELSE "none"]
InitConfig(digits, f) ==
  CASE ~ f.loads -> Default
    [] f.loads /\ ~ f.addresses -> digits
    [] OTHER -> f.digits

NUL == "NUL"
Event(type) == [type |-> type, key |-> NUL]
DtmfEnd(key) == [type |-> "DTMF_END", key |-> key]
Spend(who) == left[who] > 0 /\ left' = [left EXCEPT ![who] = @ - 1]
Running == ~link.beyond

Init ==
  /\ handset = "on"
  /\ queue = << >>
  /\ phone = [fxsState |-> "HOOK_ON", number |-> [i \in 1 .. VT_INPUT_NUM_MAX |-> NUL],
              numberIndex |-> 0, timer |-> FALSE]
  /\ link = [InitialLink EXCEPT !.sock = "open"]
  /\ \E c \in {"vc_config", "missing"} : dtmfDigitMap = InitConfig(Unset, Configs[c])
  /\ \E f \in {"vc_action", "missing"} :
       /\ table = LoadAction(InitialTable, Files[f])
       /\ file = f
  /\ left \in MaxActs
  /\ typed = << >>
  /\ called = [number |-> << >>, typed |-> << >>, longest |-> 0]
  /\ quiet = TRUE

-----------------------------------------------------------------------------
(* The user of the telephone.  The server reports what he does as long as  *)
(* it is connected.                                                        *)
Report(events) ==
  /\ Running /\ Spend("user") /\ Len(queue) + Len(events) <= MaxQueue
  /\ queue' = IF link.sock = "open" THEN queue \o events ELSE queue
  /\ quiet' = (quiet /\ link.sock = "open" /\ Event("HOOK_FLASH") \notin ToSet(events))
  /\ UNCHANGED <<phone, link, dtmfDigitMap, table, file, typed, called>>

LiftHandset == handset = "on" /\ handset' = "off" /\ Report(<<Event("HOOK_OFF")>>)
HangUp == handset = "off" /\ handset' = "on" /\ Report(<<Event("HOOK_ON")>>)
OffTheHook(events) == handset = "off" /\ Report(events) /\ UNCHANGED handset
ConvertDtmfDigit(key) == dtmfDigitMap[key]
PressKey(key) == OffTheHook(<<Event("DTMF_START"), DtmfEnd(ConvertDtmfDigit(key))>>)
FlashHook == OffTheHook(<<Event("HOOK_FLASH")>>)

FarEnd(type) ==
  /\ Running /\ link.sock = "open" /\ Spend("far") /\ Len(queue) < MaxQueue
  /\ queue' = Append(queue, Event(type))
  /\ UNCHANGED <<handset, phone, link, dtmfDigitMap, table, file, typed, called, quiet>>

-----------------------------------------------------------------------------
(* The digits.  What number spells as a C string: up to the first NUL, and *)
(* without one on into numberIndex behind it.                              *)
Spelled(p) ==
  LET ends == {i \in DOMAIN p.number : p.number[i] = NUL}
      all == [i \in 1 .. VT_INPUT_NUM_MAX |-> p.number[i]]
  IN IF ends # {} THEN SubSeq(all, 1, (CHOOSE i \in ends : \A j \in ends : i <= j) - 1)
     ELSE IF p.numberIndex > 0 THEN Append(all, "index") ELSE all

IsNumber(string) == string # << >> /\ \A i \in DOMAIN string : string[i] \in Digits

(* strtoll: the digits in front, of which zeros do not count.              *)
Value(string) ==
  LET begun(set) == Cardinality({i \in DOMAIN string : \A j \in 1 .. i : string[j] \in set})
  IN SubSeq(string, begun({"0"}) + 1, begun(Digits))

(* The first of the list's keys that the text is, or begins with; a stale  *)
(* key compares as it likes.                                               *)
MatchingKey(matches, stale) ==
  FirstOf({k \in DOMAIN table.keys :
             IF table.keys[k].stale THEN k \in stale ELSE table.keys[k].key \in matches})
StaleKeys == {k \in DOMAIN table.keys : table.keys[k].stale}

NumberAvailable(string, stale) ==
  \/ MatchingKey(Prefixes(string), stale) # {}
  \/ IsNumber(string)

(* digitTimeoutHandler, run by the processor when the timer is due.        *)
DigitTimeout ==
  /\ Running /\ phone.timer
  /\ \E stale \in SUBSET StaleKeys :
       queue' = Append(queue, Event(IF NumberAvailable(Spelled(phone), stale)
                                      THEN "NUM_DONE" ELSE "NUM_ERR"))
  /\ phone' = [phone EXCEPT !.timer = FALSE]
  /\ UNCHANGED <<handset, link, dtmfDigitMap, table, left, file, typed, called, quiet>>

-----------------------------------------------------------------------------
(* The event handlers take the machine - a record of phone, queue, link,   *)
(* typed and called - and return it, with their result in ok.  x holds the *)
(* choices of the step: whether writes to a session succeed, which stale   *)
(* keys match, whether closeFd reads the number of the server's socket,    *)
(* and what an action without words finds on the stack.                    *)
Done(m) == [m EXCEPT !.ok = TRUE]
Undone(m) == [m EXCEPT !.ok = FALSE]
PutEvent(m, type) == [m EXCEPT !.queue = Append(@, Event(type))]
SendCallMsg(m, x) == [m EXCEPT !.ok = x.session]

HookOnTalking(m, x) == SendCallMsg([m EXCEPT !.link = vt_sendRtpDeactive(@, endpt)], x)

HookFlashAny(m) == Done(PutEvent(PutEvent(m, "HOOK_ON"), "HOOK_OFF"))

(* Mutant: dialling goes on where the last number ended.                   *)
MutDfmtStartHookOff(m) ==
  Done([m EXCEPT !.link = vt_sendTonePlay(@, endpt), !.typed = << >>])

DfmtStartHookOff(m) ==
  Done([m EXCEPT !.phone.numberIndex = 0, !.link = vt_sendTonePlay(@, endpt),
                 !.typed = << >>])

Larger(a, b) == IF a > b THEN a ELSE b

(* Mutant: the test whether number is full is missing.                     *)
MutDfmtEndDtmfStart(m, key) ==
  Done([m EXCEPT !.phone.numberIndex = @ + 1, !.phone.timer = TRUE,
                 !.typed = Append(@, key), !.called.longest = Larger(@, Len(m.typed) + 1)])

DfmtEndDtmfStart(m, key) ==
  LET i == m.phone.numberIndex + 1
  IN IF i > VT_INPUT_NUM_MAX THEN Undone(m)
     ELSE Done([m EXCEPT !.phone.numberIndex = i, !.phone.timer = TRUE,
                         !.phone.number[i] = IF key \in DtmfDigits THEN key ELSE @,
                         !.typed = Append(@, key),
                         !.called.longest = Larger(@, Len(m.typed) + 1)])

RunKeyAction(m, string, x) ==
  LET found == MatchingKey({string}, x.stale)
  IN IF found = {} THEN Undone(m)
     ELSE LET index == table.keys[CHOOSE k \in found : TRUE].index
              ran == RunAction(table, index, m.link, <<Number(endpt)>>, x.junk)
          IN [m EXCEPT !.link = ran, !.ok = ~Failed(ran)]

CallNumber(m, string, x) ==
  IF x.session
    THEN Done(PutEvent([m EXCEPT !.called.number = Value(string), !.called.typed = m.typed],
                       "NUM_CALLED"))
    ELSE Undone(PutEvent(m, "NUM_ERR"))

NumDoneDtmfStart(m, x) ==
  LET string == Spelled(m.phone)
  IN IF IsPrefix(<<"*">>, string) THEN RunKeyAction(m, string, x) ELSE CallNumber(m, string, x)

(* The payload of NUM_CALLED has no descriptor: what is shut down may be   *)
(* the server's socket.                                                    *)
CloseFd(m, x) ==
  IF x.misread /\ m.link.sock = "open" THEN Done([m EXCEPT !.link.sock = "dead"]) ELSE Done(m)

EventHandler(name, m, event, x) ==
  CASE name \in {"dummy", "hookFlashTalking", "numErrDtmfStart", "beCalledHookOn"} -> Done(m)
    [] name \in {"hookOnCalling", "hookOffBeCalled", "rejectCall"} -> SendCallMsg(m, x)
    [] name = "hookOnTalking" -> HookOnTalking(m, x)
    [] name = "hookFlashAny" -> HookFlashAny(m)
    [] name = "dfmtStartHookOff" -> DfmtStartHookOff(m)
    [] name = "dfmtEndDtmfStart" -> DfmtEndDtmfStart(m, event.key)
    [] name = "numDoneDtmfStart" -> NumDoneDtmfStart(m, x)
    [] name = "closeFd" -> CloseFd(m, x)

(* The words the data setters of the rows write: the endpoint, and for the *)
(* actions that need it the caller's number or the far end's address.      *)
ActionData(event, state) ==
  CASE event.type = "CALLING" /\ state = "HOOK_ON" -> <<Number(endpt), Number(456)>>
    [] \/ event.type = "HOOK_OFF" /\ state = "BE_CALLED"
       \/ event.type = "CALL_ACCEPT" -> <<Number(endpt), Text("ip"), Number(11000), Number(11001)>>
    [] event.type = "DTMF_END" \/ (event.type = "CALLING" /\ state # "HOOK_ON") -> << >>
    [] OTHER -> <<Number(endpt)>>
DynamicData == <<Number(endpt)>>

-----------------------------------------------------------------------------
(* The link as a step may find it: whole, or to break at a later write,    *)
(* which then fails, or succeeds for a message nobody receives.            *)
Writes == 20
Whole(s) == [s EXCEPT !.good = Writes]
BreaksAfter(s, n, fate) == [s EXCEPT !.good = n, !.fate = fate]
Breaks(s) ==
  {Whole(s)} \union
  {BreaksAfter(s, n, fate) :
     n \in {k \in BreakAt : s.sock = "open"}, fate \in {"fails", "vanishes"}}
Settled(s) == [s EXCEPT !.good = 0, !.fate = "fails", !.result = "OK"]

-----------------------------------------------------------------------------
(* The operator.  cli_execCmd looks the first word up among the commands   *)
(* and the next among the command's own; the words behind go to the        *)
(* handler of the last one found.                                          *)
TopCmds == {"action", "connect", "debug", "msg", "reaction", "reload", "send", "shutdown"}
MsgSubcmds == {"all", "clear", "new", "refresh", "session"}
Subcmds(cmd) ==
  CASE cmd = "send" -> SendSubcmds [] cmd = "msg" -> MsgSubcmds [] OTHER -> {}
FirstText(words) == IF words = << >> THEN "" ELSE words[1].text
Rest(words) == IF words = << >> THEN << >> ELSE Tail(words)

ExecCmd(line) ==
  LET cmd == FirstText(line)
      sub == FirstText(Rest(line))
  IN IF cmd \notin TopCmds THEN [cmd |-> << >>, words |-> line]
     ELSE IF sub \in Subcmds(cmd) THEN [cmd |-> <<cmd, sub>>, words |-> Rest(Rest(line))]
     ELSE [cmd |-> <<cmd>>, words |-> Rest(line)]
Typed == {ExecCmd(line) : line \in Commands}

(* vt_connectToServer gives the old connection up and empties the queue    *)
(* for the new one.  The server may have started anew.  A port that is no  *)
(* number is refused before all that.                                      *)
Refused(words) == Len(words) > 1 /\ ~ (Len(words) = 2 /\ IsDigit(words[2]))
ConnectFailed(s) == [s EXCEPT !.sock = "none"]
Connected(s) ==
  {[s EXCEPT !.sock = "open", !.server = new] : new \in {s.server, FreshServer}}

(* What a command does to the link: a new connection has no broken write.  *)
Opens(command) == \/ command.cmd = <<"action">> /\ FirstText(command.words) = "InitServer"
                  \/ command.cmd = <<"connect">> /\ ~ Refused(command.words)
Reached(s, by) ==
  CASE by.server = "none" -> ConnectFailed(s)
    [] by.server = "same" -> Whole([s EXCEPT !.sock = "open"])
    [] by.server = "anew" -> Whole([s EXCEPT !.sock = "open", !.server = FreshServer])

Obey(s, by) ==
  LET cmd == by.command.cmd
      words == by.command.words
  IN CASE Opens(by.command) ->
            IF cmd = <<"connect">> \/ by.server = "none" THEN Reached(s, by)
            ELSE InitServerAction(Reached(s, by), Rest(words))
       [] cmd = <<"action">> /\ FirstText(words) # "InitServer" ->
            RunAction(table, vt_getActionIdxByStr(table, FirstText(words)), s, Rest(words), by.junk)
       [] Len(cmd) = 2 /\ Head(cmd) = "send" -> SendCommand(s, cmd[2], words)
       [] cmd = <<"shutdown">> -> [s EXCEPT !.sock = "none"]
       [] OTHER -> s

Drops(by) == \/ by.command.cmd \in {<<"msg", "clear">>, <<"msg", "refresh">>}
             \/ Opens(by.command) /\ by.server # "none"

(* The command, if any, that the operator's thread carries out while the   *)
(* processor is handling an event, and the place where the processor then  *)
(* is; bound: one command to an event, none that loads a file.  What the   *)
(* processor's own function returned remains with it.                      *)
Alone == [place |-> "never", command |-> ExecCmd(<< >>), server |-> "same", junk |-> << >>]
Interruptions ==
  {by \in [place : {"row", "handler", "state"}, command : Typed,
           server : {"same", "anew", "none"}, junk : Junk] :
     /\ by.command.cmd \notin {<<"reaction">>, <<"reload">>}
     /\ by.server # "same" => Opens(by.command)
     /\ by.junk # << >> => by.command.cmd = <<"action">> /\ Rest(by.command.words) = << >>}

Meanwhile(m, by, place) ==
  IF by.place # place THEN m
  ELSE [m EXCEPT !.link = [Obey(@, by) EXCEPT !.result = m.link.result],
                 !.queue = IF Drops(by) THEN << >> ELSE @]

-----------------------------------------------------------------------------
(* fsmGo: the action, the handler, and when both succeed the new state.    *)
(* The operator may come in before the handler and before the new state.   *)
(* Mutant: the state changes whether the action succeeded or not.          *)
MutFsmGo(m, row, index, words, event, x, by) ==
  LET ran == Meanwhile([m EXCEPT !.link = RunAction(table, index, @, words, x.junk)],
                       by, "handler")
      after == Meanwhile(EventHandler(row.handler, ran, event, x), by, "state")
  IN IF after.link.beyond \/ ~after.ok \/ row.new = "MAX" THEN after
     ELSE [after EXCEPT !.phone.fxsState = row.new]

FsmGo(m, row, index, words, event, x, by) ==
  LET ran == Meanwhile([m EXCEPT !.link = RunAction(table, index, @, words, x.junk)],
                       by, "handler")
      after == Meanwhile(EventHandler(row.handler, ran, event, x), by, "state")
  IN CASE ran.link.beyond -> ran
       [] ~ran.link.beyond /\ Failed(ran.link) -> Undone(ran)
       [] OTHER -> IF after.link.beyond \/ ~after.ok \/ row.new = "MAX" THEN after
                   ELSE [after EXCEPT !.phone.fxsState = row.new]

(* A dynamic row runs its action and does nothing else.                    *)
RunDynamic(m, event, state, x) ==
  LET found == SearchDynamicFsmCtx(table, event.type, state)
      index == table.dynamic[CHOOSE d \in found : TRUE].index
      row == Row(event.type, state, "MAX", "dummy", "dummy", index)
  IN IF found = {} THEN m ELSE FsmGo(m, row, index, DynamicData, event, x, Alone)

RunStatic(m, event, state, x, by) ==
  LET found == SearchFsmCtx(event.type, state)
      r == CHOOSE r \in found : TRUE
  IN IF found = {} \/ m.link.beyond THEN m
     ELSE FsmGo(m, FsmCtxs[r], table.rows[r], ActionData(event, state), event, x, by)

(* The outcomes of a step that are of consequence to an event.              *)
Outcomes(event) ==
  [session : IF event.type \in {"HOOK_ON", "HOOK_OFF", "CALLING", "NUM_DONE"} THEN BOOLEAN
             ELSE {TRUE},
   stale : IF event.type = "NUM_DONE" THEN SUBSET StaleKeys ELSE {{}},
   misread : IF event.type = "NUM_CALLED" THEN BOOLEAN ELSE {FALSE},
   junk : IF event.type \in {"DTMF_END", "CALLING"} THEN Junk ELSE {<< >>}]

(* vt_processEvent: both rows are looked up for the state the event found. *)
ProcessEvent(s, event, x, by) ==
  LET m == [phone |-> phone, queue |-> Tail(queue), link |-> s, typed |-> typed,
            called |-> called, ok |-> TRUE]
  IN RunStatic(Meanwhile(RunDynamic(m, event, phone.fxsState, x), by, "row"),
               event, phone.fxsState, x, by)

Process ==
  /\ Running /\ queue # << >>
  /\ \E x \in Outcomes(Head(queue)), s \in Breaks(link),
        by \in {Alone} \union (IF left["operator"] > 0 THEN Interruptions ELSE {}) :
     \E after \in {ProcessEvent(s, Head(queue), x, by)} :
       /\ phone' = after.phone
       /\ queue' = after.queue
       /\ link' = Settled(after.link)
       /\ typed' = after.typed
       /\ called' = after.called
       /\ left' = IF by = Alone THEN left ELSE [left EXCEPT !["operator"] = @ - 1]
       /\ quiet' = (/\ quiet /\ x.session /\ by = Alone
                    /\ link.sock = "open" /\ after.link.sock = "open")
  /\ UNCHANGED <<handset, dtmfDigitMap, table, file>>

-----------------------------------------------------------------------------
(* The operator between two events.                                        *)
(* The file a command names, or else the one in use; every name stands for *)
(* some file, be it one that is not there.                                 *)
NamedFile(words) == IF words = << >> THEN "vc_action" ELSE FirstText(words)
NamedConfig(words) == IF words = << >> THEN "vc_config" ELSE FirstText(words)

ASSUME NamesAssumption ==
  \A c \in Typed : /\ c.cmd = <<"reaction">> => NamedFile(c.words) \in DOMAIN Files
                   /\ c.cmd = <<"reload">> => NamedConfig(c.words) \in DOMAIN Configs

Begun == Running /\ Spend("operator")
CommandDone(after) ==
  /\ link' = Settled(after)
  /\ UNCHANGED <<handset, phone, typed, called>>

SendByHand ==
  /\ Begun
  /\ \E c \in Typed :
       /\ Len(c.cmd) = 2 /\ c.cmd[1] = "send"
       /\ \E s \in Breaks(link) : CommandDone(SendCommand(s, c.cmd[2], c.words))
  /\ quiet' = FALSE
  /\ UNCHANGED <<queue, dtmfDigitMap, table, file>>

ActionByHand ==
  /\ Begun
  /\ \E c \in Typed :
       /\ c.cmd = <<"action">> /\ FirstText(c.words) # "InitServer"
       /\ \E s \in Breaks(link), junk \in IF Rest(c.words) = << >> THEN Junk ELSE {<< >>} :
            CommandDone(RunAction(table, vt_getActionIdxByStr(table, FirstText(c.words)),
                                  s, Rest(c.words), junk))
  /\ quiet' = FALSE
  /\ UNCHANGED <<queue, dtmfDigitMap, table, file>>

(* Both commands drop the unread events.                                   *)
DropEvents ==
  /\ Begun
  /\ \E c \in Typed : c.cmd \in {<<"msg", "clear">>, <<"msg", "refresh">>}
  /\ CommandDone(link)
  /\ queue' = << >>
  /\ quiet' = (quiet /\ queue = << >>)
  /\ UNCHANGED <<dtmfDigitMap, table, file>>

Connect ==
  /\ Begun
  /\ \E c \in Typed, s \in Connected(link) :
       c.cmd = <<"connect">> /\ ~ Refused(c.words) /\ CommandDone(s)
  /\ queue' = << >>
  /\ quiet' = (quiet /\ link'.server = link.server /\ queue = << >>)
  /\ UNCHANGED <<dtmfDigitMap, table, file>>

ConnectFails ==
  /\ Begun
  /\ \E c \in Typed :
       /\ c.cmd = <<"connect">>
       /\ CommandDone(IF Refused(c.words) THEN link ELSE ConnectFailed(link))
  /\ UNCHANGED <<queue, dtmfDigitMap, table, file, quiet>>

InitServer ==
  /\ Begun
  /\ \E c \in Typed, s \in Connected(link) :
       /\ c.cmd = <<"action">> /\ FirstText(c.words) = "InitServer"
       /\ \E t \in Breaks(s) : CommandDone(InitServerAction(t, Rest(c.words)))
  /\ queue' = << >>
  /\ quiet' = (quiet /\ link'.server = link.server /\ link'.sock = "open" /\ queue = << >>)
  /\ UNCHANGED <<dtmfDigitMap, table, file>>

Shutdown ==
  /\ Begun
  /\ <<"shutdown">> \in {c.cmd : c \in Typed}
  /\ CommandDone([link EXCEPT !.sock = "none"])
  /\ UNCHANGED <<queue, dtmfDigitMap, table, file, quiet>>

(* After a file that differs from the repository's own, and after a failed *)
(* load that follows a successful one, events run other actions.           *)
Reaction ==
  /\ Begun
  /\ \E c \in Typed :
       LET f == NamedFile(c.words)
       IN /\ c.cmd = <<"reaction">>
          /\ table' = LoadAction(table, Files[f])
          /\ file' = f
          /\ quiet' = (quiet /\ (f = "vc_action" \/ (f = file /\ f = "missing")))
  /\ CommandDone(link)
  /\ UNCHANGED <<queue, dtmfDigitMap>>

Reload ==
  /\ Begun
  /\ \E c \in Typed :
       /\ c.cmd = <<"reload">>
       /\ dtmfDigitMap' = InitConfig(dtmfDigitMap, Configs[NamedConfig(c.words)])
  /\ CommandDone(link)
  /\ UNCHANGED <<queue, table, file, quiet>>

-----------------------------------------------------------------------------
User == LiftHandset \/ HangUp \/ (\E key \in Keys : PressKey(key)) \/ FlashHook
Operator ==
  SendByHand \/ ActionByHand \/ Connect \/ ConnectFails \/ InitServer \/ Shutdown \/ Reaction
  \/ Reload \/ DropEvents

Next ==
  \/ User
  \/ \E type \in CallEvents : FarEnd(type)
  \/ Process
  \/ DigitTimeout
  \/ Operator

Spec == Init /\ [][Next]_vars

-----------------------------------------------------------------------------
(* The telephone, its queue, the link, the rows and the histories keep     *)
(* their shapes, numberIndex stays within the buffer, every state the      *)
(* machine reaches is one that some row leads to, and however events beget *)
(* events - a hook flash two, a pause one - the queue stays bounded by     *)
(* what was put in from outside.                                           *)
Places == DtmfDigits \union {NUL}
TypeOK ==
  /\ handset \in {"on", "off"} /\ quiet \in BOOLEAN
  /\ phone \in [fxsState : States \ {"MAX"}, number : [1 .. VT_INPUT_NUM_MAX -> Places],
                 numberIndex : 0 .. VT_INPUT_NUM_MAX, timer : BOOLEAN]
  /\ Len(queue) <= 2 * MaxQueue + 1
  /\ link.sock \in {"none", "open", "dead"} /\ link.dspStart \in BOOLEAN
  /\ link.openChannel \in [Endpts -> -1 .. MAX_CNX]
  /\ \A r \in Rows : table.rows[r] \in Nat
  /\ dtmfDigitMap \in [Keys -> DtmfDigits \union {"none"}]
  /\ file \in DOMAIN Files /\ Len(typed) <= VT_INPUT_NUM_MAX

(* As long as nothing happened that breaks the protocol - a write failed,  *)
(* an event came or was handled without a connection, a handset flashed,   *)
(* an operator interfered - the telephone rings exactly while its state is *)
(* BE_CALLED, and voice is sent on its channel exactly while it is         *)
(* TALKING: every way out of the two states runs an action that ends the   *)
(* ringing or the voice (l_fsmCtxs with the actions of vt_action.c and of  *)
(* .vc_action), and where a talk ends by the hook, which no action stops   *)
(* the voice for, the handler does (hookOnTalking).                        *)
ServerMatchesState ==
  quiet =>
    /\ endpt \in link.server.ring <=> phone.fxsState = "BE_CALLED"
    /\ link.openChannel[endpt] \in link.server.rtp <=> phone.fxsState = "TALKING"

(* Whatever fails, whatever the operator did before, the user flashes: the  *)
(* telephone does not begin to talk unless its voice channel was started,  *)
(* if the actions for that end by starting it, as those built in and those *)
(* of the repository's file do, and if the operator gives no command while *)
(* that event is handled (left' = left): he could stop the voice between   *)
(* the action and the new state.                                           *)
TalkStartsVoice ==
  \A r \in Rows : FsmCtxs[r].new = "TALKING" =>
    /\ table.rows[r] \in DOMAIN table.actions
    /\ table.actions[table.rows[r]].handlers # << >>
    /\ Last(table.actions[table.rows[r]].handlers) = Handler("VOIP_RTP_ACTIVE", Silent)

TalkHasRtp ==
  [][ /\ phone.fxsState # "TALKING" /\ phone'.fxsState = "TALKING"
      /\ ~ link'.lost /\ TalkStartsVoice /\ left' = left
      => link'.openChannel[endpt] \in link'.server.rtp ]_vars

(* After a load every event a file names in a state runs the action of the *)
(* last section that names it, however often files were loaded before:     *)
(* MAX, and a state nobody knows, stand for all states that have a row.    *)
Sections(f) == Files[f].sections
Attached(f) == {i \in DOMAIN Sections(f) : Sections(f)[i].cmds # << >> /\ Sections(f)[i].key = << >>}
Naming(f, event, states) ==
  {i \in Attached(f) : \E p \in DOMAIN Sections(f)[i].pairs :
     EventStrToInt(Sections(f)[i].pairs[p][1]) = event
     /\ StateStrToInt(Sections(f)[i].pairs[p][2]) \in states}
LastOf(found) == CHOOSE i \in found : \A j \in found : j <= i

RunsAsLoaded ==
  Files[file].loads =>
    /\ \A r \in Rows :
         LET sections == Naming(file, FsmCtxs[r].event, {FsmCtxs[r].cur, "MAX"})
         IN sections # {} => table.rows[r] = LastOf(sections)
    /\ \A i \in Attached(file) : \A p \in DOMAIN Sections(file)[i].pairs :
         LET event == EventStrToInt(Sections(file)[i].pairs[p][1])
             state == StateStrToInt(Sections(file)[i].pairs[p][2])
             found == SearchDynamicFsmCtx(table, event, state)
         IN state # "MAX" /\ ExactRow(event, state) = {} =>
              \E d \in found : table.dynamic[d].index = LastOf(Naming(file, event, {state}))

(* The number called is the number dialled, provided no longer one was     *)
(* dialled before: what that left in the buffer is not removed.            *)
CalledIsDialled ==
  /\ called.longest <= Len(called.typed)
  /\ \A i \in DOMAIN called.typed : called.typed[i] \in DtmfDigits
  => called.number = Value(called.typed)

(* When a file cannot be loaded, every row runs the action it was built    *)
(* with: the message of vt_loadAction says so.                             *)
DefaultActionsRun ==
  table.builtIn => \A r \in Rows : table.rows[r] = FsmCtxs[r].index
=============================================================================
