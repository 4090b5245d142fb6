------------------------------ MODULE ActionTable ------------------------------
(***************************************************************************)
(* The actions of vt_shell and the rows of the state machine that run them *)
(* (vt/vt_action.c, vt/vt_fsm.c): the built-in actions, the file of        *)
(* actions and its loading, and the running of an action.  A table is a    *)
(* record with the fields                                                  *)
(*   builtIn  l_allActions is l_allActionsDef (and l_actionDict is NULL)   *)
(*   actions  l_allActions and l_allActionsName                            *)
(*   rows     the actionIndex of each row of l_fsmCtxs                     *)
(*   dynamic  the list behind l_dynamicFsmHead, newest first               *)
(*   keys     the list behind l_keyActionMap, newest first; a stale key    *)
(*            points into a dictionary that was freed                      *)
(* An index counts from 0 in the code and from 1 here; 0 stands for -1.    *)
(*                                                                         *)
(* A file either cannot be loaded or is a sequence of sections.  A section *)
(* has a name, a key (what follows Key in its name, or << >>), its         *)
(* Event/CurState pairs and its CmdType/StaticData pairs.  How it is read  *)
(* from text is the subject of IniFile.                                    *)
(***************************************************************************)
EXTENDS ServerLink, SequencesExt

Handler(cmd, data) == [cmd |-> cmd, data |-> data]
Action(name, handlers) == [name |-> name, handlers |-> handlers]
Silent == << >>
OpenArgs == <<Number(-1), Number(0), Number(0), Number(0), Number(0)>>
Slic(ctrl) == Handler("VOIP_SLIC_CONTROL", <<Number(ctrl)>>)
Tone(tone, time) == Handler("VOIP_TONE_PLAY", <<Number(tone), Number(time)>>)

OffHook == <<Slic(4), Slic(2), Tone(4, 200)>>
OnHook == <<Slic(3), Tone(0, 200)>>
Calling == <<Handler("VOIP_CHANNEL_OPEN", OpenArgs), Slic(2), Tone(2, 100)>>
CallingFailed == <<Tone(4, 100)>>
Talking == <<Slic(2), Tone(0, 200), Handler("VOIP_RTP_ACTIVE", Silent)>>
BeCalled ==
  <<Handler("VOIP_CHANNEL_OPEN", OpenArgs), Slic(4),
    Handler("VOIP_CID_PLAY", <<Text("hzg")>>), Slic(2),
    Handler("VOIP_RING_START", <<Number(0)>>)>>
AcceptCall ==
  <<Slic(2), Handler("VOIP_RING_STOP", Silent), Slic(2), Tone(0, 200),
    Handler("VOIP_RTP_ACTIVE", Silent)>>
BeOnHook == <<Handler("VOIP_RTP_DEACTIVE", Silent), Slic(4), Tone(1, 200)>>

(* Mutant: a missed call goes on ringing.                                  *)
MutMissCall == <<Slic(4)>>
MissCall == <<Slic(4), Handler("VOIP_RING_STOP", Silent)>>

(* l_allActionsDef and l_allActionsNameDef; two names are exchanged.       *)
AllActionsDef ==
  <<Action("AcceptCall", AcceptCall), Action("BeCalled", BeCalled),
    Action("BeOnHook", BeOnHook), Action("Calling", Calling),
    Action("CallingFailed", CallingFailed), Action("MissCall", MissCall),
    Action("OnHook", OffHook), Action("OffHook", OnHook), Action("Talking", Talking)>>
ACCEPT_CALL == 1
BE_CALLED == 2
BE_ON_HOOK == 3
CALLING == 4
CALLING_FAILED == 5
MISS_CALL == 6
OFF_HOOK == 7
ON_HOOK == 8
TALKING == 9

(* The repository's file of actions, .vc_action; the last is run when the  *)
(* number key is dialled.                                                  *)
Section(name, key, pairs, cmds) == [name |-> name, key |-> key, pairs |-> pairs, cmds |-> cmds]

KeyTones ==
  <<Tone(0, 200), Tone(1, 200), Tone(2, 200), Tone(3, 200), Tone(4, 200), Tone(10, 200)>>

VcAction(key) == <<
  Section("OffHook", << >>, <<<<"HOOK_OFF", "MAX">>>>, OffHook),
  Section("AcceptCall", << >>, <<<<"HOOK_OFF", "BE_CALLED">>>>, AcceptCall),
  Section("BeCalled", << >>, <<<<"CALLING", "HOOK_ON">>>>, BeCalled),
  Section("BeOnHook", << >>, <<<<"CALL_DOWN", "TALKING">>>>, BeOnHook),
  Section("Calling", << >>, <<<<"NUM_CALLED", "DTMF_START">>>>, Calling),
  Section("CallingFailed", << >>, <<<<"NUM_ERR", "DTMF_START">>, <<"CALL_REJECT", "CALLING">>>>,
          CallingFailed),
  Section("MissCall", << >>, <<<<"CALL_DOWN", "BE_CALLED">>>>, MissCall),
  Section("OnHook", << >>, <<<<"HOOK_ON", "MAX">>>>, OnHook),
  Section("Talking", << >>, <<<<"CALL_ACCEPT", "CALLING">>>>, Talking),
  Section("Key*01", key, << >>, KeyTones)>>

-----------------------------------------------------------------------------
(* The rows of l_fsmCtxs.  MAX as curState matches the states that have no *)
(* row of their own above it, MAX as newState leaves the state alone.      *)
Row(event, cur, new, handler, failed, index) ==
  [event |-> event, cur |-> cur, new |-> new, handler |-> handler, failed |-> failed,
   index |-> index]

FsmCtxs == <<
  Row("HOOK_ON", "CALLING", "HOOK_ON", "hookOnCalling", "dummy", ON_HOOK),
  Row("HOOK_ON", "TALKING", "HOOK_ON", "hookOnTalking", "dummy", ON_HOOK),
  Row("HOOK_ON", "MAX", "HOOK_ON", "dummy", "dummy", ON_HOOK),
  Row("HOOK_OFF", "BE_CALLED", "TALKING", "hookOffBeCalled", "dummy", ACCEPT_CALL),
  Row("HOOK_OFF", "MAX", "HOOK_OFF", "dummy", "dummy", OFF_HOOK),
  Row("HOOK_FLASH", "TALKING", "MAX", "hookFlashTalking", "dummy", 0),
  Row("HOOK_FLASH", "MAX", "HOOK_OFF", "hookFlashAny", "dummy", 0),
  Row("DTMF_START", "HOOK_OFF", "DTMF_START", "dfmtStartHookOff", "dummy", 0),
  Row("DTMF_END", "DTMF_START", "DTMF_START", "dfmtEndDtmfStart", "dummy", 0),
  Row("NUM_DONE", "DTMF_START", "MAX", "numDoneDtmfStart", "dummy", 0),
  Row("NUM_CALLED", "DTMF_START", "CALLING", "dummy", "dummy", CALLING),
  Row("NUM_CALLED", "MAX", "MAX", "closeFd", "dummy", CALLING_FAILED),
  Row("NUM_ERR", "DTMF_START", "CALLING_FAILED", "numErrDtmfStart", "dummy", CALLING_FAILED),
  Row("CALLING", "HOOK_ON", "BE_CALLED", "beCalledHookOn", "rejectCall", BE_CALLED),
  Row("CALLING", "MAX", "MAX", "rejectCall", "dummy", 0),
  Row("CALL_ACCEPT", "CALLING", "TALKING", "dummy", "rejectCall", TALKING),
  Row("CALL_DOWN", "BE_CALLED", "CALL_DOWN", "closeFd", "dummy", MISS_CALL),
  Row("CALL_DOWN", "TALKING", "CALL_DOWN", "closeFd", "dummy", BE_ON_HOOK),
  Row("CALL_REJECT", "CALLING", "CALL_REJECT", "closeFd", "dummy", CALLING_FAILED)>>

Rows == DOMAIN FsmCtxs

(* The names a file may give; a state that is none of them, or missing, is *)
(* taken for MAX, and an event for one that never comes.                   *)
States ==
  {"BE_CALLED", "CALL_DOWN", "CALL_REJECT", "CALLING", "CALLING_FAILED", "DTMF_START",
   "HOOK_OFF", "HOOK_ON", "TALKING", "MAX"}
Events ==
  {"CALLING", "CALL_ACCEPT", "CALL_DOWN", "CALL_REJECT", "DTMF_START", "DTMF_END",
   "HOOK_OFF", "HOOK_ON", "HOOK_FLASH", "NUM_CALLED", "NUM_DONE", "NUM_ERR",
   "SLIC_LOCALE", "DSP_START", "MAX"}
StateStrToInt(name) == IF name \in States THEN name ELSE "MAX"
EventStrToInt(name) == IF name \in Events THEN name ELSE "MAX"

FirstOf(found) == IF found = {} THEN {} ELSE {CHOOSE r \in found : \A q \in found : r <= q}

(* The row that handles an event in a state, if any.                       *)
SearchFsmCtx(event, state) ==
  FirstOf({r \in Rows : FsmCtxs[r].event = event /\ FsmCtxs[r].cur \in {state, "MAX"}})
(* ... and with ignoreStateMax.                                            *)
ExactRow(event, state) ==
  FirstOf({r \in Rows : FsmCtxs[r].event = event /\ FsmCtxs[r].cur = state})

SearchDynamicFsmCtx(t, event, state) ==
  FirstOf({d \in DOMAIN t.dynamic : t.dynamic[d].event = event /\ t.dynamic[d].cur = state})

-----------------------------------------------------------------------------
(* Registering.  For the state MAX every row of the event is changed.      *)
UpdateActionIdxByEvent(t, event, index) ==
  [t EXCEPT !.rows = [r \in Rows |-> IF FsmCtxs[r].event = event THEN index ELSE @[r]]]

(* What sets a dynamic row apart; the rest is the same for all of them.    *)
DynamicRow(event, cur, index) == [event |-> event, cur |-> cur, index |-> index]

(* Mutant: the new row of the dynamic table goes to the end of the list.   *)
MutRegisterAction(t, event, state, index) ==
  CASE state = "MAX" -> UpdateActionIdxByEvent(t, event, index)
    [] state # "MAX" /\ ExactRow(event, state) # {} ->
         [t EXCEPT !.rows = [r \in Rows |->
            IF r \in ExactRow(event, state) THEN index ELSE @[r]]]
    [] OTHER ->
         [t EXCEPT !.dynamic = Append(@, DynamicRow(event, state, index))]

RegisterAction(t, event, state, index) ==
  CASE state = "MAX" -> UpdateActionIdxByEvent(t, event, index)
    [] state # "MAX" /\ ExactRow(event, state) # {} ->
         [t EXCEPT !.rows = [r \in Rows |->
            IF r \in ExactRow(event, state) THEN index ELSE @[r]]]
    [] OTHER ->
         [t EXCEPT !.dynamic = <<DynamicRow(event, state, index)>> \o @]

RegisterKeyAction(t, key, index) ==
  [t EXCEPT !.keys = <<[key |-> key, index |-> index, stale |-> FALSE]>> \o @]

-----------------------------------------------------------------------------
(* Loading.  An action ends at the first command there is no handler for:  *)
(* a name that is no message, or a message that getHandlerByCmd leaves out.*)
SrvMsgs ==
  SendSubcmds \union
  {"VOIP_CHANNEL_UPDATE", "VOIP_RTP_UPDATE", "VOIP_TONE_STOP", "VOIP_THREE_WAY_START",
   "VOIP_THREE_WAY_STOP", "VOIP_HOOK_ON", "VOIP_HOOK_OFF", "VOIP_HOOK_FLASH", "VOIP_DTMF_START",
   "VOIP_DTMF_END", "VOIP_FAX_START", "VOIP_FAXMODEM_END", "VOIP_DSPMSG_CMDMAX"}
GetCmdByTxt(text) == IF text \in SrvMsgs THEN text ELSE "UNKNOWN"
HandledCmds == (SendSubcmds \ {"VOIP_SLIC_LOCALE"}) \union {"VOIP_TONE_STOP"}

HandlersOf(section) ==
  LET cmds == section.cmds
      unknown ==
        {i \in DOMAIN cmds : GetCmdByTxt(cmds[i].cmd) \notin HandledCmds}
  IN IF unknown = {} THEN cmds
     ELSE SubSeq(cmds, 1, (CHOOSE i \in unknown : \A j \in unknown : i <= j) - 1)

AttachActionToFSM(t, section, index) ==
  FoldLeft(LAMBDA u, pair :
             RegisterAction(u, EventStrToInt(pair[1]), StateStrToInt(pair[2]), index),
           t, section.pairs)

(* A section without commands gets a name and no action: NULL.             *)
NoHandlers == <<Handler("NULL", << >>)>>
ParseAction(t, section) ==
  LET index == Len(t.actions) + 1
      named(handlers) == [t EXCEPT !.actions = Append(@, Action(section.name, handlers))]
  IN IF section.cmds = << >> THEN named(NoHandlers)
     ELSE IF section.key # << >>
            THEN RegisterKeyAction(named(HandlersOf(section)), section.key, index)
     ELSE AttachActionToFSM(named(HandlersOf(section)), section, index)

DestroyActions(t) ==
  [t EXCEPT !.keys = [k \in DOMAIN @ |-> [@[k] EXCEPT !.stale = TRUE]]]

(* vt_loadAction; what a failed one leaves of the rows stays.              *)
LoadAction(t, file) ==
  LET destroyed == DestroyActions(t)
  IN IF ~ file.loads
       THEN [destroyed EXCEPT !.builtIn = TRUE, !.actions = AllActionsDef]
       ELSE FoldLeft(ParseAction, [destroyed EXCEPT !.builtIn = FALSE, !.actions = << >>],
                     file.sections)

InitialTable ==
  [builtIn |-> TRUE, actions |-> << >>, rows |-> [r \in Rows |-> FsmCtxs[r].index],
   dynamic |-> << >>, keys |-> << >>]

-----------------------------------------------------------------------------
(* Running.  Two messages need all the words an action is given, the       *)
(* others only its first character, the endpoint.  Without words that      *)
(* character is whatever is on the stack: no word, a digit, or another.    *)
Junk == {<< >>, <<Number(0)>>, <<Text("junk")>>}
NeedAllDataCmd == {"VOIP_CID_PLAY", "VOIP_RTP_ACTIVE"}

PrepareHandlerData(cmd, words, junk) ==
  CASE cmd \in NeedAllDataCmd -> words
    [] cmd \notin NeedAllDataCmd /\ words # << >> -> <<words[1]>>
    [] OTHER -> junk

(* What actionGo hands to a handler is never an empty line.                *)
HandlerArgs(handler, words, junk) ==
  LET line == PrepareHandlerData(handler.cmd, words, junk) \o handler.data
  IN IF line = << >> THEN Blank ELSE line

RunHandler(s, handler, words, junk) ==
  LET name == IF handler.cmd = "VOIP_TONE_STOP" THEN "VOIP_TONE_PLAY" ELSE handler.cmd
  IN SendCommand(s, name, HandlerArgs(handler, words, junk))

(* actionGo: the first handler that fails ends it.                         *)
ActionGo(s, handlers, words, junk) ==
  FoldLeft(LAMBDA u, h : IF Failed(u) \/ u.beyond THEN u ELSE RunHandler(u, h, words, junk),
           Return(s, "OK"), handlers)

NoAction(t, index) ==
  index > Len(t.actions) \/ (index > 0 /\ t.actions[index].handlers = NoHandlers)

(* vt_runAction; an index beyond the table, or of a section without        *)
(* commands, makes it follow a pointer to nowhere.                         *)
RunAction(t, index, s, words, junk) ==
  CASE index = 0 -> Return(s, "OK")
    [] index # 0 /\ NoAction(t, index) -> [s EXCEPT !.beyond = TRUE]
    [] OTHER -> ActionGo(s, t.actions[index].handlers, words, junk)

(* vt_getActionIdxByStr takes the first name that the text begins with, so *)
(* CallingFailed is taken for Calling when that stands before it.          *)
NameBegins(name, text) ==
  name = text \/ (name = "Calling" /\ text = "CallingFailed")
                \/ (name = "BeOnHook" /\ text = "BeOnHookCall")

vt_getActionIdxByStr(t, text) ==
  LET found == FirstOf({i \in DOMAIN t.actions : NameBegins(t.actions[i].name, text)})
  IN IF found = {} THEN 0 ELSE CHOOSE i \in found : TRUE

(* vt_actionInitServer behind its connecting: every handler gets the words *)
(* of the command, and the space in front of them.                         *)
SendAllChannelDefault(s) ==
  FoldLeft(LAMBDA u, channel : IF Failed(u) THEN u ELSE vt_sendChannelDefault(u, channel),
           s, <<0, 1, 2, 3>>)

InitServerAction(s, words) ==
  LET given == IF words = << >> THEN << >> ELSE Blank
  IN SendAllChannelDefault(
       cli_sendDspStartHandler(
         cli_sendDspDefaultHandler(cli_sendSlicLocaleHandler(s, given), given), given))
=============================================================================
