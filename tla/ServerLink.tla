------------------------------ MODULE ServerLink ------------------------------
(***************************************************************************)
(* The way of a command to the VoIP server: the handlers of the send       *)
(* commands (cli/cli_cmdHandler.c), which take arguments from a line of    *)
(* words, and the functions of vt/vt_send.c, which build a message and     *)
(* write it to the server's socket.  Everything here is an operator on the *)
(* link, a record with the fields                                          *)
(*   sock        "none" (-1), "open" or "dead" (the server has gone)       *)
(*   good        how many writes still reach the server                    *)
(*   fate        what becomes of the writes after those                    *)
(*   dspStart    l_serverState.dspStart                                    *)
(*   openChannel openChannel of l_endptsStatus                             *)
(*   server      what the server has been told and has not been told off   *)
(*   result      what the last function returned                           *)
(*   lost        history: a write succeeded and never reached the server   *)
(*   beyond      history: an array was used beyond its end                 *)
(* Of a message matter the command and the endpoint or channel it is for;  *)
(* tones, lamps, gains and payload types change nothing here.              *)
(***************************************************************************)
EXTENDS Integers, Sequences

VT_ENDPT_MAX == 2
VT_CHANNEL_MAX == 4
MAX_CNX == 4
Endpts == 0 .. VT_ENDPT_MAX - 1

(* A word of a command line: a number, another text, or an option with its *)
(* argument.  Blank stands for an argument that is there and empty.        *)
Number(n) == [kind |-> "number", number |-> n, text |-> ""]
Text(t) == [kind |-> "text", number |-> 0, text |-> t]
Option(t) == [kind |-> "option", number |-> 0, text |-> t]
Blank == <<Text("")>>

IsDigit(word) == word.kind = "number"
AreInts(words, n) == Len(words) >= n /\ \A i \in 1 .. n : IsDigit(words[i])

(* Where the arguments stand that getopt_long leaves behind the options; a *)
(* negative number passes for an unknown option.                           *)
Arguments(words) ==
  {i \in DOMAIN words : words[i].kind # "option" /\ (IsDigit(words[i]) => words[i].number >= 0)}

(* The regions of l_oalLocaleMap that voip_localeCfg.h configures.         *)
Regions ==
  {"AU", "BE", "BR", "CA", "CN", "CO", "XE", "FR", "DE", "IN", "ID", "IT", "LV",
   "LT", "MX", "NZ", "US", "PE", "PL", "PT", "RU", "RS", "ES", "TH", "TR", "GB"}
MapAlpha2toVrg(region) == IF region \in Regions THEN {region} ELSE {}

-----------------------------------------------------------------------------
(* The VoIP server. *)
FreshServer == [ring |-> {}, channels |-> {}, rtp |-> {}, dsp |-> FALSE]

Served(server, cmd, id) ==
  CASE cmd = "VOIP_RING_START" -> [server EXCEPT !.ring = @ \union {id}]
    [] cmd = "VOIP_RING_STOP" -> [server EXCEPT !.ring = @ \ {id}]
    [] cmd = "VOIP_CHANNEL_OPEN" -> [server EXCEPT !.channels = @ \union {id}]
    [] cmd = "VOIP_RTP_ACTIVE" -> [server EXCEPT !.rtp = @ \union {id}]
    [] cmd = "VOIP_RTP_DEACTIVE" -> [server EXCEPT !.rtp = @ \ {id}]
    [] cmd = "VOIP_DSP_START" -> [server EXCEPT !.dsp = TRUE]
    [] cmd = "VOIP_DSP_STOP" -> [server EXCEPT !.dsp = FALSE]
    [] OTHER -> server

-----------------------------------------------------------------------------
(* vt_send.c *)
InitialLink ==
  [sock |-> "none", good |-> 0, fate |-> "fails", dspStart |-> FALSE,
   openChannel |-> [e \in Endpts |-> -1], server |-> FreshServer,
   result |-> "OK", lost |-> FALSE, beyond |-> FALSE]

Return(s, result) == [s EXCEPT !.result = result]
Failed(s) == s.result \in {"FAILED", "INVAIL_ARG"}

SendMsgToServer(s, cmd, id) ==
  CASE s.sock = "open" /\ s.good > 0 ->
         [s EXCEPT !.good = @ - 1, !.server = Served(@, cmd, id), !.result = "OK"]
    [] s.sock = "open" /\ s.good = 0 /\ s.fate = "vanishes" ->
         [s EXCEPT !.sock = "dead", !.lost = TRUE, !.result = "OK"]
    [] s.sock = "open" /\ s.good = 0 /\ s.fate = "fails" ->
         [s EXCEPT !.sock = "dead", !.result = "FAILED"]
    [] OTHER -> Return(s, "FAILED")

SendLocaleInternal(s, region, cmd) ==
  IF MapAlpha2toVrg(region) = {} THEN Return(s, "FAILED") ELSE SendMsgToServer(s, cmd, 0)

vt_sendDspStart(s) ==
  IF s.dspStart THEN Return(s, "OK")
  ELSE SendMsgToServer([s EXCEPT !.dspStart = TRUE], "VOIP_DSP_START", 0)

vt_sendDspStop(s) ==
  IF s.dspStart
    THEN SendMsgToServer([s EXCEPT !.dspStart = FALSE], "VOIP_DSP_STOP", 0)
    ELSE Return(s, "OK")

vt_sendChannelDefault(s, channel) == SendMsgToServer(s, "VOIP_CHANNEL_DEFAULT", channel)

(* The test is off by one; negative endpoints pass, too.                   *)
SendForEndpt(s, cmd, endpt) ==
  IF endpt > VT_ENDPT_MAX THEN Return(s, "FAILED") ELSE SendMsgToServer(s, cmd, endpt)

vt_sendRingStart(s, endpt) == SendForEndpt(s, "VOIP_RING_START", endpt)
vt_sendRingStop(s, endpt) == SendForEndpt(s, "VOIP_RING_STOP", endpt)
vt_sendSlicControl(s, endpt) == SendForEndpt(s, "VOIP_SLIC_CONTROL", endpt)
vt_sendTonePlay(s, endpt) == SendForEndpt(s, "VOIP_TONE_PLAY", endpt)

vt_sendCidPlay(s, channel) ==
  IF channel \in 0 .. MAX_CNX THEN SendMsgToServer(s, "VOIP_CID_PLAY", channel)
  ELSE Return(s, "FAILED")

(* l_endptsStatus ends before the last endpoint the tests let pass.        *)
vt_setOpenChannel(s, endpt, channel) ==
  IF endpt \in Endpts THEN [s EXCEPT !.openChannel[endpt] = channel]
  ELSE [s EXCEPT !.beyond = TRUE]

vt_sendChannelOpen(s, endpt, wanted) ==
  LET channel == IF wanted < 0 THEN endpt ELSE wanted
      sent == SendMsgToServer(s, "VOIP_CHANNEL_OPEN", channel)
  IN IF channel \notin 0 .. MAX_CNX \/ endpt \notin 0 .. VT_ENDPT_MAX
       THEN Return(s, "FAILED")
     ELSE IF Failed(sent) THEN sent
     ELSE vt_setOpenChannel(sent, endpt, channel)

vt_getOpenChannel(s, endpt) == IF endpt \in Endpts THEN s.openChannel[endpt] ELSE -1

vt_sendRtpActive(s, endpt) ==
  LET ready == IF vt_getOpenChannel(s, endpt) < 0
                 THEN vt_sendChannelOpen(s, endpt, endpt) ELSE Return(s, "OK")
  IN CASE endpt = VT_ENDPT_MAX -> [s EXCEPT !.beyond = TRUE]
       [] endpt # VT_ENDPT_MAX /\ Failed(ready) -> ready
       [] OTHER -> SendMsgToServer(ready, "VOIP_RTP_ACTIVE", vt_getOpenChannel(ready, endpt))

vt_sendRtpDeactive(s, endpt) ==
  CASE endpt = VT_ENDPT_MAX -> [s EXCEPT !.beyond = TRUE]
    [] endpt # VT_ENDPT_MAX /\ vt_getOpenChannel(s, endpt) < 0 -> Return(s, "FAILED")
    [] OTHER -> SendMsgToServer(s, "VOIP_RTP_DEACTIVE", vt_getOpenChannel(s, endpt))

-----------------------------------------------------------------------------
(* cli_cmdHandler.c.  Without arguments a handler has its own; else it     *)
(* wants n numbers, of which the first is the endpoint.                    *)
WithEndpt(s, words, n, Send(_, _)) ==
  CASE words = << >> -> Send(s, 0)
    [] words # << >> /\ AreInts(words, n) -> Send(s, words[1].number)
    [] OTHER -> Return(s, "INVAIL_ARG")

RegionOf(words) == IF words = << >> THEN "CN" ELSE words[1].text

cli_sendSlicLocaleHandler(s, words) ==
  Return(SendLocaleInternal(s, RegionOf(words), "VOIP_SLIC_LOCALE"), "OK")
cli_sendDspDefaultHandler(s, words) ==
  Return(SendLocaleInternal(s, RegionOf(words), "VOIP_DSP_DEFAULT"), "OK")
cli_sendDspStartHandler(s, words) == Return(vt_sendDspStart(s), "OK")
cli_sendDspStopHandler(s, words) == Return(vt_sendDspStop(s), "OK")

cli_sendChannelDefaultHandler(s, words) ==
  IF Len(words) = 1 /\ IsDigit(words[1]) /\ words[1].number <= VT_CHANNEL_MAX
    THEN vt_sendChannelDefault(s, words[1].number)
    ELSE Return(s, "INVAIL_ARG")

cli_sendRingStartHandler(s, words) == WithEndpt(s, words, 2, vt_sendRingStart)
cli_sendRingStopHandler(s, words) == WithEndpt(s, words, 1, vt_sendRingStop)
cli_sendSlicControlHandler(s, words) == WithEndpt(s, words, 2, vt_sendSlicControl)
cli_sendTonePlayHandler(s, words) == WithEndpt(s, words, 3, vt_sendTonePlay)

(* The endpoint, the number of the caller and his name.                    *)
cli_sendCidPlayHandler(s, words) ==
  IF words = << >> THEN vt_sendCidPlay(s, 0)
  ELSE IF Len(words) >= 3 /\ AreInts(words, 2) THEN vt_sendCidPlay(s, words[1].number)
  ELSE Return(s, "INVAIL_ARG")

cli_sendChannelOpenHandler(s, words) ==
  IF words = << >> THEN vt_sendChannelOpen(s, 0, 0)
  ELSE IF AreInts(words, 6)
         THEN vt_sendChannelOpen(s, words[1].number, words[2].number)
  ELSE Return(s, "INVAIL_ARG")

cli_sendRtpActiveHandler(s, words) ==
  LET argv == Arguments(words)
      first == words[CHOOSE i \in argv : \A j \in argv : i <= j]
  IN IF words = << >> THEN vt_sendRtpActive(s, 0)
     ELSE IF argv # {} /\ IsDigit(first) /\ first.number <= VT_ENDPT_MAX
            THEN vt_sendRtpActive(s, first.number)
     ELSE Return(s, "INVAIL_ARG")

cli_sendRtpDeactiveHandler(s, words) == WithEndpt(s, words, 1, vt_sendRtpDeactive)

SendSubcmds ==
  {"VOIP_CHANNEL_DEFAULT", "VOIP_CHANNEL_OPEN", "VOIP_CID_PLAY", "VOIP_DSP_DEFAULT",
   "VOIP_DSP_START", "VOIP_DSP_STOP", "VOIP_RING_START", "VOIP_RING_STOP",
   "VOIP_RTP_ACTIVE", "VOIP_RTP_DEACTIVE", "VOIP_SLIC_CONTROL", "VOIP_SLIC_LOCALE",
   "VOIP_TONE_PLAY"}

(* The handler a name stands for in l_sendSubcmdMap.                       *)
SendCommand(s, name, words) ==
  CASE name = "VOIP_CHANNEL_DEFAULT" -> cli_sendChannelDefaultHandler(s, words)
    [] name = "VOIP_CHANNEL_OPEN" -> cli_sendChannelOpenHandler(s, words)
    [] name = "VOIP_CID_PLAY" -> cli_sendCidPlayHandler(s, words)
    [] name = "VOIP_DSP_DEFAULT" -> cli_sendDspDefaultHandler(s, words)
    [] name = "VOIP_DSP_START" -> cli_sendDspStartHandler(s, words)
    [] name = "VOIP_DSP_STOP" -> cli_sendDspStopHandler(s, words)
    [] name = "VOIP_RING_START" -> cli_sendRingStartHandler(s, words)
    [] name = "VOIP_RING_STOP" -> cli_sendRingStopHandler(s, words)
    [] name = "VOIP_RTP_ACTIVE" -> cli_sendRtpActiveHandler(s, words)
    [] name = "VOIP_RTP_DEACTIVE" -> cli_sendRtpDeactiveHandler(s, words)
    [] name = "VOIP_SLIC_CONTROL" -> cli_sendSlicControlHandler(s, words)
    [] name = "VOIP_SLIC_LOCALE" -> cli_sendSlicLocaleHandler(s, words)
    [] name = "VOIP_TONE_PLAY" -> cli_sendTonePlayHandler(s, words)
=============================================================================
