------------------------------ MODULE MCPhoneLine ------------------------------
(***************************************************************************)
(* Endpoint 0, whose buffer holds two digits.  The files are the           *)
(* repository's .vc_action, in the order of its sections, a file that is   *)
(* not there, and one that uses what the first does not: MAX behind a      *)
(* state with a row of its own, a pair without a row, a misspelt state and *)
(* event, an unknown command, a section without commands, a second key.    *)
(* Of the configurations one has a wrong address and one exchanges keys.   *)
(***************************************************************************)
EXTENDS PhoneLine

Other == <<
  Section("Down", << >>, <<<<"CALL_DOWN", "TALKING">>, <<"HOOK_OFF", "HOOK_ON">>>>, BeOnHook),
  Section("Hook", << >>, <<<<"HOOK_OFF", "BE_CALLED">>, <<"HOOK_OFF", "MAX">>,
                           <<"HOOK_ON", "TALKING">>, <<"CALL_REJECT", "HOOK_ON">>, <<"NUM_ERR", "DTMF">>,
                           <<"HOOKOFF", "HOOK_ON">>>>,
          <<Slic(3), Handler("VOIP_SLIC_LOCALE", Silent), Tone(0, 200)>>),
  Section("Empty", << >>, <<<<"CALLING", "HOOK_ON">>>>, << >>),
  Section("Again", << >>, <<<<"HOOK_OFF", "HOOK_ON">>>>, <<Handler("VOIP_TONE_STOP", Silent)>>),
  Section("Key*", <<"*">>, << >>, AcceptCall)>>

Repository == VcAction(<<"*", "1">>)

MCFiles ==
  [vc_action |-> [loads |-> TRUE, sections |-> Repository],
   other |-> [loads |-> TRUE, sections |-> Other],
   missing |-> [loads |-> FALSE, sections |-> << >>]]

MCConfigs ==
  [vc_config |-> [loads |-> TRUE, addresses |-> TRUE, digits |-> [key \in Keys |-> key]],
   mixed |-> [loads |-> TRUE, addresses |-> TRUE,
              digits |-> [key \in Keys |-> IF key = "*" THEN "1" ELSE "none"]],
   address |-> [loads |-> TRUE, addresses |-> FALSE, digits |-> [key \in Keys |-> "none"]],
   missing |-> [loads |-> FALSE, addresses |-> FALSE, digits |-> [key \in Keys |-> "none"]]]

Send(name, words) == <<Text("send"), Text(name)>> \o words
Act(name, words) == <<Text("action"), Text(name)>> \o words
MCCommands ==
  {Send("VOIP_CHANNEL_DEFAULT", <<Number(1)>>),
   Send("VOIP_CHANNEL_OPEN", <<Number(0), Number(4), Number(0), Number(0), Number(0), Number(0)>>),
   Send("VOIP_CHANNEL_OPEN", <<Number(2), Number(0), Number(0), Number(0), Number(0), Number(0)>>),
   Send("VOIP_CID_PLAY", <<Number(4), Number(456), Text("hzg")>>),
   Send("VOIP_CID_PLAY", <<Number(0)>>),
   Send("VOIP_DSP_DEFAULT", <<Text("CN")>>), Send("VOIP_DSP_DEFAULT", <<Text("here")>>),
   Send("VOIP_DSP_START", << >>), Send("VOIP_DSP_STOP", << >>),
   Send("VOIP_RING_START", << >>), Send("VOIP_RING_START", <<Number(-1), Number(0)>>),
   Send("VOIP_RING_STOP", <<Number(0)>>),
   Send("VOIP_RTP_ACTIVE", <<Option("-p"), Number(0)>>), Send("VOIP_RTP_ACTIVE", <<Number(3)>>),
   Send("VOIP_RTP_DEACTIVE", << >>),
   Send("VOIP_SLIC_CONTROL", <<Number(0), Number(2)>>), Send("VOIP_SLIC_LOCALE", << >>),
   Send("VOIP_TONE_PLAY", <<Number(0), Number(1)>>),
   Act("BeCalled", <<Number(0), Number(456)>>), Act("CallingFailed", <<Number(0)>>),
   Act("Talking", << >>), Act("BeOnHookCall", << >>), Act("Hook", <<Number(0)>>), Act("Empty", << >>),
   Act("InitServer", << >>), Act("InitServer", <<Text("CN")>>),
   <<Text("connect")>>, <<Text("connect"), Text("ip"), Text("port")>>, <<Text("shutdown")>>,
   <<Text("reaction")>>, <<Text("reaction"), Text("other")>>, <<Text("reaction"), Text("missing")>>,
   <<Text("msg"), Text("clear")>>, <<Text("msg"), Text("new")>>, <<Text("reload")>>, <<Text("reload"), Text("mixed")>>, <<Text("reload"), Text("address")>>,
   <<Text("reload"), Text("missing")>>,
   <<Text("send"), Text("all")>>, <<Text("help")>>}

(* Numbers dialled one after the other; a call and a command; loads.       *)
Acts(user, far, operator) == [user |-> user, far |-> far, operator |-> operator]
MCMaxActs == {Acts(5, 0, 0), Acts(3, 2, 0), Acts(2, 2, 1), Acts(0, 0, 2)}
===============================================================================
