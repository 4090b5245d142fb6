---------------------------- MODULE MCActionDebug ----------------------------
EXTENDS ActionDebug

\* Two messages are enough to stop before one of them and between them.
OffHook == [a \in {"OffHook"} |-> <<"SLIC_CONTROL", "TONE_PLAY">>]
=============================================================================
