---------------------------- MODULE MCVoipHelper ----------------------------
\* Far ends that write twice, or an operator who types twice, or one of each.
EXTENDS VoipHelper

MCBounds == {[typed |-> 0, told |-> 2], [typed |-> 1, told |-> 1], [typed |-> 2, told |-> 0]}
=============================================================================
