SPECIFICATION Spec
CONSTANTS
  Conn = {c1, c2}
  NONE = NONE
  LISTEN = LISTEN
  Default = Default
  Own = Own
  MaxFd = 5
  Bounds <- MCBounds
INVARIANTS
  AnswersReachCaller
PROPERTIES
  RingingCallerKept
  ConnectionsEnd
  CallersGetAccepted
CHECK_DEADLOCK FALSE
