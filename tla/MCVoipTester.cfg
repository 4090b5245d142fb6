\* Two connections, a session table of one entry, and three things that arrive from
\* outside or time out: a session is opened, sends twice, or the server closes.
CONSTANTS
  StoreEventMax = 2
  SessFdsMax = 1
  MaxConnects = 2
  MaxInputs = 3
SPECIFICATION FairSpec
PROPERTIES
  ClosedSessionsSilent
  ConnectReachesListener
  SessionsServed
CHECK_DEADLOCK FALSE
