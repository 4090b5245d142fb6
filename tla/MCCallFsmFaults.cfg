\* Two programs, wrong numbers, key codes, a session table of one entry, and actions
\* that fail because the VoIP server is gone.
CONSTANTS
  Hosts = {"tester", "outer"}
  Phones = {"123", "789"}
  HostOf <- TwoHosts
  Dials <- CallAnything
  Flashers = {"123"}
  SessFdsMax = 1
  ActionResults = {TRUE, FALSE}
  MaxCalls = 2
  MaxActs <- Acts321
SPECIFICATION Spec
INVARIANTS
  SessionOwned
  AddressedToOwner
  AnsweredOnce
  RingingIsWatched
CHECK_DEADLOCK FALSE
