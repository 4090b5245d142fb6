\* Three telephones, a pause of two ticks and numbers of one digit: the second digit is one too
\* many, and a timer can be restarted by the digit of a new number or run out before it comes.
CONSTANTS
  Endpoints = {"phone0", "phone1", "phone2"}
  Timeout = 2
  VT_INPUT_NUM_MAX = 1
  MaxTime = 4
SPECIFICATION FairSpec
INVARIANTS
  OwnTimer
  SleepsUntilEarliest
  NoneOverlooked
PROPERTIES
  RunsAfterPause
  DiallingEnds
CHECK_DEADLOCK FALSE
