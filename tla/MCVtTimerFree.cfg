\* Two telephones are enough: the one that dialled first dials on, and the other
\* one's pause ends first.
CONSTANTS
  Endpoints = {"phone0", "phone1"}
  Timeout = 2
  VT_INPUT_NUM_MAX = 2
  MaxTime = 5
SPECIFICATION Spec
INVARIANT LinkedAreAllocated
CHECK_DEADLOCK FALSE
