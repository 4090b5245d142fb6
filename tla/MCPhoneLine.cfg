SPECIFICATION Spec
CONSTANTS
  endpt = 0
  VT_INPUT_NUM_MAX = 2
  Keys = {"1", "*"}
  Files <- MCFiles
  Configs <- MCConfigs
  Commands <- MCCommands
  CallEvents = {"CALLING", "CALL_ACCEPT", "CALL_DOWN", "CALL_REJECT"}
  MaxQueue = 2
  BreakAt = {2, 4}
  MaxActs <- MCMaxActs
INVARIANTS
  TypeOK
  ServerMatchesState
  RunsAsLoaded
  CalledIsDialled
PROPERTIES
  TalkHasRtp
CHECK_DEADLOCK FALSE
