SPECIFICATION Spec
CONSTANTS
  NULL = NULL
  Key <- MCKey
  Value <- MCValue
  Hash <- MCHash
  DictMinSz = 1
  Lines <- MCLines
  EditKeys <- MCEditKeys
  EditValues <- MCEditValues
  MaxSteps = 4
  AsciiLineSz = 11
INVARIANTS
  OneSlotPerKey
  LoadedAsWritten
  RefusedForLastError
  SectionsInFileOrder
  DumpLoadsAgain
PROPERTY ImplementsMap
CHECK_DEADLOCK FALSE
