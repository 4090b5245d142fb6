\* One connection, and room for two events, a session and dialled numbers.
CONSTANTS
  StoreEventMax = 2
  SessFdsMax = 1
  MaxConnects = 1
  MaxInputs = 5
SPECIFICATION Spec
INVARIANTS
  ConsumerCanCome
CHECK_DEADLOCK FALSE
