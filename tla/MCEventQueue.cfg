\* The shipped configuration (storeEventMax = 3); a round of the processor puts at
\* most two events (hookFlashAny).
CONSTANTS
  StoreEventMax = 3
  HandlerPuts = 2
  MaxEvents = 6
SPECIFICATION FairSpec
INVARIANTS
  TypeOK
  RemembersLastEvents
  PDataOwnership
  NoLostWakeup
PROPERTIES
  ImplementsFifo
  PutReturns
  EventsConsumed
