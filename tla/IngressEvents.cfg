SPECIFICATION FairSpec
CONSTANTS
  Deliveries = {d1, d2}
  Conversation = {d1, d2}
  Operators = {r1}
  NoRedrive = NoRedrive
  Workers = 2
  MaxRows = 1
  Outages = TRUE
  Faults = TRUE
  MaxCrashes = 1
CHECK_DEADLOCK FALSE
INVARIANTS NoSilentLoss OnceInOrder
PROPERTIES EveryEventSettles
