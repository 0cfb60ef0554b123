SPECIFICATION FairSpec
CONSTANTS
  Deliveries = {d1, d2}
  Retries = 2
  Concurrency = 1
  QueueEnabled = TRUE
  MaxStalls = 1
  MaxCrashes = 2
  Faults = TRUE
CHECK_DEADLOCK FALSE
 
PROPERTIES AttemptsExact EveryDeliveryEnds
