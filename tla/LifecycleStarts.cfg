SPECIFICATION FairSpec
CONSTANTS
  s1 = s1
  s2 = s2
  Sessions = {s1, s2}
  e1 = e1
  Engines = {e1}
  t1 = t1
  t2 = t2
  Tasks = {t1, t2}
  NoEngine = NoEngine
  NoReconnect = NoReconnect
  MaxAttempts = 0
  MaxConcurrent = 1
  MaxStray = 0
  Serial = {s2}
  Faults = FALSE
INVARIANTS StopHolds BooksHonest
PROPERTIES ImplementsSlots EveryCallReturns
