SPECIFICATION Spec
CONSTANTS
  s1 = s1
  Sessions = {s1}
  e1 = e1
  e2 = e2
  Engines = {e1, e2}
  t1 = t1
  t2 = t2
  Tasks = {t1, t2}
  NoEngine = NoEngine
  NoReconnect = NoReconnect
  MaxAttempts = 1
  MaxConcurrent = 0
  MaxStray = 1
  Serial = {}
  Faults = TRUE
SYMMETRY Symmetry
INVARIANTS Consistent
PROPERTIES ReadyIsRegistered
