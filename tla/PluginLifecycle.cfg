SPECIFICATION FairSpec
CONSTANTS
  None = None
  Partial = Partial
  Plugins = {p1}
  Versions = {v1, v2}
  Calls = {c1, c2}
  Workers = {w1, w2, w3}
  MaxConfig = 1
  Requests = 3
  Crashes = 1
CHECK_DEADLOCK FALSE
INVARIANTS WorkersExact ConfigHonest FilesSafe
PROPERTIES CallsReturn
