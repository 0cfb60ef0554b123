SPECIFICATION Spec
CONSTANTS
  None = None
  AnySession = AnySession
  x = x
  y = y
  Keys = {k1}
  Sessions <- TheSessions
  Scopes <- AllowLists
  Sockets = {s1}
  Calls = {c1, c2}
  Uses = 3
  MaxClock = 2
  Crashes = 1
CHECK_DEADLOCK FALSE
SYMMETRY Symmetry
INVARIANTS Consistent ChangeHolds
PROPERTIES JoinsWithinDecision
