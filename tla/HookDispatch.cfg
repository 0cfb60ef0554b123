SPECIFICATION HooksSpec
CONSTANTS
  None = None
  p1 = p1
  p2 = p2
  Plugins <- ThePlugins
  Known <- OneRow
  Priority <- Priorities
  Workers = {w1, w2}
  Execs = {x1, x2}
  Caps = {k1, k2}
  MaxCaps = 1
  Events = 1
  Enables = 2
  Requests = 2
CHECK_DEADLOCK FALSE
SYMMETRY Symmetry
INVARIANTS EachOnce RightPlugins
PROPERTY UpsertKeepsHandover
