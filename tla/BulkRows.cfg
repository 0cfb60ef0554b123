SPECIFICATION Spec
CONSTANTS
  Batches = {b1, b2}
  StopOnError = {b2}
  Cancels = {c1, c2}
  NoRow = NoRow
  Total = 3
  Cadence = 2
  MaxBatches = 1
  Remote = {c2}
  Faults = TRUE
  Crashes = TRUE
CHECK_DEADLOCK FALSE
INVARIANTS Consistent RowHonest NoResend CancelHolds
