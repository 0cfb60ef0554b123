SPECIFICATION Spec
CONSTANTS
  NoRow = NoRow
  Outgoing = {o1}
  Incoming = {i1}
  Historic = {i1}
  Reacted = {o1}
  Revocable = {o1}
  Senders = {a}
  PerSender = 2
  Fires = 2
  Faults = TRUE
CHECK_DEADLOCK FALSE
INVARIANTS OutcomeShown InboundOnce
PROPERTIES OnlyForward
