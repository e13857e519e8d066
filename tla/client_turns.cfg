\* One generator consumed through turns(): replacement states, late receipts, lost
\* connections, abandonment, close() at every point.
SPECIFICATION Spec
CONSTANTS
  Iterators = {i1}
  TurnsIterators = {i1}
  Sources = {s1}
  NoSocket = NoSocket
  MinDelay = 10
  MaxDelay = 10
  Statuses = {}
  CloseCodes <- MCAbnormal
  RetryAfters = {}
  LaxServer = FALSE
  Repeats = TRUE
  MaxTick = 2
  MaxFails = 0
  MaxWire = 1
  MaxStates = 3
INVARIANTS
  OneOpenTurn
  ReceiptsCurrent
  ClosedMeansSealed
  HandedOnce
  TurnHasTickOfState
PROPERTIES
  LifeSpec
\* After close() the system may stop for good.
CHECK_DEADLOCK FALSE
