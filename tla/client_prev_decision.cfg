\* The decision time of the previous tick in tick_summary.
SPECIFICATION Spec
CONSTANTS
  Iterators = {i1}
  TurnsIterators = {i1}
  Sources = {s1}
  NoSocket = NoSocket
  MinDelay = 10
  MaxDelay = 10
  Statuses = {}
  CloseCodes <- MCAbnormal
  RetryAfters = {}
  LaxServer = FALSE
  Repeats = FALSE
  MaxTick = 2
  MaxFails = 0
  MaxWire = 2
  MaxStates = 2
PROPERTIES
  PrevDecisionReported
\* After close() the system may stop for good.
CHECK_DEADLOCK FALSE
