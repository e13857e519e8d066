\* The reconnect loop against every class of handshake refusal and of close code, two
\* generators competing for the client, under the fairness of FairSpec.
SPECIFICATION FairSpec
CONSTANTS
  Iterators = {i1, i2}
  TurnsIterators = {}
  Sources = {s1}
  NoSocket = NoSocket
  MinDelay = 10
  MaxDelay = 30
  Statuses <- MCStatuses
  CloseCodes <- MCCloseCodes
  RetryAfters <- MCRetryAfters
  LaxServer = FALSE
  Repeats = FALSE
  MaxTick = 1
  MaxFails = 3
  MaxWire = 0
  MaxStates = 0
INVARIANTS
  RetryExactlyTransient
  BackoffExact
  OneIterator
  SocketInUse
PROPERTIES
  Reconnects
  CloseEndsGenerator
\* After close() the system may stop for good.
CHECK_DEADLOCK FALSE
