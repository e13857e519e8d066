\* Two concurrent calls, which may share a caller key, two attempts each.
SPECIFICATION FairSpec
CONSTANTS
  Calls = {c1, c2}
  CallerKeys = {k1}
  Plans = {p1, p2}
  NoPlan = NoPlan
  NoKey = NoKey
  Retries = 1
  Refusals = {400}
  GatewayStatuses = {500, 504}
INVARIANTS
  TypeOK
  ExactRetry
  OnePlanPerKey
  FailuresTell
PROPERTIES
  StoreSpec
  CallsEnd
\* Every call may have ended and the client be closed.
CHECK_DEADLOCK FALSE
