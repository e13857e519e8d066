\* Two threads share the sink: a blocking client closed by another thread than the one
\* that reads its events; events are also emitted after close().
SPECIFICATION FairSpec
CONSTANTS
  Callers = {t1, t2}
  Capacity = 2
  BatchSize = 2
  MaxEvents = 3
INVARIANTS
  OneCallerIsSafe
PROPERTIES
  LedgerSpec
  BatchedIsPosted
\* Every event may be settled, the sink closed and its threads dead.
CHECK_DEADLOCK FALSE
