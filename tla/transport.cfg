\* Calls, crashes, signals and a deadline, with a helper: what recv() hands out and reports,
\* and what close() by main and by the watchdog leaves behind.
SPECIFICATION FairSpec
CONSTANTS
  Kinds <- MCFrames
  Forks = TRUE
  Closes = TRUE
  Deadline = TRUE
  PipeSize = 1
  MaxFrames = 2
  MaxCalls = 2
INVARIANTS
  ViolationCloses
  Released
PROPERTIES
  StreamSpec
  EndIsReported
  CallsEnd
\* main may stop calling, the child may sleep for ever.
CHECK_DEADLOCK FALSE
