\* A helper outlives the child it was started by.
SPECIFICATION Spec
CONSTANTS
  Kinds <- MCFrames
  Forks = TRUE
  Closes = TRUE
  Deadline = TRUE
  PipeSize = 1
  MaxFrames = 1
  MaxCalls = 1
INVARIANTS
  TreeTerminated
\* main may stop calling, the child may sleep for ever.
CHECK_DEADLOCK FALSE
