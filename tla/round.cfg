\* Every child of up to three frames, with and without a deadline and a helper, and every
\* handler.
SPECIFICATION FairRoundSpec
CONSTANTS
  Kinds <- MCReplies
  Forks = TRUE
  Closes = FALSE
  Deadline = TRUE
  PipeSize = 2
  MaxFrames = 3
  MaxCalls = 6
INVARIANTS
  OkMeansExchange
  StatusHasCause
  RoundReleases
PROPERTIES
  RoundEnds
\* The round is over and the child dead.
CHECK_DEADLOCK FALSE
