\* Five scenarios, one with a message that is too long; bytes split everywhere, and a
\* parent that dies between any two bytes.
SPECIFICATION FairSpec
CONSTANTS
  HeaderSize = 2
  Base = 3
  MaxFrameSize = 3
  Payload <- MCPayload
  Scenarios <- MCScenarios
INVARIANTS
  SameAsInMemory
  ExitCodes
PROPERTIES
  SessionEnds
  ChildEnds
\* The session is over and the child has ended.
CHECK_DEADLOCK FALSE
