\* Two Turns in a row, three calls on them in all: which calls are in the plan that is built.
SPECIFICATION Spec
CONSTANTS
  u1 = u1
  u2 = u2
  c1 = c1
  Ids <- MCIds
  Cells <- MCCells
  NoAction = NoAction
  NoId = NoId
  NoCell = NoCell
  States <- MCStates
  Used <- MCUsed
  MaxTick = 2
  MaxTurns = 2
  MaxCalls = 3
INVARIANTS
  PlanIsLastCalls
  PlanIsLegal
  PricesExact
PROPERTIES
  OnlyCurrentTurn
\* After close() the system may stop for good.
CHECK_DEADLOCK FALSE
