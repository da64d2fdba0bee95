SPECIFICATION Spec
CONSTANTS
  MaxEvents = 3
INVARIANTS
  TypeOK
  RunsAccounted
  TrapsAccounted
  HistoryBounds
CHECK_DEADLOCK FALSE
