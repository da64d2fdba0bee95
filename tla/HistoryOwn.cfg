SPECIFICATION Spec
CONSTANTS
  MaxEvents = 3
INVARIANTS
  CountersAreOwn
CHECK_DEADLOCK FALSE
