SPECIFICATION Spec
CONSTANTS
  numChildren = 6
  targetChild = 2
INVARIANTS
  OneMessage
  AckMeansDelivered
PROPERTIES
  ParentFinishes
  
CHECK_DEADLOCK FALSE
