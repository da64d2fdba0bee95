SPECIFICATION Spec
CONSTANTS
  numReceiver = 5
  MAX_NUM_RECEIVERS = 6
  Stale = {0}
INVARIANTS
  AckMeansAllReceived
  FlagsArePending
PROPERTIES
  BroadcastCompletes
CHECK_DEADLOCK FALSE
