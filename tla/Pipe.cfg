SPECIFICATION Spec
CONSTANTS
  Procs = {p1, p2, p3}
  PIPESIZE = 2
  UINT = 4
  MaxN = 3
  Bytes = {0, 1}
  HoldR = {p1, p2}
  HoldW = {p2, p3}
  Killable = {p2}
  NONE = NONE
INVARIANTS
  
  SleepingWriterFull
  SleepingReaderEmpty
  FreedUnused
PROPERTIES
  PipeIsChannel
CHECK_DEADLOCK FALSE
