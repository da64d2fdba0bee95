SPECIFICATION Spec
CONSTANTS
  b1 = b1
  b2 = b2
  b3 = b3
  b4 = b4
  b5 = b5
  o1 = o1
  o2 = o2
  o3 = o3
  NoBuf = NoBuf
  Blocks <- ThreeBlocks
  Vals = {0, 1}
  Ops <- TwoOps
  LOGSIZE = 6
  MAXOPBLOCKS = 3
  LogBlocks = 6
  OpBlocks = 2
INVARIANTS
  QuiescentDurable
PROPERTIES
  CrashAtomic
