SPECIFICATION Spec
CONSTANTS
  NPROC = 3
  NCPU = 2
  MaxPid = 3
  Calls = {"fork", "wait", "kill"}
  KillPids = {2}
INVARIANTS
  KilledNotAsleep
