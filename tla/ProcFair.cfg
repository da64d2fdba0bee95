SPECIFICATION FairSpec
CONSTANTS
  NPROC = 2
  NCPU = 2
  MaxPid = 3
  Calls = {"fork", "exit", "wait", "kill", "fault"}
  KillPids = {0, 1, 2}
INVARIANTS
  NoLostWakeup

  
