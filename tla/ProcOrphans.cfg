SPECIFICATION FairSpec
CONSTANTS
  NPROC = 3
  NCPU = 1
  MaxPid = 3
  Calls = {"fork", "exit", "wait"}
  KillPids = {}
PROPERTIES
  ZombieReaped
