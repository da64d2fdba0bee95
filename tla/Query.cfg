SPECIFICATION QSpec
CONSTANTS
  NPROC = 3
  NCPU = 1
  MaxPid = 3
  Calls = {"fork", "exit", "wait"}
  KillPids = {}
  Queries = {"getppid", "ps"}
INVARIANTS
  
  GetppidFindsParent
