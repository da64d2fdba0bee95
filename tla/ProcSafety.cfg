SPECIFICATION Spec
CONSTANTS
  NPROC = 3
  NCPU = 2
  MaxPid = 3
  Calls = {"fork", "exit", "wait", "fault"}
  KillPids = {}
INVARIANTS
  TypeOK
  LockDiscipline
  StackExclusive
  SchedReady
  PidUnique
  UnusedUnreferenced
  ParentAlive
  NoLostWakeup
