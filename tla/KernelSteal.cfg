SPECIFICATION Spec
CONSTANTS
  MAX_TASKS = 3
  MAX_CORES = 3
  MaxPid = 3
  Priorities = {0}
  MaxTime = 0
  WORK_STEALING_ENABLED = TRUE
  Syscalls = {"yield", "exit", "create"}
  KernelOps = {"create", "cleanup"}
INVARIANTS TypeOK StackExclusive NoSleepOnWork TaskHasProcess
 
