SPECIFICATION FairSpec
CONSTANTS
  MAX_TASKS = 3
  MAX_CORES = 2
  MaxPid = 3
  Priorities = {0, 1, 2}
  MaxTime = 0
  WORK_STEALING_ENABLED = FALSE
  Syscalls = {"yield"}
  KernelOps = {"create"}
PROPERTY NothingStarves
