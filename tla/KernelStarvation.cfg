SPECIFICATION FairSpec
CONSTANTS
  MAX_TASKS = 3
  MAX_CORES = 2
  MaxPid = 3
  Priorities = {1}
  MaxTime = 0
  WORK_STEALING_ENABLED = FALSE
  Syscalls = {"wait", "futex_wake"}
  KernelOps = {"create"}
PROPERTY NothingStarves
