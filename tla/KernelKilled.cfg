SPECIFICATION FairSpec
CONSTANTS
  MAX_TASKS = 2
  MAX_CORES = 2
  MaxPid = 2
  Priorities = {0}
  MaxTime = 1
  WORK_STEALING_ENABLED = FALSE
  Syscalls = {"sleep", "wait"}
  KernelOps = {"create", "kill"}
PROPERTY KilledTaskExits
