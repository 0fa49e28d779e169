SPECIFICATION Spec
CONSTANTS
  MAX_TASKS = 1
  MAX_CORES = 2
  MaxPid = 1
  Priorities = {0}
  MaxTime = 1
  WORK_STEALING_ENABLED = TRUE
  Syscalls = {"sleep"}
  KernelOps = {"create", "kill"}
INVARIANT KillWakesSleeper
