SPECIFICATION FairSpec
CONSTANTS
  MAX_TASKS = 2
  MAX_CORES = 2
  MaxPid = 2
  Priorities = {0}
  MaxTime = 0
  WORK_STEALING_ENABLED = FALSE
  Syscalls = {"wait", "futex_wake"}
  KernelOps = {"create", "input"}
INVARIANT NoLostEvent
PROPERTY EventEndsWait
