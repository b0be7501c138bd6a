SPECIFICATION Spec
CONSTANTS
  NCPU = 2
  NENV = 2
  NBoot = 1
  MaxGen = 1
  Calls = {"yield"}
  StatusArgs = {"RUNNABLE", "NOT_RUNNABLE"}
  MayTouchReceiver = FALSE
  MayRedestroy = FALSE
  SlowBoot = TRUE
INVARIANTS
  KernelMutex
CHECK_DEADLOCK FALSE
