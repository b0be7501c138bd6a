SPECIFICATION Spec
CONSTANTS
  NCPU = 3
  NENV = 2
  NBoot = 2
  MaxGen = 1
  Calls = {"destroy", "yield", "exofork", "set_status", "set_trapframe", "try_send", "recv", "recv_unaligned", "disable_irq", "enable_irq", "other"}
  StatusArgs = {"RUNNABLE", "NOT_RUNNABLE"}
  MayTouchReceiver = FALSE
  MayRedestroy = FALSE
  SlowBoot = FALSE
INVARIANTS
  TypeOK
  KernelMutex
  RunningIsCurrent
  FreeListExact
  ResumesAfterCall
  ReceiverAsleep
CHECK_DEADLOCK FALSE
