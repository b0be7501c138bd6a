SPECIFICATION FairSpec
CONSTANTS
  NCPU = 2
  NENV = 2
  NBoot = 1
  MaxGen = 1
  Calls = {"destroy", "yield", "exofork", "set_status", "try_send", "recv"}
  StatusArgs = {"RUNNABLE"}
  MayTouchReceiver = FALSE
  MayRedestroy = FALSE
  SlowBoot = FALSE
INVARIANTS
  RecvMeansDelivered
PROPERTIES
  EventuallyServed
CHECK_DEADLOCK FALSE
