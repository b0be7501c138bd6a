SPECIFICATION FairSpec
CONSTANTS
  NCPU = 1
  NENV = 3
  NBoot = 3
  MaxGen = 1
  Calls = {"yield", "recv", "try_send", "destroy"}
  StatusArgs = {"RUNNABLE"}
  MayTouchReceiver = FALSE
  MayRedestroy = FALSE
  SlowBoot = FALSE
PROPERTIES
  CircularOrder
  EventuallyServed
CHECK_DEADLOCK FALSE
