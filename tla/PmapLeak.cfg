SPECIFICATION Spec
CONSTANTS
  NPAGE = 9
  Envs = {e1, e2}
  CPUs = {c1, c2}
  VAs <- WithStack
  ImageVA <- ZeroVA
  StackVA <- Stack
  Ops = {"exit"}
  RefLimit = 65536
  MayEditRunning = FALSE
  NULL = NULL
INVARIANTS
  NothingLost
VIEW UpToRenaming
CHECK_DEADLOCK FALSE
