SPECIFICATION Spec
CONSTANTS
  NPAGE = 9
  Envs = {e1, e2}
  CPUs = {c1, c2}
  VAs <- Near
  ImageVA <- ZeroVA
  StackVA <- NearStack
  Ops = {"alloc", "map", "unmap", "recv", "send", "fork", "exit", "touch"}
  RefLimit = 65536
  MayEditRunning = FALSE
  NULL = NULL
INVARIANTS
  TypeOK
  RefCountsExact
  TablesPrivate
  TlbCoherent
VIEW UpToRenaming
CHECK_DEADLOCK FALSE
