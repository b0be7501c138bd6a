SPECIFICATION Spec
CONSTANTS
  parent = parent
  child = child
  third = third
  Env = {parent, child, third}
  Creator = parent
  Reader = child
  Writer = parent
  MayCall <- Family
  Fds = {0, 1}
  PIPEBUFSIZ = 2
  Sizes = {3}
  MaxBytes = 3
  SMP = FALSE
INVARIANT
  TypeOK
PROPERTIES
  ClosedIsTrue
  IsChannel
CHECK_DEADLOCK FALSE
