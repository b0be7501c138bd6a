SPECIFICATION Spec
CONSTANTS
  parent = parent
  child = child
  third = third
  Env = {parent, child}
  Creator = parent
  Reader = child
  Writer = parent
  MayCall <- Couple
  Fds = {0, 1}
  PIPEBUFSIZ = 2
  Sizes = {1}
  MaxBytes = 1
  SMP = FALSE
PROPERTY
  EofMeansDrained
CHECK_DEADLOCK FALSE
