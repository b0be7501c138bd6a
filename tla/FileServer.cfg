SPECIFICATION FairSpec
CONSTANTS
  c1 = c1
  c2 = c2
  Client = {c1, c2}
  MayCall <- ParentAndChild
  Root = c1
  MAXOPEN = 2
  MAXFD = 2
  Path = {f1, f2}
  NoFile = NoFile
  Gone = Gone
  MaxId = 4
  MemoryMayRunOut = TRUE
INVARIANTS
  TypeOK
  DescriptorsStable
  NeverRefused
  RepliesMatch
PROPERTY Answered
CHECK_DEADLOCK FALSE
