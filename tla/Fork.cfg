SPECIFICATION FairSpec
CONSTANTS
  Env = {e1, e2}
  First = e1
  NPAGE = 8
  NIMAGE = 1
  Value = {0, 1}
  None = None
INVARIANTS
  TypeOK
  FaultsHandled
PROPERTIES
  IsPrivate
  Finishes
VIEW UpToRenaming
CHECK_DEADLOCK FALSE
