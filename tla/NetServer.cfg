SPECIFICATION FairSpec
CONSTANTS
  Client = {c1}
  Main = Main
  Tcpip = Tcpip
  None = None
  QUEUE_SIZE = 3
  MBOXSLOTS = 2
  MaxYields = 32
  MaxPackets = 4
  MaxGen = 3
  MaxLost = 1
  CloseAnyTime = FALSE
INVARIANTS
  TypeOK
  SlotsExact
  AssertsHold
  PacketsInOrder
  NothingLeftBehind
  BuffersAccounted
PROPERTY
  Answered
CHECK_DEADLOCK FALSE
