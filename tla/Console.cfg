SPECIFICATION FairSpec
CONSTANTS
  MaxTasks = 3
  TxSlots = 3
  TxDepth = 1
  MaxBytes = 2
  TxPeriod = 4
  StrayWoken = {1}
  Printable = {"a"}
  FifoSize = 2
  RxSize = 3
  LineSize = 3
  TraceSize = 3
  TracePeriod = 5
  Dumpers = {"shell", "menu"}
INVARIANTS
  BytesInOrder
  EchoIsLine
PROPERTIES
  WaiterIsWoken
  RingIsQueue
  InputIsRead
  TraceKeepsNewest
  DumpIsFinite
