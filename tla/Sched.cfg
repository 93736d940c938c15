CONSTANTS
  MaxTasks = 4
  BootTasks = 2
  MaxSleep = 1
  TickBound = 1
SPECIFICATION FairSpec
INVARIANTS
  CpuOwner
  NeverPanics
  NoOverdueSleeper
  IdleWaitSafe
  RuntimeAccounted
PROPERTIES
  StoppedStaysStopped
  SwitchKeepsCallerSlot
  ReadyRuns
