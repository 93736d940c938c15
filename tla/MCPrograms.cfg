SPECIFICATION Spec
CONSTANTS
  Directions = {"up"}
  QueueSlots = 2
  LogItems = 5
  TaskItems = 6
  MaxVisible = 4
  RandomBoards <- MCRandomBoards
  HistorySize = 2
  Interval = 2
  Late = 1
  MaxTick = 6
  Devices <- MCDevices
  Raws <- MCRaws
  Pressures <- MCPressures
  MaxTasks = 3
  Wrap = 1048576
  MaxTicks = 3
INVARIANTS
  ChangeNotForgotten
  StateMatchesBoard
  HardNeverLoses
  GliderGlides
  StoreIsRecentPast
  ReadingOnLine
  DeltasCoverPeriod
PROPERTIES
  RunsWhatIsMarked
  CpuSeesOneMoveAhead
