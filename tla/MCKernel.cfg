SPECIFICATION KernelSpec
CONSTANTS
  NestedTasks = 3
  MaxTasks = 5
  BootTasks = 3
  Mutexes = {1, 2}
  DeviceLocks = {1}
  Commanders = {1}
  StrayWoken = {1, 2}
  Stoppable = {3, 4}
  OneAppOnly = {1}
  Clients = {1, 3}
  WokenEarly = {1}
  StoppableClients = {3}
  MaxLen = 2
  HeapSize = 336
  HeaderSize = 32
  Alignment = 16
  Slots <- MCSlots
  LogMax = 2
  EntrySize = 40
  TextLengths <- MCTextLengths
INVARIANTS
  MutualExclusion
  SleepersAreQueued
  RecordSound
  ResultHonest
  HeapWellFormed
  NothingLeaks
PROPERTIES
  WakeupsLostInTwoWays
  ImplementsLock
  JobEnds
  AppendIsQueue
