SPECIFICATION Spec
CONSTANTS
  MaxTasks = 5
  BootTasks = 3
  Mutexes = {1}
  DeviceLocks = {1}
  Commanders = {1}
  StrayWoken = {1, 2}
  Stoppable = {3, 4}
  OneAppOnly = {1}
INVARIANTS
  NoLostWakeup
