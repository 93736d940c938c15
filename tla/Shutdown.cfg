SPECIFICATION ShutdownSpec
CONSTANTS
  MaxTasks = 7
  Slots = {5}
  Commanders = {"shell"}
  RenderErrors = FALSE
INVARIANT
  DarkWhenHalted
