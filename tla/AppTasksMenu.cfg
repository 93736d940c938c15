SPECIFICATION Spec
CONSTANTS
  MaxTasks = 7
  Slots = {5, 6}
  Commanders = {"shell", "menu"}
  RenderErrors = FALSE
INVARIANT
  DiagDashOwnsPane
