\* Two slots, so that two applications meet on each display and the slot of one
\* that ended is taken again.  A main pane of two rows and two columns, a menu of
\* one cell, a queue of two characters; every budget is smaller than what there can
\* be to draw.
SPECIFICATION BothSpec
CONSTANTS
  MaxTasks = 7
  Slots = {5, 6}
  Commanders = {"shell"}
  RenderErrors = TRUE
  Capacity = 2
  CharsPerSlice = 1
  CellsPerSlice = 2
  AppCells = 3
  MenuCells = 2
  MenuPassCells = 1
  Rows = 2
  Columns = 2
  MenuRows = 1
  MenuColumns = 1
  Chars = {"a", " ", "lf", "bs", "up", "kill"}
  Texts = {"a"}
INVARIANTS
  OwnsWhileRunning
  NothingStaysTaken
  DarkWhenFree
  CursorIsShown
PROPERTIES
  OwnedPaneIsPrivate
  OutputIsShown
