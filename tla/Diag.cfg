SPECIFICATION Spec
CONSTANTS
  Slots = {0, 1, 2}
  Wrap = 1048576
  MaxTicks = 3
INVARIANT BusyIsShare
