SPECIFICATION DumpSpec
CONSTANTS
  HeapSize = 640
  HeaderSize = 32
  Alignment = 16
  Slots <- MCSlots
  LogMax = 2
  EntrySize = 40
  TextLengths <- MCTextLengths
INVARIANT
  DumpStaysInLog
