SPECIFICATION LocalSpec
CONSTANTS
  Total = 3
  LastSize = 1
  Extra = 1
  Threshold = 0
  MaxChunks = 3
  MaxWire = 5
  MaxBacklog = 3
  Breaks = TRUE
  Impatient = TRUE
  StorageFails = TRUE
INVARIANTS
  FileInOrder
  NoFalseAlarm
  BacklogBounded
PROPERTIES
  HeldIsSafe
  DeliversFile
  NobodyHangs
