SPECIFICATION FairSpec
CONSTANTS
  Total = 4
  LastSize = 1
  Extra = 2
  Threshold = 0
  MaxChunks = 4
  MaxWire = 7
  MaxBacklog = 7
  Breaks = FALSE
  Impatient = FALSE
  StorageFails = FALSE
PROPERTIES
  BothSucceed
