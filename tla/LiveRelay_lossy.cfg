SPECIFICATION FairSpec
CONSTANTS
  Total = 1
  RingSize = 2
  Worker = {w1}
  MinRetransmits = 1
  DemoteMisses = 2
  DemoteGiveUps = 2
  Batch = 1
  Window = 2
  Good = {1}
  Impatient = FALSE
  Refusals = FALSE
  Lossy = TRUE
  ManifestKept = TRUE
PROPERTIES
  EventuallyDelivered
