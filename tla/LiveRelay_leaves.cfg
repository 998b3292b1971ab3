SPECIFICATION FairSpec
CONSTANTS
  Total = 1
  RingSize = 2
  Worker = {w1}
  MinRetransmits = 1
  DemoteMisses = 2
  DemoteGiveUps = 2
  Batch = 1
  Window = 1
  Good = {1}
  Impatient = TRUE
  Refusals = TRUE
  Lossy = TRUE
  ManifestKept = FALSE
PROPERTIES
  DeliversFile
  SettledLeaves
