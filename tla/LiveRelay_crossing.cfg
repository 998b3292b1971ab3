SPECIFICATION Spec
CONSTANTS
  Total = 2
  RingSize = 3
  Worker = {w1, w2}
  MinRetransmits = 1
  DemoteMisses = 2
  DemoteGiveUps = 2
  Batch = 2
  Window = 2
  Good = {2}
  Impatient = FALSE
  Refusals = FALSE
  Lossy = FALSE
  ManifestKept = TRUE
INVARIANTS
  RetryBookkeeping
  StrikesAccounted
  PlacementsWereTrue
  NothingForgotten
  NothingUnannounced
  GoodRelayBlameless
  GoodRelayDelivers
