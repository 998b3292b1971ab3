SPECIFICATION FairSpec
CONSTANTS
  Receiver = {r1, r2, r3}
  Mistyped = {r2}
  Older = {r3}
  Limit = 2
  Attempts = 2
  MaxPins = 1
  MaxBucket = 1
  Slow = FALSE
  Impatient = TRUE
  Lossy = FALSE
INVARIANTS
  SingleUse
  GuessesMetered
PROPERTIES
  NothingAfterwards
  HonestIsServed
  LockedLearns
