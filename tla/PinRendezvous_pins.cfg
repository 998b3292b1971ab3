SPECIFICATION FairSpec
CONSTANTS
  Receiver = {r1, r2}
  Mistyped = {}
  Older = {}
  Limit = 1
  Attempts = 1
  MaxPins = 2
  MaxBucket = 2
  Slow = TRUE
  Impatient = TRUE
  Lossy = TRUE
INVARIANTS
  RetainedAreCurrent
  Agreement
PROPERTIES
  ShownIsHonoured
  EventuallyWiped
