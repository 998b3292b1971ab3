SPECIFICATION Spec
CONSTANTS
  Seed = {s1, s2}
  Candidate = {c1, c2, c3, c4}
  Count = 2
  MinControl = 1
  ReserveCount = 1
  RingCount = 2
  MinUpload = 1
  Concurrency = 2
  MinSettled = 1
  MaxSends = 0
SYMMETRY Alike
PROPERTIES
  MissedRingIsReserve
CHECK_DEADLOCK FALSE
