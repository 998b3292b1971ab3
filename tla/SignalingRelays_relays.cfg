SPECIFICATION Spec
CONSTANTS
  Seed = {s1, s2, s3}
  Candidate = {c1, c2, c3}
  Count = 3
  MinControl = 2
  ReserveCount = 1
  RingCount = 1
  MinUpload = 1
  Concurrency = 3
  MinSettled = 1
  MaxSends = 2
SYMMETRY Alike
INVARIANTS
  SubscriptionsStand
  PeerIsHeard
  PlacesAccounted
  SendsAnswered
CHECK_DEADLOCK FALSE
