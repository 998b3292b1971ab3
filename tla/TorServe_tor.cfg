SPECIFICATION FairSpec
CONSTANTS
  x1 = x1
  h1 = h1
  s1 = s1
  s2 = s2
  NoConn = NoConn
  Conn = {x1, h1, s1, s2}
  Honest = {h1, s1, s2}
  Steady = {s1, s2}
  Chunks = 1
  MaxFailed = 3
INVARIANTS
  OutcomesAgree
PROPERTIES
  SteadyIsServed
  ServingEnds
CHECK_DEADLOCK FALSE
