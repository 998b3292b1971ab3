SPECIFICATION FairSpec
CONSTANTS
  a1 = a1
  a2 = a2
  a3 = a3
  b1 = b1
  p = p
  q = q
  Caller = {a1, a2, a3, b1}
  Process = {p, q}
  Proc <- MCProc
  Reentrant = TRUE
  Steady = {a3, b1}
INVARIANTS
  NothingLost
PROPERTIES
  ChangesAreAtomic
  SteadyIsKept
