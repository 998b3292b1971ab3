SPECIFICATION FairSpec
CONSTANTS
  Runs = 2
  Flips = 2
INVARIANTS
  HelloIsTrue
  KeysWiped
  NothingLeftBehind
PROPERTIES
  EverybodyEnds
CHECK_DEADLOCK FALSE
