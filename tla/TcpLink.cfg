SPECIFICATION Spec
CONSTANTS
  N = 3
  Passes = 1
  MaxFails = 1
INVARIANTS PoolIntact ServesOne LinkKnown
PROPERTIES LiveLinkKept LostLinkRetried
CHECK_DEADLOCK FALSE
