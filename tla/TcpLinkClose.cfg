SPECIFICATION Spec
CONSTANTS
  N = 3
  Passes = 1
  MaxFails = 0
INVARIANT NoBogusHandle
CHECK_DEADLOCK FALSE
