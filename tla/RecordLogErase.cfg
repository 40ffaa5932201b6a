SPECIFICATION Spec
CONSTANTS
  NB = 4
  PPB = 2
  RPP = 2
  MaxRecords = 15
  MaxResets = 0
  MaxFaults = 0
  MaxRecovers = 0
INVARIANT UnreadIntact
CHECK_DEADLOCK FALSE
