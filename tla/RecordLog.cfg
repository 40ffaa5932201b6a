SPECIFICATION Spec
CONSTANTS
  NB = 3
  PPB = 2
  RPP = 2
  MaxRecords = 12
  MaxResets = 1
  MaxFaults = 2
  MaxRecovers = 1
INVARIANTS NeverLaps ReportedIsStored NotStuck InOrder
PROPERTY FifoSpec
CHECK_DEADLOCK FALSE
