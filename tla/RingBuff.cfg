\* A ring of four slots (three units in use at most), units of two bytes, a
\* stream long enough to go round the ring twice.
CONSTANTS N = 4
          UnitSize = 2
          SendMax = 2
          MaxUnits = 9
SPECIFICATION FairSpec
INVARIANTS TypeOK SenderFillsDatagram
PROPERTIES FifoSpec AcceptedIsDelivered
