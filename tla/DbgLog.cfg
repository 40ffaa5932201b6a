\* Two messages, or one of the longest, fill the room; pieces as long as the room.
CONSTANTS
  High = {h}
  Low = {l1, l2}
  Size = 6
  Reserve = 3
  Chunk = 3
  MaxLen = 3
  MaxBytes = 10
SPECIFICATION FairSpec
INVARIANTS UnsentIntact LengthWaits
PROPERTIES BufferHolds LoggedIsSent
CHECK_DEADLOCK FALSE
