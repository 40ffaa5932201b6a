CONSTANTS
  Size = 3
  Width = 4
  MaxBytes = 12
  TxSize = 4
  MaxLen = 2
  MaxSent = 7
SPECIFICATION UartSpec
INVARIANTS UartTypeOK TakenInOrder LapsCounted FullNoticed UnsentIntact
PROPERTIES Resumes PutIsSent
CHECK_DEADLOCK FALSE
