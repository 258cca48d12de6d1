CONSTANTS
  MaxChannels = 1
  MaxTables = 2
  Dates <- MCDates
  ListedDates <- MCListed
  Inherited <- MCInherited
  Messages <- MCMessages
  MaxWrites = 3
  MaxDrops = 1
  MaxSelects = 1
  MaxFaults = 2
SPECIFICATION Spec
CHECK_DEADLOCK FALSE
INVARIANTS
  TypeOK
  TableLimitUpToFaults
  AnswerIsTrue
  AnsweredIsKept
  RowsInPlace
  SelectFindsStored
  SelectIsWhole
PROPERTY CleanupKeepsNewest
