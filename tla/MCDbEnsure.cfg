CONSTANTS
  MaxChannels = 1
  MaxTables = 1
  Dates <- MCDates
  ListedDates <- MCListed
  Inherited <- MCInherited
  Messages <- MCMessages
  MaxWrites = 2
  MaxDrops = 0
  MaxSelects = 0
  MaxFaults = 0
SPECIFICATION Spec
CHECK_DEADLOCK FALSE
INVARIANT EnsuredTableExists
