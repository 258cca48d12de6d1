CONSTANTS
  SizeThreshold = 2
  TimeInterval = 2
  MaxLogFiles = 1
  Word = 16
  MaxLines = 4
  MaxSeconds = 3
  MaxFaults = 2
  MaxSetbacks = 1
  MaxRestarts = 1
SPECIFICATION Spec
INVARIANTS
  TypeOK
  CurrentBounded
  ArchivesBounded
  SilenceBounded
PROPERTIES
  LostOnlyByCleanup
  OldestDeleted
CHECK_DEADLOCK FALSE
