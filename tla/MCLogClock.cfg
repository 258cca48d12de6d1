CONSTANTS
  SizeThreshold = 1
  TimeInterval = 3
  MaxLogFiles = 1
  Word = 16
  MaxLines = 3
  MaxSeconds = 3
  MaxFaults = 0
  MaxSetbacks = 1
  MaxRestarts = 0
SPECIFICATION Spec
PROPERTY RotatesWhenDue
CHECK_DEADLOCK FALSE
