CONSTANTS
  QueueSize = 2
  WritesMayFail = FALSE
  MaxReports = 2
  MaxReboots = 1
  MaxRestarts = 0
SPECIFICATION Spec
INVARIANT ReadyMeansDrained
