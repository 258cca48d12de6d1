CONSTANTS
  QueueSize = 2
  WritesMayFail = TRUE
  MaxReports = 4
  MaxReboots = 2
  MaxRestarts = 1
SPECIFICATION FairSpec
INVARIANTS
  TypeOK
  QueueHoldsNewest
  StoredInOrder
  EveryMessageAccounted
  ReplyMeansDrained
  NoLostWakeup
PROPERTIES ReadySurvivesRestart ReportsProcessed
