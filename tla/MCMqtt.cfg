CONSTANTS
  Topics = {report, keepAlive}
  report = report
  keepAlive = keepAlive
  FirstConnectWorks = FALSE
  SlowAnswers = FALSE
  AppStops = TRUE
  MaxCalls = 3
  MaxFaults = 2
SPECIFICATION FairSpec
INVARIANTS
  TypeOK
  SessionIsRecorded
  RestsSubscribed
PROPERTIES
  ConnectsAgain
  SubscribesAgain
  StopEndsRun
CHECK_DEADLOCK FALSE
