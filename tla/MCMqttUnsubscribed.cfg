CONSTANTS
  Topics = {report, keepAlive}
  report = report
  keepAlive = keepAlive
  FirstConnectWorks = TRUE
  SlowAnswers = FALSE
  AppStops = FALSE
  MaxCalls = 1
  MaxFaults = 1
SPECIFICATION FairSpec
PROPERTY EventuallySubscribed
CHECK_DEADLOCK FALSE
