CONSTANTS
  Topics = {report, keepAlive}
  report = report
  keepAlive = keepAlive
  FirstConnectWorks = FALSE
  SlowAnswers = FALSE
  AppStops = FALSE
  MaxCalls = 1
  MaxFaults = 0
SPECIFICATION FairSpec
PROPERTY EventuallyConnected
CHECK_DEADLOCK FALSE
