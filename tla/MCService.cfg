CONSTANTS
  QueueSize = 2
  MaxChannels = 1
  MaxTables = 1
  Dates <- MCDates
  ListedDates <- MCDates
  Bodies <- MCBodies
  MaxReports = 3
  MaxReboots = 2
  MaxRestarts = 1
  MaxFaults = 2
SPECIFICATION PromptSpec
INVARIANT ReadyMeansInDatabase
PROPERTIES ImplementsApp RebootAnswered
