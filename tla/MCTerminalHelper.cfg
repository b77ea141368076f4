SPECIFICATION FairSpec
CONSTANTS
  MaxQueue = 2
  MaxInput = 1
  MaxChunks = 2
  MaxCommands = 4
INVARIANTS
  ProviderIsGuarded
  ExitedIsComplete
  QueueKeepsRoom
PROPERTIES
  
  ExitReported
CHECK_DEADLOCK FALSE
