SPECIFICATION FairSpec
CONSTANTS
  Models = {m}
  Keys = {k1}
  MaxLoads = 2
  MaxCalls = 1
  PortAttempts = 2
  Republish = 1
  MaxCores = 2
  MaxVmStops = 1
  None = None
INVARIANTS TypeOK JournalCoversRunning 
PROPERTY ShutdownDrains
CHECK_DEADLOCK FALSE
