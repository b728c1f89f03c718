SPECIFICATION Spec
CONSTANTS
  Models = {m}
  Keys = {k1, k2}
  MaxLoads = 3
  MaxCalls = 2
  PortAttempts = 1
  Republish = 0
  MaxCores = 1
  MaxVmStops = 0
  None = None
INVARIANT AnnouncedOnce
PROPERTY NoOverwrite
CHECK_DEADLOCK FALSE
