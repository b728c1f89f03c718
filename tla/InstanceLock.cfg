CONSTANTS
  Procs = {1, 2, 3}
  Slow = {}
  Exits = {}
  Fails = {}
  Crashed = None
  None = None
SPECIFICATION Spec
INVARIANTS TypeOK SingleOwner OwnerKeepsLock 
PROPERTY ImplementsOneOwner
CHECK_DEADLOCK FALSE
