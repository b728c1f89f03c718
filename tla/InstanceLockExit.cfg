CONSTANTS
  Procs = {1, 2, 3, 4}
  Slow = {}
  Exits = {2}
  Fails = {}
  Crashed = 1
  None = None
SPECIFICATION Spec
INVARIANTS SingleOwner
CHECK_DEADLOCK FALSE
