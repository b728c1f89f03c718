CONSTANTS
  Procs = {1, 2, 3}
  Slow = {1, 2, 3}
  Exits = {1, 2, 3}
  Fails = {1, 2, 3}
  Crashed = None
  None = None
SPECIFICATION Spec
INVARIANTS OneRecovery
CHECK_DEADLOCK FALSE
