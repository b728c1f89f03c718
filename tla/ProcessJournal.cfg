CONSTANTS
  Pids = {1, 2}
  MaxBorn = 3
  MaxCores = 3
  MaxWrites = 3
  Unreadable = TRUE
  WritesFail = TRUE
  LateReuse = FALSE
  None = None
SPECIFICATION Spec
INVARIANTS TypeOK SessionsJournalled 
 
CHECK_DEADLOCK FALSE
