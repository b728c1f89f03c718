CONSTANTS
  a = a
  b = b
  x = x
  y = y
  None = None
  Models = {a, x}
  Provider <- TwoProviders
  Cards <- OneCard
  Auxiliary = {}
  SoleOf = {}
  Llamacpp = {"llamacpp"}
  AutoUnload = {"mlx", "llamacpp"}
  Reloadable = {}
  StopMayFail = {a, x}
  UpdateMayFail = {}
  MaxOps = 2
SPECIFICATION FairSpec
INVARIANTS TypeOK OnePerCard  SessionHasClaim
PROPERTIES CancelWins  TransitionsEnd
CHECK_DEADLOCK FALSE
