CONSTANTS
  a = a
  b = b
  x = x
  y = y
  None = None
  Models = {a, x}
  Provider <- TwoProviders
  Cards <- OneCard
  Auxiliary = {}
  SoleOf = {}
  Llamacpp = {"llamacpp"}
  AutoUnload = {"mlx", "llamacpp"}
  Reloadable = {a, x}
  StopMayFail = {}
  UpdateMayFail = {a, x}
  MaxOps = 1
SPECIFICATION Spec
INVARIANTS OnePerCard NothingLost

CHECK_DEADLOCK FALSE
