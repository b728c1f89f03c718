CONSTANTS
  a = a
  b = b
  c = c
  d = d
  m = m
  n = n
  Loads = {a, b, c, d}
  Keys = {m, n}
  KeyOf <- TwoModels
  NoEntry = NoEntry
SYMMETRY Interchangeable
SPECIFICATION RegistrySpec
INVARIANTS RegistryTypeOK SignalExact EntryInUse
CHECK_DEADLOCK FALSE
