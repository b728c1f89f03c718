SPECIFICATION Spec
CONSTANTS
  setup = setup
  rm = rm
  again = again
  host = host
  other = other
  None = None
  Cores = {c1, c2}
  Ops = {setup, rm, again}
  Kind <- MCKind
  Target <- MCTarget
  FollowUp <- MCFollowUp
  Digests = {host, other}
  Basis <- MCBasis
  Steps = {host}
  Blocked = {}
  Relogin = {}
  MaxCalls = 2
SYMMETRY MCSymmetry
INVARIANTS TypeOK ConsentCoversWork  OwnedCoversCreated UserImageKept
PROPERTY CancelStopsWork
CHECK_DEADLOCK FALSE
