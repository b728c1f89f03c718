SPECIFICATION Spec
CONSTANTS
  setup = setup
  rm = rm
  again = again
  host = host
  other = other
  None = None
  Cores = {c1, c2}
  Ops = {setup}
  Kind <- MCKind
  Target <- MCTarget
  FollowUp <- MCFollowUp
  Digests = {host, other}
  Basis <- MCBasis
  Steps = {host}
  Blocked = {}
  Relogin = {}
  MaxCalls = 3
SYMMETRY MCSymmetry
INVARIANT AnswerAttaches
CHECK_DEADLOCK FALSE
