CONSTANTS
  Apps = {a1, a2}
  Regs = {r1, r2}
  Check <- MCCheck
  Heartbeat <- MCHeartbeat
  Expiry <- MCExpiry
  MaxStall <- MCMaxStall
  NoReg = NoReg
SPECIFICATION FairLeaseSpec
INVARIANTS LeaseTypeOK LeaseBound
PROPERTIES CheckSparesBeatingClient AbandonedCoreStops
