SPECIFICATION LockSpec
CONSTANTS
  p1 = p1
  p2 = p2
  NoPid = NoPid
  Procs <- TwoProcs
  Forcing <- NoForcing
INVARIANTS
  MutualExclusion
