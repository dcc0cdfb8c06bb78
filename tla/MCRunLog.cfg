SPECIFICATION Spec
CONSTANTS
  p1 = p1
  p2 = p2
  p3 = p3
  NoPid = NoPid
  Procs <- AllProcs
  Forcing <- OneForcing
  MaxRecords = 3
SYMMETRY PlainSymmetry
INVARIANTS
  TypeOK
  ExclusiveUnlessStolen
  NoOrphanedLock
  ReplayableUnlessStolen
PROPERTY
  CommittedSurvives
