SPECIFICATION Spec
CONSTANTS
  u1 = u1
  u2 = u2
  Updaters <- MCUpdaters
  Releases <- MCReleases
  MaxUploads <- MCUploads
SYMMETRY MCSymmetry
INVARIANTS AlwaysABinary LeavesNoTmp
PROPERTY OnlyForward
