SPECIFICATION Spec
CONSTANTS
  MAX_SESSIONS = 4
  Owners = {c1, c2, c3, c4, c5}
  NoOwner = NoOwner
SYMMETRY OwnerSymmetry
CHECK_DEADLOCK FALSE
INVARIANT TypeOK
INVARIANT MetricSound
INVARIANT NoOrphans
INVARIANT OwnsItsId
