SPECIFICATION Spec
CONSTANTS
  MAX_SESSIONS = 2
  Owners = {c1, c2}
  NoOwner = NoOwner
  MaxUp = 1
  MaxDown = 0
  MayBreak = FALSE
SYMMETRY ConnSymmetry
CHECK_DEADLOCK FALSE
INVARIANT TargetIsolation
