SPECIFICATION Spec
CONSTANTS
  MAX_SESSIONS = 2
  Owners = {c1, c2}
  NoOwner = NoOwner
  MaxUp = 0
  MaxDown = 1
  MayBreak = FALSE
SYMMETRY ConnSymmetry
CHECK_DEADLOCK FALSE
INVARIANT AppIsolation
