SPECIFICATION Spec
CONSTANTS
  MAX_SESSIONS = 2
  Owners = {c1}
  NoOwner = NoOwner
  MaxUp = 1
  MaxDown = 1
  MayBreak = FALSE
CHECK_DEADLOCK FALSE
INVARIANT HearsClose
