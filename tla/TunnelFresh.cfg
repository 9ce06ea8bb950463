SPECIFICATION FairSpec
CONSTANTS
  MAX_SESSIONS = 2
  Owners = {c1}
  NoOwner = NoOwner
  MaxUp = 2
  MaxDown = 2
  MayBreak = TRUE
CHECK_DEADLOCK FALSE
INVARIANT StreamsInOrder
INVARIANT CompleteAtFin
INVARIANT UnroutableMeansDead
PROPERTY HalfClosesFinish
PROPERTY LossReleasesAll
