SPECIFICATION Spec
CONSTANTS
  Sids = {s1, s2}
  EPOCH_MOD = 8
  SEQ_MASK = 2
  PREOPEN_MAX = 4
  REORDER_MAX = 4
  DirAccept = FALSE
  UdpReliable = FALSE
  InOrder = TRUE
  MaxGen = 5
  MaxData = 2
  MaxDup = 0
  MaxInFlight = 1
INVARIANT QuietComplete
