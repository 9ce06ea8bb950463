SPECIFICATION Spec
CONSTANTS
  Sids = {s1, s2}
  EPOCH_MOD = 16
  SEQ_MASK = 2
  PREOPEN_MAX = 4
  REORDER_MAX = 4
  DirAccept = TRUE
  UdpReliable = FALSE
  InOrder = TRUE
  MaxGen = 2
  MaxData = 2
  MaxDup = 0
  MaxInFlight = 2
SYMMETRY SidSymmetry
INVARIANT QuietComplete
