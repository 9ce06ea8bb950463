SPECIFICATION AuthSpec
CONSTANTS
  Sids = {s1}
  EPOCH_MOD = 8
  SEQ_MASK = 6
  PREOPEN_MAX = 4
  REORDER_MAX = 4
  DirAccept = FALSE
  UdpReliable = FALSE
  InOrder = TRUE
  MaxGen = 1
  MaxData = 3
  MaxDup = 0
  MaxInFlight = 4

CHECK_DEADLOCK FALSE
INVARIANT ServedAlike
