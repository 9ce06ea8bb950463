SPECIFICATION Spec
CONSTANTS
  Sids = {s1}
  EPOCH_MOD = 8
  SEQ_MASK = 6
  PREOPEN_MAX = 1
  REORDER_MAX = 2
  DirAccept = FALSE
  UdpReliable = TRUE
  InOrder = TRUE
  MaxGen = 3
  MaxData = 3
  MaxDup = 1
  MaxInFlight = 6
INVARIANT TypeOK
INVARIANT OpenFirst
INVARIANT MemoryBounded
INVARIANT NoStaleGeneration
