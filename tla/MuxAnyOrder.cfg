SPECIFICATION FairSpec
CONSTANTS
  Sids = {s1}
  EPOCH_MOD = 8
  SEQ_MASK = 6
  PREOPEN_MAX = 6
  REORDER_MAX = 6
  DirAccept = FALSE
  UdpReliable = TRUE
  InOrder = FALSE
  MaxGen = 1
  MaxData = 3
  MaxDup = 1
  MaxInFlight = 5
INVARIANT GapFree
INVARIANT SessionPrefix
INVARIANT QuietComplete
PROPERTY EventuallyDelivered
