SPECIFICATION Spec
CONSTANTS
  c1 = c1
  l = l
  Conns = {c1}
  Lsn = l
  BrokenWait = 1
  Stalls = FALSE
INVARIANT NoDanglingUnlessLingering
INVARIANT PeerTold
PROPERTY AllCollected
