SPECIFICATION FairSpec
CONSTANTS
  max_retries = 3
  MaxTunnels = 4
  MaxFails = 5
CHECK_DEADLOCK FALSE
INVARIANT DialsBounded
PROPERTY LossNoticed
