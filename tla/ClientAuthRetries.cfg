SPECIFICATION Spec
CONSTANTS
  max_retries = 1
  MaxTunnels = 4
  MaxFails = 5
CHECK_DEADLOCK FALSE
INVARIANT FailuresBounded
