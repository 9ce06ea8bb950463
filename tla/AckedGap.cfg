SPECIFICATION Spec
CONSTANTS
  NPkts = 3
  MsgOf <- MCMsgOf
  Mixes <- Mixed
  Capacity = 3
  SndCapacity = 3
  MaxFaults = 0
  MaxLite = 0
  MaxEarly = 1
  MaxMishaps = 1
CHECK_DEADLOCK FALSE
INVARIANT AckedAreaComplete
