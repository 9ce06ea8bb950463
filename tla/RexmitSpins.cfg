SPECIFICATION Spec
CONSTANTS
  NPkts = 2
  MsgOf <- MCMsgOf
  Mixes <- Mixed
  Capacity = 2
  SndCapacity = 2
  MaxFaults = 1
  MaxLite = 0
  MaxEarly = 0
  MaxMishaps = 1
CHECK_DEADLOCK FALSE
PROPERTY WorkerLeavesLoop
