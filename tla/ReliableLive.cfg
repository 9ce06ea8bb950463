SPECIFICATION PromptSpec
CONSTANTS
  NPkts = 3
  MsgOf <- MCMsgOf
  Mixes <- ReliableOnly
  Capacity = 2
  SndCapacity = 2
  MaxFaults = 1
  MaxLite = 1
  MaxEarly = 1
  MaxMishaps = 1
CHECK_DEADLOCK FALSE
INVARIANT NoOverrun
INVARIANT NoLostWakeup
PROPERTY DeliveredUnlessStuck
