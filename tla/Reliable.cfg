SPECIFICATION Spec
CONSTANTS
  NPkts = 3
  MsgOf <- MCMsgOf
  Mixes <- Mixed
  Capacity = 2
  SndCapacity = 2
  MaxFaults = 0
  MaxLite = 1
  MaxEarly = 0
  MaxMishaps = 1
CHECK_DEADLOCK FALSE
PROPERTY Implements
INVARIANT AckSound
INVARIANT NeverBroken
INVARIANT Scheduled
