SPECIFICATION Spec
CONSTANTS
  NPkts = 7
  MsgOf <- MCMsgOf
  Mixes <- MCMixes
  Capacity = 4
CHECK_DEADLOCK FALSE
INVARIANT ReadableIsReady
