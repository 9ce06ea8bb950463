SPECIFICATION Spec
CONSTANTS
  NPkts = 7
  MsgOf <- MCMsgOf
  Mixes <- MCMixes
  Capacity = 4
CHECK_DEADLOCK FALSE
PROPERTY Implements
INVARIANT NumOutOfOrderExact
INVARIANT OutOfOrderFound
