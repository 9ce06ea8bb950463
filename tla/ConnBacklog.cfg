SPECIFICATION Spec
CONSTANTS
  HIGH = 1
  LOW = 0
  BATCH = 2
  RCVBUF = 1
  Closers = {}
  Senders = {}
  MaxMsgs = 4
  MaxSends = 0
CHECK_DEADLOCK FALSE
INVARIANT BacklogBounded
