SPECIFICATION Spec
CONSTANTS
  HIGH = 1
  LOW = 0
  BATCH = 2
  RCVBUF = 1
  Closers = {}
  Senders = {s1}
  MaxMsgs = 1
  MaxSends = 1
CHECK_DEADLOCK FALSE
INVARIANT DropClosesSocket
