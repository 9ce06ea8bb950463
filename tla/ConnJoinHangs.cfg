SPECIFICATION FairSpec
CONSTANTS
  HIGH = 1
  LOW = 0
  BATCH = 2
  RCVBUF = 2
  Closers = {k1}
  Senders = {}
  MaxMsgs = 3
  MaxSends = 0
CHECK_DEADLOCK FALSE
PROPERTY CloseReturns
