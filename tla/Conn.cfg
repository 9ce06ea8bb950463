SPECIFICATION FairSpec
CONSTANTS
  HIGH = 2
  LOW = 1
  BATCH = 2
  RCVBUF = 2
  Closers = {k1, k2}
  Senders = {s1}
  MaxMsgs = 4
  MaxSends = 1
CHECK_DEADLOCK FALSE
INVARIANT NothingLost
INVARIANT CounterSound
PROPERTY TaskLearns
PROPERTY ThreadsEnd
