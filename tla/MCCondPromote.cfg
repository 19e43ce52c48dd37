CONSTANTS
  Threads = {t1, t2, t3}
  NoThread = NoThread
  MaxSeq = 3
SPECIFICATION CondSpec
INVARIANT SignalUnblocks
CHECK_DEADLOCK FALSE
