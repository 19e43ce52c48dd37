CONSTANTS
  Threads = {t1, t2, t3}
  NoThread = NoThread
  Misuse = TRUE
  CPUs = {c1, c2, c3}
  MaxTicks = 2
SPECIFICATION MCSpec
INVARIANT MutualExclusion NoLostWakeup AbortOnlyOnMisuse HolderNeverSleeps
PROPERTY Drains Ticks
CHECK_DEADLOCK FALSE
