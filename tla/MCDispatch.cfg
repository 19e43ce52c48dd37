CONSTANTS
  t1 = t1
  t2 = t2
  t3 = t3
  b1 = b1
  b2 = b2
  Threads = {t1, t2, t3}
  NoThread = NoThread
  UseQuiescentCounter = TRUE
  Cancellation = TRUE
  GateMisuse = TRUE
  Callers = {t1, t2, t3}
  Semas = {s1, s2, s3, s4}
  NoSema = NoSema
  MaxValue = 1
  Workers = {t1, t2, t3}
  Blocks = {b1, b2}
  NoBlock = NoBlock
  MaxGen = 2
  MaxEntered = 2
SPECIFICATION MCSpec
INVARIANT WaitersBalance NoMachFailure GroupOutlivesUse WaitSawEmpty
INVARIANT RunsOnce ReturnsInitialized NoLostBroadcast GateAbortOnlyOnMisuse
PROPERTY ImplementsCounter WakeupsDrained GroupSettles CallsEnd
CHECK_DEADLOCK FALSE
