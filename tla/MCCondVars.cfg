CONSTANTS
  Threads = {s1, s2, t3}
  NoThread = NoThread
  MaxSeq = 2
  GenSize = 16
  Sleepers = {s1, s2}
  Signallers = {s3, s4}
  FirstSeq = {14}
  UBehind = {0, 9}
  MaxWaits = 2
  MaxSignals = 2
SPECIFICATION AnySpec
SYMMETRY Alike
INVARIANT SignalsLostInTwoWays NoSignalLost NotRefused WordsSettle
CHECK_DEADLOCK FALSE
