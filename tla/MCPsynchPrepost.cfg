CONSTANTS
  GenSize = 16
  Sleepers = {s1}
  Signallers = {s2}
  FirstSeq = {0}
  UBehind = {0}
  MaxWaits = 1
  MaxSignals = 1
SPECIFICATION PsynchSpec
INVARIANT NoEntriesBeyondS
CHECK_DEADLOCK FALSE
