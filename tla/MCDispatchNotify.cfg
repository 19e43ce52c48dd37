CONSTANTS
  Workers = {t1, t2}
  Blocks = {b1}
  NoBlock = NoBlock
  MaxGen = 2
  MaxEntered = 1
SPECIFICATION GroupSpec
INVARIANT NotifyNotEarly
CHECK_DEADLOCK FALSE
