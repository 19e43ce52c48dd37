CONSTANTS
  CPUs = {c1, c2, c3}
  MaxTicks = 4
SPECIFICATION QuiesceSpec
INVARIANT DoneAlwaysVisible
CHECK_DEADLOCK FALSE
