CONSTANTS
  Base = Base
  Hierarchies = {{n1}}
  Items = {i1}
  Enqueuers = {p1}
  Canceller = Canceller
  Cancellable = {n1}
  IdleCancel = FALSE
  None = None
SPECIFICATION DaemonSpec
INVARIANT CancelIsFinal
CHECK_DEADLOCK FALSE
