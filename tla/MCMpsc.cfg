CONSTANTS
  Elements = {e1, e2, e3, e4}
  Producers = {p1, p2, p3}
  mpqh_head = mpqh_head
  NULL = NULL
  NotQueued = NotQueued
  n1 = n1
  n2 = n2
  Base = Base
  Hierarchies <- AloneOrNested
  Items = {i1, i2}
  Enqueuers = {q1, q2}
  Canceller = Canceller
  Cancellable = {n1, n2, Base}
  IdleCancel = TRUE
  None = None
SPECIFICATION MCSpec
INVARIANT InOrder ListIsFifo LinkedOnce KernelAssertions NoStrandedItem CancelIsFinal
PROPERTY Consumed Invoked KeepsInvoking CancelReturns
CHECK_DEADLOCK FALSE
