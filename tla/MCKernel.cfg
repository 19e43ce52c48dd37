CONSTANTS
  t1 = t1
  t2 = t2
  t3 = t3
  k1 = k1
  k2 = k2
  zero = zero
  Threads = {t1, t2, t3}
  NoThread = NoThread
  Ulls = {u1, u2, u3}
  NoUll = NoUll
  Keys = {k1, k2}
  AnyKey = k1
  InvalidKey = InvalidKey
  Values = {t1, zero, MACH_PORT_DEAD}
  MACH_PORT_DEAD = MACH_PORT_DEAD
  OwnerOf <- MCOwnerOf
  ClientOps = {"UL_UNFAIR_LOCK", "UL_COMPARE_AND_WAIT"}
  CPUs = {c1, c2, c3}
  MaxTicks = 5
SYMMETRY Symmetric
SPECIFICATION MCSpec
INVARIANT NoUseAfterFree CountsExact KernelAssertions TwoGenerations DoneIsVisible
PROPERTY ImplementsService
