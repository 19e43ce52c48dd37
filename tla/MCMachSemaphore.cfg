CONSTANTS
  t1 = t1
  t2 = t2
  Threads = {t1, t2}
  Semas = {s1, s2}
  NoSema = NoSema
  MaxCount = 1
SYMMETRY Symmetric
SPECIFICATION MCSpec
INVARIANT ReferencesExact
PROPERTY ImplementsSemaphores
