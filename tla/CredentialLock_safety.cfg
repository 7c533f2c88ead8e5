SPECIFICATION Spec
CONSTANTS
  p1 = p1  p2 = p2  p3 = p3
  t1 = t1  t2 = t2  t3 = t3  t4 = t4 t5 = t5
  Pid = {p1, p2, p3}
  Token = {t1, t2, t3, t4, t5}
  None = None
  Departed = {}
  MaxDepth = 8
  MaxCrashes = 2
  MaxRestarts = 1
SYMMETRY Symmetry
INVARIANTS LockInvariant MutualExclusion LiveOwnerKeepsLock UnlinksOnlyItsTarget
PROPERTIES ImplementsLockService
