SPECIFICATION ObjectsSpec
CONSTANTS
  Threads = {t1, t2, t3}
  Queues = {m, s, e}
  NULL = NULL
  CPUs = {c1, c2}
  Others = {t2, t3}
  m = m
  AcquireTimeouts = {"zero", "finite", "infinite"}
  Destroyers = {t1}
  s = s
  InitialCount = 1
  MaxPosts = 2
  SemTimeouts = {"zero", "finite", "infinite"}
  SemDestroyers = {t1}
  e = e
  MaxSignals = 2
  MaxReleased = 2
  EventTimeouts = {"zero", "finite", "infinite"}
  EventDestroyers = {t1}
SYMMETRY Symmetry
INVARIANTS TypeOK  SingleOwner HolderIsHolding CountIsUsers
INVARIANTS NeverOverGranted CountBound SignaledHasNoWaiter OneSignalOneThread
CHECK_DEADLOCK FALSE
