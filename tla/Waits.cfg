SPECIFICATION WaitsSpec
CONSTANTS
  Threads = {t1, t2, t3}
  Queues = {m, s, q1, q2}
  NULL = NULL
  CPUs = {c1}
  m = m
  AcquireTimeouts = {"zero", "infinite"}
  Destroyers = {}
  s = s
  InitialCount = 1
  MaxPosts = 6
  SemTimeouts = {"zero", "infinite"}
  SemDestroyers = {}
INVARIANTS WQTypeOK LinkedIffBlocked TimeoutPending InfiniteNeverTimesOut
PROPERTIES WakeIsFinal ImplementsFairLock ImplementsFairSemaphore
PROPERTIES FiniteBlockReturns AcquireReturns
CHECK_DEADLOCK FALSE
