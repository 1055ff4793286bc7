SPECIFICATION Spec
CONSTANTS
  Threads = {t1, t2, t3}
  Queues = {m}
  m = m
  NULL = NULL
  CPUs = {c1}
  AcquireTimeouts = {"finite", "infinite"}
  Destroyers = {}
INVARIANT NoStrandedWaiter
CHECK_DEADLOCK FALSE
