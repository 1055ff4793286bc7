SPECIFICATION SemSpec
CONSTANTS
  Threads = {t1, t2}
  Queues = {s}
  NULL = NULL
  CPUs = {c1}
  s = s
  InitialCount = 0
  MaxPosts = 2
  SemTimeouts = {"finite"}
  SemDestroyers = {}
INVARIANT NoStrandedSemWaiter
CHECK_DEADLOCK FALSE
