SPECIFICATION WQFairSpec
CONSTANTS
  Threads = {t1, t2, t3}
  Queues = {q1, q2}
  NULL = NULL
  CPUs = {c1, c2}
INVARIANT InfiniteNeverTimesOut
CHECK_DEADLOCK FALSE
