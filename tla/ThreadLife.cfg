SPECIFICATION Spec
CONSTANTS
  t1 = t1
  t2 = t2
  t3 = t3
  c1 = c1
  c2 = c2
  CPUs = {c1, c2}
  Threads = {t1, t2}
  Queues = {q}
  NULL = NULL
  Boot = t1
  PinCalls = {}
  StartPriority <- EqualPriority
  DEFAULT_PRIORITY = 1
  HIGHEST_PRIORITY = 2
  Quantum = 1
  NewPriorities = {}
  RealTimeCalls = {}
  Sleepers = {t2}
  Creators = {t1}
  Joiners = {t1}
  Detachers = {t1, t2}
  WaitTimeouts = {"finite", "infinite"}
  Reschedules = {TRUE, FALSE}
INVARIANT FreedIsUnreachable
PROPERTIES ImplementsWaitQueue
CHECK_DEADLOCK FALSE
