SPECIFICATION SMPSpec
CONSTANTS
  t1 = t1
  t2 = t2
  t3 = t3
  c1 = c1
  c2 = c2
  CPUs = {c1, c2}
  Threads = {t1, t2, t3}
  Queues = {q}
  NULL = NULL
  Boot = t1
  PinCalls <- SecondPinsItself
  StartPriority <- TwoPriorities
  DEFAULT_PRIORITY = 1
  HIGHEST_PRIORITY = 2
  Quantum = 1
  NewPriorities = {0}
  RealTimeCalls <- AnyRealTime
  Sleepers = {}
  Creators = {t1}
  Joiners = {}
  Detachers = {}
  WaitTimeouts = {"infinite"}
  Reschedules = {TRUE}
SYMMETRY CPUSymmetry
INVARIANTS TypeOK OnePlace BitmapExact IdleMaskExact RealtimeCPUIsBusy RegularIsPreempted
CHECK_DEADLOCK FALSE
