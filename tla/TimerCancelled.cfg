SPECIFICATION TimerSpec
CONSTANTS
  CPUs = {c1, c2}
  Timers = {a}
  Half = 5
  Delays = {2}
  Periods = {0}
  MaxLate = 1
  NULL = NULL
INVARIANT NoNullCallback
