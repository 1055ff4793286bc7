SPECIFICATION MCSpec
CONSTANTS
  CPUs = {c1, c2}
  Timers = {a, b}
  Half = 5
  Delays = {2}
  Periods = {0}
  MaxLate = 1
  NULL = NULL
SYMMETRY Symmetry
INVARIANTS TimerTypeOK  OrderedByExpiry HardwareArmed
PROPERTY NeverEarly
CHECK_DEADLOCK FALSE
