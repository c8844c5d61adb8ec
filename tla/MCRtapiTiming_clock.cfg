\* Two threads call rtapi_clock_set_period with different periods at once,
\* and the task starts between their stores.
CONSTANTS
  NsPerSec = 4
  Res = 1
  ClockInputs = {2, 3}
  StartPeriods = {1, 3}
  SetPeriods = {3}
  WorkTimes = {0, 1, 5}
  MaxLatency = 1
  MaxTime = 14
  Setters = {1, 2}
  IntHalf = 8
SPECIFICATION Spec
CHECK_DEADLOCK FALSE
INVARIANT PeriodAtLeastTick
