\* A next_time with tv_nsec = 1000000000 makes rtapi_wait return before the deadline.
\* The thread exits after rtapi_task_delete or the process traps in
\* rtapi_task_start: those states have no successor.
CONSTANTS
  NsPerSec = 4
  Res = 1
  ClockInputs = {0, 2}
  StartPeriods = {1, 3}
  SetPeriods = {3}
  WorkTimes = {0, 1, 5}
  MaxLatency = 1
  MaxTime = 14
  Setters = {1}
  IntHalf = 8
SPECIFICATION Spec
PROPERTY WakeNotBeforeDeadline
CHECK_DEADLOCK FALSE
