\* A thread's stack is freed while the thread still runs on it.
CONSTANTS
  c1 = c1
  c2 = c2
  Callers <- MCCallersOne
  MaxTasks = 2
  MaxThreads = 2
  MaxStacks = 2
  Prios = {0, 1}
  PrioLowest = 1
  PrioHighest = 99
  CpuRequests <- MCCpuAny
  AllowedCpus = {0}
  FifoOutcomes = {TRUE, FALSE}
SPECIFICATION Spec
INVARIANT StackOutlivesThread
