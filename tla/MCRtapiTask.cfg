\* Lifecycle under clients that follow the spec's task state machine.
CONSTANTS
  c1 = c1
  c2 = c2
  Callers <- MCCallersOne
  MaxTasks = 2
  MaxThreads = 2
  MaxStacks = 2
  Prios = {0, 2}
  PrioLowest = 1
  PrioHighest = 2
  CpuRequests <- MCCpuAny
  AllowedCpus = {0}
  FifoOutcomes = {TRUE, FALSE}
SPECIFICATION Spec
INVARIANT TypeOK
INVARIANT PrioHelpersClamp
PROPERTY StartSuccessMeansInitDone
PROPERTY DeletedBodyEnds
PROPERTY ImplementsLifecycle
