\* rt-preempt task hooks: two slots, two stack blocks handed out in any
\* order, two worker threads, every init, create and malloc outcome.
CONSTANTS
  c1 = c1
  Callers <- MCCallers
  MaxTasks = 2
  MaxThreads = 2
  MaxStacks = 2
  AffinityOutcomes = {TRUE, FALSE}
  FifoOutcomes = {TRUE}
  CreateOutcomes = {TRUE, FALSE}
SPECIFICATION Spec
INVARIANT TypeOK
PROPERTY ImplementsLifecycle
PROPERTY StartReportsInit
