\* rt-preempt hooks: two slots and two stack blocks, so a freed stack comes
\* back to the other slot while the first still records its old handle.
CONSTANTS
  c1 = c1
  Callers <- MCCallers
  MaxTasks = 2
  MaxThreads = 2
  MaxStacks = 2
  AffinityOutcomes = {TRUE, FALSE}
  FifoOutcomes = {TRUE}
  CreateOutcomes = {TRUE, FALSE}
SPECIFICATION Spec
INVARIANT HandlesNameOwnThreads
