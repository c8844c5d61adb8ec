\* rt-preempt.c: init scans slots 1 .. MAX_MODULES, exit accepts 0 .. MAX_MODULES-1.
CONSTANTS
  c1 = c1
  c2 = c2
  c3 = c3
  Callers <- MCCallers
  MaxModules = 2
  ModuleOffset = 32768
  FirstSlot = 1
  Counted = TRUE
  MaxLoads = 4
SPECIFICATION Spec
INVARIANT SlotsMatchHandles
