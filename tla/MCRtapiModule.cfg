\* linux_rtapi.c: slots 0 .. MAX_MODULES-1, no module counter.
CONSTANTS
  c1 = c1
  c2 = c2
  c3 = c3
  Callers <- MCCallersThree
  MaxModules = 4
  ModuleOffset = 32768
  FirstSlot = 0
  Counted = FALSE
  MaxLoads = 0
SPECIFICATION Spec
INVARIANT TypeOK
INVARIANT SlotsMatchHandles
