---------------------------- MODULE RtapiModule ----------------------------
(***************************************************************************)
(* Module registry: rtapi_init / rtapi_exit of src/rtapi/linux_rtapi.c and *)
(* _rtapi_init / _rtapi_exit of src/rtapi/rt-preempt.c (RTAPI build).      *)
(* rtapi_init claims the first free module slot under the array mutex and  *)
(* returns slot + MODULE_OFFSET; rtapi_exit maps the handle back, checks   *)
(* it against 0 .. MAX_MODULES-1 and frees the slot.  The two flavours     *)
(* differ in the slots init scans (0-based or 1-based) and in the loaded-  *)
(* module counter the rt-preempt flavour keeps.                            *)
(***************************************************************************)
EXTENDS Integers, FiniteSets
LOCAL INSTANCE FiniteSetsExt

CONSTANTS
  MaxModules,    \* MAX_MODULES / RTAPI_MAX_MODULES
  ModuleOffset,  \* MODULE_OFFSET
  FirstSlot,     \* first slot rtapi_init scans: 0 (linux) or 1 (rt-preempt)
  Counted,       \* TRUE: init increments rtapi_data->ul_module_count
  MaxLoads,      \* bound on ul_module_count
  Callers        \* client threads (model values)

ASSUME MaxModules \in Nat \ {0} /\ ModuleOffset \in Nat /\ FirstSlot \in {0, 1}
ASSUME Counted \in BOOLEAN /\ MaxLoads \in Nat

\* Slots init hands out, and the slot numbers rtapi_exit accepts.
InitSlots == FirstSlot .. FirstSlot + MaxModules - 1
ExitSlots == 0 .. MaxModules - 1

VARIABLES
  inUse,   \* module_array[n]: magic == MODULE_MAGIC / state != NO_MODULE
  count,   \* rtapi_data->ul_module_count
  held     \* held[c]: module ids returned to caller c and not yet exited

vars == <<inUse, count, held>>

Init ==
  /\ inUse = [n \in InitSlots \cup ExitSlots |-> FALSE]
  /\ count = 0
  /\ held = [c \in Callers |-> {}]

\* Mutant: the scan runs one slot past the end of the array.
RtapiInitPastEnd(c) ==
  LET free == {m \in FirstSlot .. FirstSlot + MaxModules :
                 m \notin DOMAIN inUse \/ ~inUse[m]}
      n    == Min(free)
  IN
  /\ free # {}
  /\ ~Counted \/ count < MaxLoads
  /\ inUse' = [inUse EXCEPT ![n] = TRUE]
  /\ count' = IF Counted THEN count + 1 ELSE count
  /\ held' = [held EXCEPT ![c] = @ \cup {n + ModuleOffset}]

(* rtapi_init: under the mutex, claim the first free slot and return its  *)
(* id; with no free slot the call fails and nothing changes.              *)
RtapiInit(c) ==
  LET free == {m \in InitSlots : ~inUse[m]}
      n    == Min(free)
  IN
  /\ free # {}
  /\ ~Counted \/ count < MaxLoads
  /\ inUse' = [inUse EXCEPT ![n] = TRUE]
  /\ count' = IF Counted THEN count + 1 ELSE count
  /\ held' = [held EXCEPT ![c] = @ \cup {n + ModuleOffset}]

\* Mutant: the handle is mapped back one slot too low.
RtapiExitOffByOne(c, id) ==
  LET n == id - ModuleOffset - 1 IN
  /\ id \in held[c]
  /\ inUse' = IF n \in ExitSlots THEN [inUse EXCEPT ![n] = FALSE] ELSE inUse
  /\ held' = [held EXCEPT ![c] = @ \ {id}]
  /\ UNCHANGED count

(* rtapi_exit(id) on a handle the caller holds: out of range returns -1   *)
(* and changes nothing; otherwise the slot is freed.  The caller gives    *)
(* the handle up either way.                                               *)
RtapiExit(c, id) ==
  LET n == id - ModuleOffset IN
  /\ id \in held[c]
  /\ inUse' = IF n \in ExitSlots THEN [inUse EXCEPT ![n] = FALSE] ELSE inUse
  /\ held' = [held EXCEPT ![c] = @ \ {id}]
  /\ UNCHANGED count

ModuleIds == {n + ModuleOffset : n \in InitSlots}

Next ==
  \/ \E c \in Callers : RtapiInit(c)
  \/ \E c \in Callers, id \in ModuleIds : RtapiExit(c, id)

Spec == Init /\ [][Next]_vars

-----------------------------------------------------------------------------
TypeOK ==
  /\ inUse \in [InitSlots \cup ExitSlots -> BOOLEAN]
  /\ count \in 0 .. MaxLoads
  /\ held \in [Callers -> SUBSET ModuleIds]

(* A slot is in use exactly when some caller holds its id: init never     *)
(* hands one slot to two callers, and exit frees the slot of the id given *)
(* (spec 8: init followed by exit leaves the slot count unchanged).        *)
SlotsMatchHandles ==
  /\ \A n \in InitSlots :
       inUse[n] <=> \E c \in Callers : n + ModuleOffset \in held[c]
  /\ \A c, d \in Callers : c # d => held[c] \cap held[d] = {}
=============================================================================
