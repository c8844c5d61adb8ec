------------------------------ MODULE RtpTask ------------------------------
(***************************************************************************)
(* Task hooks of the RT-PREEMPT flavour (src/rtapi/rt-preempt.c, RTAPI     *)
(* build).  The generic task layer claims a slot of task_array under the   *)
(* mutex and calls _rtapi_task_new_hook / _start_hook / _stop_hook /       *)
(* _delete_hook; the flavour keeps its own per-slot record                 *)
(* extra_task_data[1 .. RTAPI_MAX_TASKS].  The worker thread runs          *)
(* realtime_thread() and calls _rtapi_wait_hook() each period; statistics  *)
(* are written by _rtapi_task_update_stats_hook() into the slot that       *)
(* _rtapi_task_self_hook() finds by comparing pthread_self() with the      *)
(* recorded thread handles.                                                *)
(*                                                                         *)
(* The thread is created with pthread_attr_setstack on the task's own      *)
(* stack, and glibc places the thread descriptor, whose address is the     *)
(* pthread_t, at the top of that stack: a thread's pthread_t is therefore  *)
(* its stack id here, and a stack malloc hands out again gives the same    *)
(* pthread_t to the next thread on it.  extra_task_data[n].thread is never *)
(* cleared.                                                                *)
(***************************************************************************)
EXTENDS Integers, FiniteSets
LOCAL INSTANCE FiniteSetsExt

CONSTANTS
  MaxTasks,          \* RTAPI_MAX_TASKS: slots are 1 .. MaxTasks
  Callers,           \* client threads (model values)
  MaxThreads,        \* bound on threads pthread_create starts
  MaxStacks,         \* distinct blocks malloc can return for a stack
  AffinityOutcomes,  \* possible results of realtime_set_affinity (TRUE = 0)
  FifoOutcomes,      \* possible results of sched_setscheduler(SCHED_FIFO)
  CreateOutcomes     \* possible results of pthread_create (TRUE = 0)

ASSUME MaxTasks \in Nat \ {0} /\ MaxThreads \in Nat \ {0} /\ MaxStacks \in Nat \ {0}
ASSUME \A O \in {AffinityOutcomes, FifoOutcomes, CreateOutcomes} :
         O \subseteq BOOLEAN /\ O # {}

Slots    == 1 .. MaxTasks
Threads  == 1 .. MaxThreads   \* worker threads of the model
StackIds == 1 .. MaxStacks    \* stack blocks; also the pthread_t of a thread on them
NoStack  == 0                 \* NULL, and a pthread_t never written

VARIABLES
  extra,    \* extra_task_data[n] plus task_array[n].magic
  heap,     \* stack blocks currently malloc'ed
  wk,       \* workers: pc, slot (task pointer), self (pthread_self()),
            \* initOK (affinity and priority were set)
  statsOf,  \* statsOf[t]: slot whose thread_status the thread last wrote, 0 = none
  cl,       \* callers: pc, slot and worker of the call in progress
  owned,    \* owned[c]: task ids returned to c and not yet deleted
  started   \* started[c]: tasks c has started (clients start a task once)

vars == <<extra, heap, wk, statsOf, cl, owned, started>>

Live(t) == wk[t].pc \notin {"unused", "terminated", "joined"}

(* realtime_set_affinity (CPU requested and allowed, or the last allowed   *)
(* CPU) and realtime_set_priority (SCHED_FIFO) decide the init verdict.    *)
SetAffinityResults == AffinityOutcomes
SetPriorityResults == FifoOutcomes
InitOK  == TRUE \in SetAffinityResults /\ TRUE \in SetPriorityResults
InitBad == FALSE \in SetAffinityResults \/ FALSE \in SetPriorityResults

(* _rtapi_task_self_hook: the first n in 1 .. RTAPI_MAX_TASKS whose        *)
(* recorded thread equals pthread_self(), or -EINVAL (-1 here).            *)
SelfHook(self) ==
  LET hits == {n \in Slots : extra[n].thread = self}
  IN IF hits = {} THEN -1 ELSE Min(hits)

(* _rtapi_task_update_stats_hook: rusage goes to thread_status[task_id];  *)
(* an out-of-range task_id returns -ENOENT and writes nothing.             *)
UpdateStats(t) ==
  LET n == SelfHook(wk[t].self)
  IN statsOf' = IF n \in Slots THEN [statsOf EXCEPT ![t] = n] ELSE statsOf

Init ==
  /\ extra = [n \in Slots |-> [magic |-> FALSE, deleted |-> FALSE,
                               destroyed |-> FALSE, thread |-> NoStack,
                               stackaddr |-> NoStack]]
  /\ heap = {}
  /\ wk = [t \in Threads |-> [pc |-> "unused", slot |-> 1, self |-> NoStack,
                              initOK |-> FALSE]]
  /\ statsOf = [t \in Threads |-> 0]
  /\ cl = [c \in Callers |-> [pc |-> "idle", slot |-> 1, thr |-> 1]]
  /\ owned = [c \in Callers |-> {}]
  /\ started = [c \in Callers |-> {}]

\* The call returns; its return value is written beside each use.
Return(c) == cl' = [cl EXCEPT ![c] = [pc |-> "idle", slot |-> 1, thr |-> 1]]

FreeSlots == {n \in Slots : ~extra[n].magic}

-----------------------------------------------------------------------------
(***************************************************************************)
(* Task creation: the generic layer claims the first free slot; the hook  *)
(* mallocs the stack (any free block), records it and clears destroyed.   *)
(* deleted keeps whatever the slot's previous task left in it.             *)
(***************************************************************************)
NewTableFull(c) ==
  /\ cl[c].pc = "idle"
  /\ FreeSlots = {}
  /\ Return(c)   \* ENOMEM
  /\ UNCHANGED <<extra, heap, wk, statsOf, owned, started>>

\* malloc of the stack returns NULL: memory can run out whatever the model's
\* stack blocks, so this is possible on every call.
NewNoStack(c) ==
  /\ cl[c].pc = "idle"
  /\ FreeSlots # {}
  /\ Return(c)   \* ENOMEM
  /\ UNCHANGED <<extra, heap, wk, statsOf, owned, started>>

\* Mutant: the slot scan starts at 0, as linux_rtapi.c's does.
NewTaskFromZero(c) ==
  LET n == Min({m \in 0 .. MaxTasks : m = 0 \/ ~extra[m].magic}) IN
  /\ cl[c].pc = "idle"
  /\ FreeSlots # {}
  /\ \E sid \in StackIds \ heap :
       /\ heap' = heap \cup {sid}
       /\ extra' = [extra EXCEPT ![n].magic = TRUE, ![n].stackaddr = sid,
                                 ![n].destroyed = FALSE]
  /\ owned' = [owned EXCEPT ![c] = @ \cup {n}]
  /\ Return(c)   \* OK
  /\ UNCHANGED <<wk, statsOf, started>>

NewTask(c) ==
  LET n == Min(FreeSlots) IN
  /\ cl[c].pc = "idle"
  /\ FreeSlots # {}
  /\ \E sid \in StackIds \ heap :
       /\ heap' = heap \cup {sid}
       /\ extra' = [extra EXCEPT ![n].magic = TRUE, ![n].stackaddr = sid,
                                 ![n].destroyed = FALSE]
  /\ owned' = [owned EXCEPT ![c] = @ \cup {n}]
  /\ Return(c)   \* OK
  /\ UNCHANGED <<wk, statsOf, started>>

(***************************************************************************)
(* _rtapi_task_start_hook: clear deleted, init the barrier, create the    *)
(* thread on the task's stack (pthread_create stores its handle), then    *)
(* wait at the barrier and report the worker's verdict.  glibc stores the *)
(* handle before it clones, so a failed create leaves either the old      *)
(* handle or the one of a thread that never ran.                          *)
(***************************************************************************)
StartAllowed(c, n) ==
  /\ cl[c].pc = "idle"
  /\ n \in owned[c] \ started[c]

\* Mutant: deleted is not cleared before the thread is created.
StartHookKeepDeleted(c, n) ==
  /\ StartAllowed(c, n)
  /\ TRUE \in CreateOutcomes
  /\ \E t \in Threads : wk[t].pc = "unused"
  /\ LET t == Min({u \in Threads : wk[u].pc = "unused"}) IN
       /\ extra' = [extra EXCEPT ![n].thread = extra[n].stackaddr]
       /\ wk' = [wk EXCEPT ![t] = [pc |-> "init", slot |-> n,
                                   self |-> extra[n].stackaddr, initOK |-> FALSE]]
       /\ statsOf' = [statsOf EXCEPT ![t] = 0]
       /\ cl' = [cl EXCEPT ![c].pc = "start_wait", ![c].slot = n, ![c].thr = t]
  /\ started' = [started EXCEPT ![c] = @ \cup {n}]
  /\ UNCHANGED <<heap, owned>>

StartHook(c, n) ==
  /\ StartAllowed(c, n)
  /\ TRUE \in CreateOutcomes
  /\ \E t \in Threads : wk[t].pc = "unused"
  /\ LET t == Min({u \in Threads : wk[u].pc = "unused"}) IN
       /\ extra' = [extra EXCEPT ![n].deleted = FALSE,
                                 ![n].thread = extra[n].stackaddr]
       /\ wk' = [wk EXCEPT ![t] = [pc |-> "init", slot |-> n,
                                   self |-> extra[n].stackaddr, initOK |-> FALSE]]
       /\ statsOf' = [statsOf EXCEPT ![t] = 0]
       /\ cl' = [cl EXCEPT ![c].pc = "start_wait", ![c].slot = n, ![c].thr = t]
  /\ started' = [started EXCEPT ![c] = @ \cup {n}]
  /\ UNCHANGED <<heap, owned>>

StartCreateFail(c, n) ==
  /\ StartAllowed(c, n)
  /\ FALSE \in CreateOutcomes
  /\ \E h \in {extra[n].thread, extra[n].stackaddr} :
       extra' = [extra EXCEPT ![n].deleted = FALSE, ![n].thread = h]
  /\ Return(c)   \* ENOMEM
  /\ UNCHANGED <<heap, wk, statsOf, owned, started>>

\* Both parties have arrived: the barrier opens for both.
StartBarrier(c) ==
  LET t == cl[c].thr IN
  /\ cl[c].pc = "start_wait"
  /\ wk[t].pc \in {"ready_ok", "ready_fail"}
  /\ wk' = [wk EXCEPT ![t].pc = IF @ = "ready_ok" THEN "startup" ELSE "exiting"]
  /\ cl' = [cl EXCEPT ![c].pc = "start_check"]
  /\ UNCHANGED <<extra, heap, statsOf, owned, started>>

\* The starter destroys the barrier and reads deleted, a step after the
\* barrier opened: the released worker runs meanwhile.
StartResult(c) == IF extra[cl[c].slot].deleted THEN "ENOMEM" ELSE "OK"

StartCheck(c) ==
  /\ cl[c].pc = "start_check"
  /\ Return(c)   \* StartResult(c)
  /\ UNCHANGED <<extra, heap, wk, statsOf, owned, started>>

StopHook(c, n) ==
  /\ cl[c].pc = "idle"
  /\ n \in owned[c]
  /\ extra' = [extra EXCEPT ![n].destroyed = TRUE]
  /\ Return(c)   \* OK
  /\ UNCHANGED <<heap, wk, statsOf, owned, started>>

(***************************************************************************)
(* _rtapi_task_delete_hook: if deleted is clear, set it and pthread_join   *)
(* the recorded handle; free the stack.  The generic layer then clears the *)
(* slot's magic.                                                           *)
(***************************************************************************)
\* Mutant: the stack is freed without signalling and joining the thread.
DeleteHookNoJoin(c, n) ==
  /\ cl[c].pc = "idle"
  /\ n \in owned[c]
  /\ cl' = [cl EXCEPT ![c].pc = "del_free", ![c].slot = n]
  /\ UNCHANGED <<extra, heap, wk, statsOf, owned, started>>

DeleteHook(c, n) ==
  /\ cl[c].pc = "idle"
  /\ n \in owned[c]
  /\ extra' = [extra EXCEPT ![n].deleted = TRUE]
  /\ cl' = [cl EXCEPT ![c].pc = IF extra[n].deleted THEN "del_free" ELSE "del_join",
                      ![c].slot = n]
  /\ UNCHANGED <<heap, wk, statsOf, owned, started>>

\* The thread pthread_join(h) means, if it is not yet reaped: the last one
\* created with pthread_t h, since new_hook's memset and pthread_create on a
\* reused stack block overwrite the earlier descriptor.  Thread ids are
\* handed out in increasing order, so the last one has the largest id.
Joinable(h) ==
  LET withSelf == {t \in Threads : wk[t].self = h /\ wk[t].pc # "unused"} IN
  {t \in withSelf : wk[t].pc # "joined" /\ \A u \in withSelf : u <= t}

\* pthread_join blocks until that thread has terminated, then reaps it.
DelJoin(c) ==
  /\ cl[c].pc = "del_join"
  /\ \E t \in Joinable(extra[cl[c].slot].thread) :
       /\ wk[t].pc = "terminated"
       /\ wk' = [wk EXCEPT ![t].pc = "joined"]
  /\ cl' = [cl EXCEPT ![c].pc = "del_free"]
  /\ UNCHANGED <<extra, heap, statsOf, owned, started>>

\* No such thread (never written, or reaped): undefined behaviour; the model
\* takes the outcome in which the join fails at once and is only logged.
DelJoinInvalid(c) ==
  /\ cl[c].pc = "del_join"
  /\ Joinable(extra[cl[c].slot].thread) = {}
  /\ cl' = [cl EXCEPT ![c].pc = "del_free"]
  /\ UNCHANGED <<extra, heap, wk, statsOf, owned, started>>

DelFree(c) ==
  LET n == cl[c].slot IN
  /\ cl[c].pc = "del_free"
  /\ heap' = heap \ {extra[n].stackaddr}
  /\ extra' = [extra EXCEPT ![n].stackaddr = NoStack, ![n].magic = FALSE]
  /\ owned' = [owned EXCEPT ![c] = @ \ {n}]
  /\ started' = [started EXCEPT ![c] = @ \ {n}]
  /\ Return(c)   \* OK
  /\ UNCHANGED <<wk, statsOf>>

(***************************************************************************)
(* realtime_thread: affinity and priority, then the barrier.  On failure   *)
(* deleted is set before arriving.  After the barrier: next_time, the      *)
(* initial statistics update, the startup rusage, then the task function.  *)
(***************************************************************************)
\* Mutant: the failing worker arrives without setting deleted.
WInitFailNoFlag(t) ==
  /\ wk[t].pc = "init"
  /\ InitBad
  /\ wk' = [wk EXCEPT ![t].pc = "ready_fail"]
  /\ UNCHANGED <<extra, heap, statsOf, cl, owned, started>>

WInit(t) ==
  /\ wk[t].pc = "init"
  /\ InitOK
  /\ wk' = [wk EXCEPT ![t].pc = "ready_ok", ![t].initOK = TRUE]
  /\ UNCHANGED <<extra, heap, statsOf, cl, owned, started>>

WInitFail(t) ==
  /\ wk[t].pc = "init"
  /\ InitBad
  /\ extra' = [extra EXCEPT ![wk[t].slot].deleted = TRUE]
  /\ wk' = [wk EXCEPT ![t].pc = "ready_fail"]
  /\ UNCHANGED <<heap, statsOf, cl, owned, started>>

WStartup(t) ==
  /\ wk[t].pc = "startup"
  /\ UpdateStats(t)
  /\ wk' = [wk EXCEPT ![t].pc = "body"]
  /\ UNCHANGED <<extra, heap, cl, owned, started>>

\* rtapi_this_task(): the pointer realtime_thread stored under the
\* thread-specific key (rtapi_set_task), unlike _rtapi_task_self_hook's scan.
ThisTask(t) == wk[t].slot

\* _rtapi_wait_hook on a deleted task: pthread_exit.
WWaitExit(t) ==
  /\ wk[t].pc = "body"
  /\ extra[ThisTask(t)].deleted
  /\ wk' = [wk EXCEPT ![t].pc = "terminated"]
  /\ UNCHANGED <<extra, heap, statsOf, cl, owned, started>>

\* _rtapi_wait_hook, deadline missed: statistics are updated (an on-time
\* wait changes nothing this model keeps).
WWaitMiss(t) ==
  /\ wk[t].pc = "body"
  /\ ~extra[ThisTask(t)].deleted
  /\ UpdateStats(t)
  /\ UNCHANGED <<extra, heap, wk, cl, owned, started>>

\* The task function returns: deleted is set and the thread returns.
WReturn(t) ==
  /\ wk[t].pc = "body"
  /\ extra' = [extra EXCEPT ![wk[t].slot].deleted = TRUE]
  /\ wk' = [wk EXCEPT ![t].pc = "exiting"]
  /\ UNCHANGED <<heap, statsOf, cl, owned, started>>

WExit(t) ==
  /\ wk[t].pc = "exiting"
  /\ wk' = [wk EXCEPT ![t].pc = "terminated"]
  /\ UNCHANGED <<extra, heap, statsOf, cl, owned, started>>

-----------------------------------------------------------------------------
Next ==
  \/ \E c \in Callers :
       \/ NewTableFull(c) \/ NewNoStack(c) \/ NewTask(c)
       \/ StartBarrier(c) \/ StartCheck(c) \/ DelJoin(c) \/ DelJoinInvalid(c) \/ DelFree(c)
       \/ \E n \in Slots : StartHook(c, n) \/ StartCreateFail(c, n)
                          \/ StopHook(c, n) \/ DeleteHook(c, n)
  \/ \E t \in Threads :
       \/ WInit(t) \/ WInitFail(t) \/ WStartup(t)
       \/ WWaitExit(t) \/ WWaitMiss(t) \/ WReturn(t) \/ WExit(t)

Spec == Init /\ [][Next]_vars

-----------------------------------------------------------------------------
TypeOK ==
  /\ extra \in [Slots -> [magic : BOOLEAN, deleted : BOOLEAN, destroyed : BOOLEAN,
                          thread : StackIds \cup {NoStack},
                          stackaddr : StackIds \cup {NoStack}]]
  /\ heap \subseteq StackIds
  /\ wk \in [Threads -> [pc : {"unused", "init", "ready_ok", "ready_fail",
                               "startup", "body", "exiting", "terminated",
                               "joined"},
                         slot : Slots, self : StackIds \cup {NoStack},
                         initOK : BOOLEAN]]
  /\ statsOf \in [Threads -> Slots \cup {0}]
  /\ cl \in [Callers -> [pc : {"idle", "start_wait", "start_check",
                                "del_join", "del_free"},
                         slot : Slots, thr : Threads]]
  /\ owned \in [Callers -> SUBSET Slots]
  /\ started \in [Callers -> SUBSET Slots]

(* _rtapi_task_start_hook returns 0 only if the worker it created got      *)
(* through affinity and priority setting: the deleted flag written before  *)
(* the barrier carries the verdict.                                        *)
StartReportsInit ==
  [][\A c \in Callers :
       (cl[c].pc = "start_check" /\ cl'[c].pc = "idle" /\ StartResult(c) = "OK")
         => wk[cl[c].thr].initOK]_vars

(* A pthread_t recorded for a task in use names no thread of another task *)
(* that is not yet reaped.  Both hooks that look a handle up rely on it:   *)
(* _rtapi_task_self_hook maps pthread_self() to the first slot recording   *)
(* it, so the statistics of a live thread go to that slot, and             *)
(* _rtapi_task_delete_hook joins the recorded handle, so it waits for that *)
(* thread.  Handles are never cleared and a reused stack block gives a new *)
(* thread the old pthread_t.                                               *)
HandlesNameOwnThreads ==
  \A n \in Slots, t \in Threads :
    /\ extra[n].magic
    /\ wk[t].pc \notin {"unused", "joined"}
    /\ wk[t].self = extra[n].thread
    => wk[t].slot = n

\* The lifecycle state of slot n, read off the hooks' records.
StartedSlots == UNION {started[c] : c \in Callers}

LifecycleState(n) ==
  CASE ~extra[n].magic         -> "free"
    [] n \notin StartedSlots   -> "configured"
    [] extra[n].deleted        -> "draining"
    [] OTHER                   -> "running"

Lifecycle == INSTANCE TaskLifecycle
               WITH Slots <- Slots, state <- [n \in Slots |-> LifecycleState(n)]

(* The rt-preempt hooks, driven by clients that follow spec 4.5, move each *)
(* slot through the task lifecycle: a slot is running from a successful    *)
(* thread creation until deleted is set, and freed only when configured or *)
(* draining.  The stale deleted flag a new task inherits must not make a   *)
(* freshly started task look stopped.                                      *)
ImplementsLifecycle == Lifecycle!Spec
=============================================================================
