----------------------------- MODULE RtapiTask -----------------------------
(***************************************************************************)
(* Task lifecycle of the RT-PREEMPT/Linux RTAPI (src/rtapi/linux_rtapi.c). *)
(*                                                                         *)
(* Client threads ("callers") call rtapi_task_new, rtapi_task_start,       *)
(* rtapi_task_stop and rtapi_task_delete on the handles they were given.   *)
(* Every successful pthread_create starts a worker thread running          *)
(* realtime_thread() on the task's preallocated stack.  glibc places the  *)
(* descriptor of a thread created on a user stack at the top of that      *)
(* stack, and the pthread_t is its address: a thread's handle is its      *)
(* stack id here, and a block malloc hands out again gives the next       *)
(* thread on it the same handle.  Starter and worker *)
(* meet at the per-task init barrier; the worker then runs the task body,  *)
(* which calls rtapi_wait() each period (modelled here only by its         *)
(* "deleted => pthread_exit" check; time is in RtapiTiming) or returns.    *)
(*                                                                         *)
(* A step of a caller or worker is one atomic section of the code between  *)
(* two points where another thread can observe it (mutex, barrier, join,   *)
(* a shared flag).  Task fields are kept in a record per slot, like the C  *)
(* task_data struct.                                                       *)
(***************************************************************************)
EXTENDS Integers, FiniteSets
LOCAL INSTANCE FiniteSetsExt

CONSTANTS
  MaxTasks,      \* MAX_TASKS: slots are 0 .. MaxTasks-1
  Callers,       \* client threads calling the API (model values)
  MaxThreads,    \* bound on pthread_create calls that succeed
  MaxStacks,     \* stack blocks malloc can return (any free one)
  Prios,         \* priorities passed to rtapi_task_new
  PrioLowest,    \* sched_get_priority_min(SCHED_FIFO)
  PrioHighest,   \* sched_get_priority_max(SCHED_FIFO)
  CpuRequests,   \* cpu_id values passed to rtapi_task_new (-1 = any)
  AllowedCpus,   \* the thread's CPU allowed-set (pthread_getaffinity_np)
  FifoOutcomes   \* possible results of sched_setscheduler(SCHED_FIFO)

ASSUME MaxTasks \in Nat \ {0} /\ MaxThreads \in Nat \ {0} /\ MaxStacks \in Nat \ {0}
ASSUME Prios \subseteq Int /\ PrioLowest <= PrioHighest
ASSUME FifoOutcomes \subseteq BOOLEAN /\ FifoOutcomes # {}

Slots    == 0 .. MaxTasks - 1
Threads  == 1 .. MaxThreads   \* worker threads of the model
StackIds == 1 .. MaxStacks    \* stack blocks; also the pthread_t of a thread on them
NoStack  == 0                 \* NULL, and a pthread_t never written

VARIABLES
  task,    \* task_array[n]: magic, deleted, destroyed, cpu, stackaddr, thread, barrier
  heap,    \* stacks currently malloc'ed
  wk,      \* workers: pc, slot (task pointer), stack it runs on (its
           \* descriptor, so also its pthread_t), barrier generation, initOK
  cl,      \* callers: pc, slot, stack, gen, thr (locals of the call in progress)
  owned,   \* owned[c]: task ids returned to caller c and not yet deleted
  started  \* started[c]: tasks caller c has already started

vars == <<task, heap, wk, cl, owned, started>>

WorkerPcs == {"unused", "init", "fail", "fail_wait", "ok_wait", "body",
              "exiting", "terminated", "joined"}
CallerPcs == {"idle", "new_fill", "start_arrive", "start_wait", "start_check",
              "del_join", "del_free"}

\* A thread that still executes on its stack.
Live(t) == wk[t].pc \notin {"unused", "terminated", "joined"}

-----------------------------------------------------------------------------
(* pthread_barrier_t of a task, initialised with count 2.  The second      *)
(* arrival resets the count and starts a new generation, releasing the     *)
(* party that waits for the generation it arrived in.                      *)
BarrierArrive(s) ==
  IF task[s].barrier.count = 0
  THEN [task EXCEPT ![s].barrier.count = 1]
  ELSE [task EXCEPT ![s].barrier = [count |-> 0, gen |-> @.gen + 1]]

IsSecondArrival(s) == task[s].barrier.count = 1

Released(s, g) == task[s].barrier.gen # g

\* The generation a party arriving now waits on; 0 if it passes at once.
WaitGen(s) == IF IsSecondArrival(s) THEN 0 ELSE task[s].barrier.gen

(* realtime_set_affinity: an explicit CPU must be in the allowed set; with *)
(* cpu = -1 the highest CPU of the set is used, which fails only if the    *)
(* set is empty.                                                           *)
AffinityOK(cpu) ==
  IF cpu > -1 THEN cpu \in AllowedCpus ELSE AllowedCpus # {}

(* realtime_set_priority: ENABLE_SCHED_DEADLINE is 0, so only the          *)
(* sched_setscheduler(SCHED_FIFO) branch runs; TRUE is success.            *)
SetPriorityResults == FifoOutcomes

-----------------------------------------------------------------------------
Init ==
  /\ task = [s \in Slots |-> [magic |-> FALSE, deleted |-> FALSE,
                              destroyed |-> FALSE, cpu |-> -1,
                              stackaddr |-> NoStack, thread |-> 0,
                              barrier |-> [count |-> 0, gen |-> 0]]]
  /\ heap = {}
  /\ wk = [t \in Threads |-> [pc |-> "unused", slot |-> 0,
                              stack |-> NoStack, gen |-> 0, initOK |-> FALSE]]
  /\ cl = [c \in Callers |-> [pc |-> "idle", slot |-> 0, stack |-> NoStack,
                              gen |-> 0, thr |-> 1, prio |-> 0]]
  /\ owned = [c \in Callers |-> {}]
  /\ started = [c \in Callers |-> {}]

\* The call returns and its locals are gone; the return value is written
\* beside each use (only StartResult is read by a property).
Return(c) ==
  cl' = [cl EXCEPT ![c] = [pc |-> "idle", slot |-> 0, stack |-> NoStack,
                           gen |-> 0, thr |-> 1, prio |-> 0]]

(***************************************************************************)
(* rtapi_task_new, first part: malloc the stack, then the first slot whose *)
(* magic is not TASK_MAGIC is claimed under array_mutex.                   *)
(***************************************************************************)
NewNoStack(c) ==
  /\ cl[c].pc = "idle"
  /\ heap = StackIds
  /\ Return(c)   \* ENOMEM
  /\ UNCHANGED <<task, heap, wk, owned, started>>

NewTableFull(c) ==
  /\ cl[c].pc = "idle"
  /\ heap # StackIds
  /\ \A n \in Slots : task[n].magic
  /\ Return(c)   \* ENOMEM
  /\ UNCHANGED <<task, heap, wk, owned, started>>

\* Mutant: the full-table test is lost, so a full table hands out index
\* MAX_TASKS, one past the array.
NewReservePastEnd(c) ==
  /\ cl[c].pc = "idle"
  /\ \E sid \in StackIds \ heap :
       LET n == Min({m \in Slots : ~task[m].magic} \cup {MaxTasks}) IN
       /\ heap' = heap \cup {sid}
       /\ task' = IF n \in Slots THEN [task EXCEPT ![n].magic = TRUE] ELSE task
       /\ \E p \in Prios :
            cl' = [cl EXCEPT ![c].pc = "new_fill", ![c].slot = n,
                             ![c].stack = sid, ![c].prio = p]
  /\ UNCHANGED <<wk, owned, started>>

NewReserve(c) ==
  /\ cl[c].pc = "idle"
  /\ \E sid \in StackIds \ heap :
       LET n == Min({m \in Slots : ~task[m].magic}) IN
       /\ \E m \in Slots : ~task[m].magic
       /\ heap' = heap \cup {sid}
       /\ task' = [task EXCEPT ![n].magic = TRUE]
       /\ \E p \in Prios :   \* the prio argument of rtapi_task_new
            cl' = [cl EXCEPT ![c].pc = "new_fill", ![c].slot = n,
                             ![c].stack = sid, ![c].prio = p]
  /\ UNCHANGED <<wk, owned, started>>

(***************************************************************************)
(* Priority helpers: rtapi_prio_highest/lowest ask the kernel for the      *)
(* SCHED_FIFO range; next_higher/next_lower step inside it and return a    *)
(* bound for an argument outside it.                                       *)
(***************************************************************************)
RtapiPrioHighest == PrioHighest
RtapiPrioLowest  == PrioLowest

\* Mutant: the top test is > instead of >=, so the highest steps past it.
RtapiPrioNextHigherPastTop(prio) ==
  CASE prio > RtapiPrioHighest  -> RtapiPrioHighest
    [] prio < RtapiPrioLowest   -> RtapiPrioLowest
    [] OTHER                    -> prio + 1

RtapiPrioNextHigher(prio) ==
  CASE prio >= RtapiPrioHighest -> RtapiPrioHighest
    [] prio < RtapiPrioLowest   -> RtapiPrioLowest
    [] OTHER                    -> prio + 1

RtapiPrioNextLower(prio) ==
  CASE prio <= RtapiPrioLowest  -> RtapiPrioLowest
    [] prio > RtapiPrioHighest  -> RtapiPrioHighest
    [] OTHER                    -> prio - 1

\* The check in rtapi_task_new.
ValidPrio(prio) == RtapiPrioLowest <= prio /\ prio <= RtapiPrioHighest

(* Second part, after the mutex is released: priority check, then the     *)
(* fields are filled in.  On a bad priority only the stack is freed.       *)
NewBadPrio(c) ==
  /\ cl[c].pc = "new_fill"
  /\ ~ValidPrio(cl[c].prio)
  /\ heap' = heap \ {cl[c].stack}
  /\ Return(c)   \* EINVAL
  /\ UNCHANGED <<task, wk, owned, started>>

NewFill(c) ==
  /\ cl[c].pc = "new_fill"
  /\ ValidPrio(cl[c].prio)
  /\ \E cpu \in CpuRequests :
       task' = [task EXCEPT ![cl[c].slot].stackaddr = cl[c].stack,
                            ![cl[c].slot].destroyed = FALSE,
                            ![cl[c].slot].cpu = cpu]
  /\ owned' = [owned EXCEPT ![c] = @ \cup {cl[c].slot}]
  /\ Return(c)   \* OK
  /\ UNCHANGED <<heap, wk, started>>

(***************************************************************************)
(* rtapi_task_start: clear deleted, init the barrier, pthread_create on    *)
(* the task's stack; on success the caller goes to the barrier.            *)
(***************************************************************************)
StartAllowed(c, s) ==
  /\ cl[c].pc = "idle"
  /\ s \in owned[c]
  /\ task[s].magic
  /\ s \notin started[c]   \* clients start a task once (spec 4.5)

\* Mutant: a restarted slot keeps the deleted flag of its previous task.
TaskStartKeepDeleted(c, s) ==
  /\ StartAllowed(c, s)
  /\ \E u \in Threads : wk[u].pc = "unused"
  /\ \E t \in Threads :
       /\ t = Min({u \in Threads : wk[u].pc = "unused"})
       /\ task' = [task EXCEPT ![s].thread = task[s].stackaddr,
                               ![s].barrier = [count |-> 0, gen |-> 0]]
       /\ wk' = [wk EXCEPT ![t] = [pc |-> "init", slot |-> s,
                                   stack |-> task[s].stackaddr,
                                   gen |-> 0, initOK |-> FALSE]]
       /\ cl' = [cl EXCEPT ![c].pc = "start_arrive", ![c].slot = s, ![c].thr = t]
  /\ started' = [started EXCEPT ![c] = @ \cup {s}]
  /\ UNCHANGED <<heap, owned>>

TaskStart(c, s) ==
  /\ StartAllowed(c, s)
  /\ \E u \in Threads : wk[u].pc = "unused"
  /\ \E t \in Threads :
       /\ t = Min({u \in Threads : wk[u].pc = "unused"})
       /\ task' = [task EXCEPT ![s].deleted = FALSE,
                               ![s].thread = task[s].stackaddr,
                               ![s].barrier = [count |-> 0, gen |-> 0]]
       /\ wk' = [wk EXCEPT ![t] = [pc |-> "init", slot |-> s,
                                   stack |-> task[s].stackaddr,
                                   gen |-> 0, initOK |-> FALSE]]
       /\ cl' = [cl EXCEPT ![c].pc = "start_arrive", ![c].slot = s, ![c].thr = t]
  /\ started' = [started EXCEPT ![c] = @ \cup {s}]
  /\ UNCHANGED <<heap, owned>>

(* pthread_create fails.  glibc stores the new descriptor's address before *)
(* clone, so the handle is the task's own stack when clone fails (EAGAIN), *)
(* and the previous value when it fails earlier (stack too small for the   *)
(* TLS block).                                                             *)
TaskStartCreateFail(c, s) ==
  /\ StartAllowed(c, s)
  /\ \E h \in {task[s].thread, task[s].stackaddr} :
       task' = [task EXCEPT ![s].deleted = FALSE, ![s].thread = h]
  /\ Return(c)   \* ENOMEM
  /\ UNCHANGED <<heap, wk, owned, started>>

StartArrive(c) ==
  LET s == cl[c].slot IN
  /\ cl[c].pc = "start_arrive"
  /\ task' = BarrierArrive(s)
  /\ cl' = [cl EXCEPT ![c].pc = IF IsSecondArrival(s) THEN "start_check"
                                                     ELSE "start_wait",
                      ![c].gen = WaitGen(s)]
  /\ UNCHANGED <<heap, wk, owned, started>>

StartWaitDone(c) ==
  /\ cl[c].pc = "start_wait"
  /\ Released(cl[c].slot, cl[c].gen)
  /\ cl' = [cl EXCEPT ![c].pc = "start_check", ![c].gen = 0]
  /\ UNCHANGED <<task, heap, wk, owned, started>>

\* After the barrier: the deleted flag tells whether the worker's init failed.
StartResult(c) == IF task[cl[c].slot].deleted THEN "ENOMEM" ELSE "OK"

StartCheck(c) ==
  /\ cl[c].pc = "start_check"
  /\ Return(c)   \* StartResult(c)
  /\ UNCHANGED <<task, heap, wk, owned, started>>

(***************************************************************************)
(* rtapi_task_stop only sets the destroyed flag.                           *)
(***************************************************************************)
TaskStop(c, s) ==
  /\ cl[c].pc = "idle"
  /\ s \in owned[c]
  /\ task[s].magic
  /\ task' = [task EXCEPT ![s].destroyed = TRUE]
  /\ Return(c)   \* OK
  /\ UNCHANGED <<heap, wk, owned, started>>

(***************************************************************************)
(* rtapi_task_delete: if deleted is clear, set it and join task->thread;  *)
(* then free the stack and clear the magic under the mutex.                *)
(***************************************************************************)
TaskDelete(c, s) ==
  /\ cl[c].pc = "idle"
  /\ s \in owned[c]
  /\ task[s].magic
  /\ task' = [task EXCEPT ![s].deleted = TRUE]
  /\ cl' = [cl EXCEPT ![c].pc = IF task[s].deleted THEN "del_free" ELSE "del_join",
                      ![c].slot = s]
  /\ UNCHANGED <<heap, wk, owned, started>>

\* The thread pthread_join(h) means, if it is not yet reaped: glibc puts a
\* descriptor at the top of the user stack, so h names the last thread
\* created on stack block h (task_new's memset and the next pthread_create
\* on a reused block overwrite an earlier descriptor).  Thread ids are
\* handed out in increasing order, so the last one has the largest id.
Joinable(h) ==
  LET onBlock == {t \in Threads : wk[t].stack = h /\ wk[t].pc # "unused"} IN
  {t \in onBlock : wk[t].pc # "joined" /\ \A u \in onBlock : u <= t}

\* pthread_join blocks until that thread has terminated, then reaps it.
DelJoin(c) ==
  /\ cl[c].pc = "del_join"
  /\ \E t \in Joinable(task[cl[c].slot].thread) :
       /\ wk[t].pc = "terminated"
       /\ wk' = [wk EXCEPT ![t] = [pc |-> "joined", slot |-> 0,
                                   stack |-> @.stack, gen |-> 0, initOK |-> FALSE]]
  /\ cl' = [cl EXCEPT ![c].pc = "del_free"]
  /\ UNCHANGED <<task, heap, owned, started>>

\* No thread has that handle (never written, or already reaped): the join
\* is undefined behaviour; the model takes the outcome in which it returns
\* an error, which is only logged.
DelJoinInvalid(c) ==
  /\ cl[c].pc = "del_join"
  /\ Joinable(task[cl[c].slot].thread) = {}
  /\ cl' = [cl EXCEPT ![c].pc = "del_free"]
  /\ UNCHANGED <<task, heap, wk, owned, started>>

DelFree(c) ==
  LET s == cl[c].slot IN
  /\ cl[c].pc = "del_free"
  /\ heap' = heap \ {task[s].stackaddr}
  /\ task' = [task EXCEPT ![s].stackaddr = NoStack, ![s].magic = FALSE]
  /\ owned' = [owned EXCEPT ![c] = @ \ {s}]
  /\ started' = [started EXCEPT ![c] = @ \ {s}]
  /\ Return(c)   \* OK
  /\ UNCHANGED <<wk>>

(***************************************************************************)
(* realtime_thread: affinity and FIFO priority, then the init barrier.     *)
(* On failure deleted is set before the barrier so that the starter sees   *)
(* it; on success the body starts once the barrier opens.                  *)
(***************************************************************************)
WorkerInit(t) ==
  LET s == wk[t].slot IN
  /\ wk[t].pc = "init"
  /\ AffinityOK(task[s].cpu)
  /\ TRUE \in SetPriorityResults
  /\ task' = BarrierArrive(s)
  /\ wk' = [wk EXCEPT ![t].pc = IF IsSecondArrival(s) THEN "body" ELSE "ok_wait",
                      ![t].gen = WaitGen(s),
                      ![t].initOK = TRUE]
  /\ UNCHANGED <<heap, cl, owned, started>>

\* Mutant: the failing worker opens the barrier without setting deleted.
WorkerInitFailNoFlag(t) ==
  LET s == wk[t].slot IN
  /\ wk[t].pc = "init"
  /\ ~AffinityOK(task[s].cpu) \/ FALSE \in SetPriorityResults
  /\ wk' = [wk EXCEPT ![t].pc = "fail"]
  /\ UNCHANGED <<task, heap, cl, owned, started>>

WorkerInitFail(t) ==
  LET s == wk[t].slot IN
  /\ wk[t].pc = "init"
  /\ ~AffinityOK(task[s].cpu) \/ FALSE \in SetPriorityResults
  /\ task' = [task EXCEPT ![s].deleted = TRUE]
  /\ wk' = [wk EXCEPT ![t].pc = "fail"]
  /\ UNCHANGED <<heap, cl, owned, started>>

WorkerFailArrive(t) ==
  LET s == wk[t].slot IN
  /\ wk[t].pc = "fail"
  /\ task' = BarrierArrive(s)
  /\ wk' = [wk EXCEPT ![t].pc = IF IsSecondArrival(s) THEN "exiting" ELSE "fail_wait",
                      ![t].gen = WaitGen(s)]
  /\ UNCHANGED <<heap, cl, owned, started>>

WorkerRelease(t) ==
  /\ wk[t].pc \in {"ok_wait", "fail_wait"}
  /\ Released(wk[t].slot, wk[t].gen)
  /\ wk' = [wk EXCEPT ![t].pc = IF @ = "ok_wait" THEN "body" ELSE "exiting",
                      ![t].gen = 0]
  /\ UNCHANGED <<task, heap, cl, owned, started>>

\* The thread has stopped running.  Its descriptor, and so its handle,
\* stays at the top of its stack until pthread_join reaps it.
Terminate(t) == [wk EXCEPT ![t].pc = "terminated"]

\* rtapi_this_task(): the task_data pointer realtime_thread stored under the
\* thread-specific key with rtapi_set_task, so each thread finds its own slot.
ThisTask(t) == wk[t].slot

\* rtapi_wait(): a deleted task's thread ends in pthread_exit.
\* Mutant: rtapi_wait tests the flag task_stop writes instead of deleted.
WorkerWaitOnDestroyed(t) ==
  /\ wk[t].pc = "body"
  /\ task[wk[t].slot].destroyed
  /\ wk' = Terminate(t)
  /\ UNCHANGED <<task, heap, cl, owned, started>>

WorkerWait(t) ==
  /\ wk[t].pc = "body"
  /\ task[ThisTask(t)].deleted
  /\ wk' = Terminate(t)
  /\ UNCHANGED <<task, heap, cl, owned, started>>

\* The task function returns: the thread logs, sets deleted and returns.
WorkerReturn(t) ==
  /\ wk[t].pc = "body"
  /\ task' = [task EXCEPT ![wk[t].slot].deleted = TRUE]
  /\ wk' = [wk EXCEPT ![t].pc = "exiting"]
  /\ UNCHANGED <<heap, cl, owned, started>>

\* "return NULL": the thread leaves its stack and terminates.
WorkerExit(t) ==
  /\ wk[t].pc = "exiting"
  /\ wk' = Terminate(t)
  /\ UNCHANGED <<task, heap, cl, owned, started>>

\* rtapi_task_pause / rtapi_task_resume validate the id and the magic and
\* return -EINVAL or -ENOSYS: a call that changes nothing.
TaskPauseResume(c) ==
  /\ cl[c].pc = "idle"
  /\ UNCHANGED vars

-----------------------------------------------------------------------------
CallerCall(c) ==
  \/ NewNoStack(c) \/ NewTableFull(c) \/ NewReserve(c)
  \/ \E s \in Slots : TaskStart(c, s) \/ TaskStartCreateFail(c, s)
                    \/ TaskStop(c, s) \/ TaskDelete(c, s)
  \/ TaskPauseResume(c)

\* Steps inside a call already made.
CallerStep(c) ==
  \/ NewBadPrio(c) \/ NewFill(c)
  \/ StartArrive(c) \/ StartWaitDone(c) \/ StartCheck(c)
  \/ DelJoin(c) \/ DelJoinInvalid(c) \/ DelFree(c)

\* Worker steps other than the task function returning, which it must not.
WorkerStep(t) ==
  \/ WorkerInit(t) \/ WorkerInitFail(t) \/ WorkerFailArrive(t)
  \/ WorkerRelease(t) \/ WorkerWait(t) \/ WorkerExit(t)

Next ==
  \/ \E c \in Callers : CallerCall(c) \/ CallerStep(c)
  \/ \E t \in Threads : WorkerStep(t) \/ WorkerReturn(t)

(* The kernel runs every runnable thread: a call in progress goes on, and *)
(* the task body calls rtapi_wait() every period.  Nothing forces a client *)
(* to make a new call or a task function to return.                       *)
Fairness ==
  /\ \A c \in Callers : WF_vars(CallerStep(c))
  /\ \A t \in Threads : WF_vars(WorkerStep(t))

Spec == Init /\ [][Next]_vars /\ Fairness

-----------------------------------------------------------------------------
TypeOK ==
  /\ task \in [Slots -> [magic : BOOLEAN, deleted : BOOLEAN, destroyed : BOOLEAN,
                         cpu : CpuRequests \cup {-1},
                         stackaddr : StackIds \cup {NoStack},
                         thread : StackIds \cup {NoStack},
                         barrier : [count : 0 .. 1, gen : Nat]]]
  /\ heap \subseteq StackIds
  /\ wk \in [Threads -> [pc : WorkerPcs, slot : Slots,
                         stack : StackIds \cup {NoStack},
                         gen : Nat, initOK : BOOLEAN]]
  /\ cl \in [Callers -> [pc : CallerPcs, slot : Slots,
                         stack : StackIds \cup {NoStack},
                         gen : Nat, thr : Threads, prio : Int]]
  /\ owned \in [Callers -> SUBSET Slots]
  /\ started \in [Callers -> SUBSET Slots]

(* rtapi_task_start returns 0 only if the worker it created got through    *)
(* realtime_set_affinity and realtime_set_priority: the init barrier and   *)
(* the deleted flag written before it must carry the worker's verdict to   *)
(* the starter.                                                            *)
StartSuccessMeansInitDone ==
  [][\A c \in Callers :
       (cl[c].pc = "start_check" /\ cl'[c].pc = "idle" /\ StartResult(c) = "OK")
         => wk[cl[c].thr].initOK]_vars

(* A task body whose task has been marked deleted leaves: rtapi_wait()   *)
(* sees the flag on its next period and calls pthread_exit, so the join   *)
(* in task_delete returns.  The flag must stay set until then.            *)
DeletedBodyEnds ==
  \A t \in Threads :
    (wk[t].pc = "body" /\ task[wk[t].slot].deleted) ~> ~Live(t)

(* A task that task_stop has marked destroyed stops running: spec 4.3     *)
(* says the worker observes destroyed or deleted at its next wait and      *)
(* leaves its loop.  rtapi_wait tests only deleted.                        *)
StoppedBodyEnds ==
  \A t \in Threads : (wk[t].pc = "body" /\ task[ThisTask(t)].destroyed) ~> ~Live(t)

(* A thread's stack is not freed while the thread still runs on it         *)
(* (spec 5: the stack memory must outlive the thread).                     *)
StackOutlivesThread == \A t \in Threads : Live(t) => wk[t].stack \in heap

(* Every slot marked TASK_MAGIC belongs to a task id some caller holds or  *)
(* is creating (spec 4.3: a bad priority releases the slot).               *)
SlotsAccountedFor ==
  \A n \in Slots :
    task[n].magic =>
      \E c \in Callers : n \in owned[c] \/ (cl[c].pc = "new_fill" /\ cl[c].slot = n)

-----------------------------------------------------------------------------
(***************************************************************************)
(* Refinement mapping to TaskLifecycle: a slot without TASK_MAGIC is free; *)
(* with it, configured until pthread_create has succeeded for it, then    *)
(* running until its deleted flag is set, then draining.  task_stop's     *)
(* destroyed flag is not part of the mapping: no code reads it, so a      *)
(* stopped task is still running.                                          *)
(***************************************************************************)
StartedSlots == UNION {started[c] : c \in Callers}

LifecycleState(s) ==
  CASE ~task[s].magic          -> "free"
    [] s \notin StartedSlots   -> "configured"
    [] task[s].deleted         -> "draining"
    [] OTHER                   -> "running"

Lifecycle == INSTANCE TaskLifecycle
               WITH state <- [s \in Slots |-> LifecycleState(s)]

(* The slot table goes through the spec's lifecycle only: task_new makes a *)
(* free slot configured, a created thread makes it running, deleted makes  *)
(* it draining, and only task_delete frees it, never from running.  This  *)
(* needs task_start to clear the deleted flag a reused slot still carries *)
(* from its previous task, and task_delete to signal before it frees.      *)
ImplementsLifecycle == Lifecycle!Spec

(* The priority helpers agree with spec 4.3 on the priority a client      *)
(* passes to rtapi_task_new and on the ones next to it: one step up or     *)
(* down, clamped to the SCHED_FIFO range, so a priority a client derives   *)
(* from its own with them always passes the check that decides between    *)
(* NewBadPrio and NewFill.  With priorities just outside the range this    *)
(* reaches every branch of next_higher and next_lower.                     *)
Clamp(x) == IF x < RtapiPrioLowest THEN RtapiPrioLowest
            ELSE IF x > RtapiPrioHighest THEN RtapiPrioHighest ELSE x
PrioHelpersClamp ==
  \A c \in Callers :
    cl[c].pc = "new_fill" =>
      \A q \in cl[c].prio - 1 .. cl[c].prio + 1 :
        /\ RtapiPrioNextHigher(q) = Clamp(q + 1)
        /\ RtapiPrioNextLower(q) = Clamp(q - 1)
        /\ ValidPrio(RtapiPrioNextHigher(q)) /\ ValidPrio(RtapiPrioNextLower(q))
=============================================================================
