# TLA+ models of the MachineKit RTAPI user-space back ends

This directory holds TLA+ models of `src/src/rtapi/linux_rtapi.c` (the POSIX
threads RTAPI) and `src/src/rtapi/rt-preempt.c` (the RT-PREEMPT flavour). It
also holds the TLC configurations that check those models.

## The system

The RTAPI hands out real-time tasks and module ids to HAL components. It is
made of five parts that interact:

| Part | Code | What it does |
|------|------|--------------|
| C1 slot tables | `task_array`, `module_array`, `array_mutex` | fixed tables whose entries are claimed by a magic tag written under the mutex |
| C2 module registry | `rtapi_init`/`rtapi_exit`, `_rtapi_init`/`_rtapi_exit` | first free module slot, id = slot + `MODULE_OFFSET` |
| C3 task admission | `rtapi_task_new`, `_delete`, `_stop`, `_set_period`, `_pause`/`_resume`, `rtapi_clock_set_period` | claims a slot and a stack, validates the priority, stores the configuration, frees the slot |
| rt-preempt hooks | `_rtapi_task_*_hook`, its `realtime_thread`, `_rtapi_wait_hook` | the same lifecycle over `extra_task_data`, plus per-thread statistics found through `task_self_hook` |
| C4 worker thread | `rtapi_task_start`, `realtime_thread`, `realtime_set_affinity`, `realtime_set_priority` | creates the thread on the task's stack; a 2-party barrier makes the starter wait until the worker has set affinity and priority, or has failed |
| C5 periodic wait | `rtapi_wait`, `rtapi_advance_time` | absolute sleep to `next_time`, advance by the period, count deadline misses in `failures` |

The parts interact as follows:
- The caller threads (HAL) call C2 and C3.
- `task_start` creates a C4 thread. That thread then loops through C5 inside the task function.
- The only signal from a deleter to the worker is the `deleted` flag. It is written by `task_delete` and also by the worker itself, without a lock, and it is read by `rtapi_wait` and `task_start`.
- `task_delete` waits for the worker with `pthread_join`, and only if it was the one that set `deleted`.

## Modules

### `RtapiTask`: C1 task table, C3 and C4

- **State.**
  - `task[s]` holds the fields of `task_array[s]` that control anything: `magic`, `deleted`, `destroyed`, `cpu`, `stackaddr`, `thread` and the barrier as `[count, gen]`.
  - `heap` is the set of allocated stacks.
  - `wk[t]` is a worker thread: its `pc`, slot and stack, and whether its init succeeded.
  - `cl[c]` is a caller thread: its `pc` inside a call and the call's locals.
  - `owned` and `started` are history variables for the properties and the refinement mapping.
- **Actions.** There is one action per step between two points where another thread can interleave.
  - `task_new` has two phases. `NewReserve` is the scan-and-claim under the mutex. After it comes `NewBadPrio` or `NewFill`. `NewNoStack` and `NewTableFull` are the early returns.
  - `task_start` consists of `TaskStart` (or `TaskStartCreateFail`), then `StartArrive`, `StartWaitDone` and `StartCheck`.
  - `task_delete` consists of `TaskDelete`, then `DelJoin`/`DelJoinInvalid`, then `DelFree`.
  - `TaskStop` is `task_stop`. `TaskPauseResume` is `task_pause`/`task_resume`: they validate the id and return `-EINVAL` or `-ENOSYS`, and change nothing.
  - The worker steps are `WorkerInit`/`WorkerInitFail`, `WorkerFailArrive`, `WorkerRelease`, then the body's `WorkerWait` (an `rtapi_wait` that finds its task through the thread-specific key, `ThisTask`, sees `deleted` and calls `pthread_exit`), and `WorkerReturn`/`WorkerExit` (the task function returns).
- **Thread handles.** The thread is created with `pthread_attr_setstack` on the task's own stack. glibc puts the thread descriptor, whose address is the `pthread_t`, at the top of that stack. A thread's handle is therefore its stack id, and a stack block that `malloc` hands out again gives the next thread on it the same handle. `task->thread` is never cleared. A failed `pthread_create` leaves either the old handle or the new one, because glibc stores the handle before it clones. `pthread_join(h)` means the last thread created on block `h`, because `task_new`'s `memset` and the next `pthread_create` overwrite an earlier descriptor there. A terminated thread keeps its descriptor until it is joined. The join waits for that thread unless it has already been reaped (`Joinable`). A join of a handle no thread has is undefined behaviour; the model takes the outcome in which it returns an error, which the code only logs.
- **Other abstractions.**
  - Stacks are ids.
  - Affinity is the outcome of `realtime_set_affinity` for the requested cpu. Priority is one of the outcomes of `sched_setscheduler`.
- **Priority helpers.** `RtapiPrioHighest`/`RtapiPrioLowest` are the SCHED_FIFO bounds, taken as the constants `PrioHighest`/`PrioLowest`. `RtapiPrioNextHigher`/`RtapiPrioNextLower` translate `rtapi_prio_next_higher`/`_lower`. `ValidPrio` is the check in `task_new` that decides between `NewBadPrio` and `NewFill`; the priority argument is chosen when the call starts (`NewReserve`) and kept in `cl[c].prio`.
- **Clients.** Callers follow spec 4.5: they start a task they own once, and delete only a task they own.

### `TaskLifecycle`: what a task slot promises

This is an abstract module written from spec 3 and the state table of spec 4.5. A slot is `free`, `configured`, `running` or `draining`:
- `task_new` moves it from free to configured;
- a successful start moves it from configured to running;
- `deleted` being set, by the deleter or by the worker, moves it from running to draining;
- only a delete frees it, and only from configured or draining.

`RtapiTask` and `RtpTask` each instantiate it with `WITH state <- [s \in Slots |-> LifecycleState(s)]`. The mapping reads the state off `magic`, the `started` history and `deleted`. `ImplementsLifecycle` (`Lifecycle!Spec`) is a PROPERTY of both passing task runs.

### `RtpTask`: the rt-preempt task hooks

This models `src/rtapi/rt-preempt.c` in its RTAPI build.
- **State.** `extra[n]` is `extra_task_data[n]` (`deleted`, `destroyed`, `thread`, `stackaddr`) together with the generic layer's `magic`, for slots 1..`MaxTasks`. `wk`, `cl`, `heap`, `owned` and `started` are as in `RtapiTask`. `statsOf[t]` is the slot whose `thread_status` thread `t` last wrote.
- **Generic layer.** The layer that calls the hooks (`rtapi_task.c`) is not under `src/`. Its slot scan and validation (`FreeSlots`, `NewTableFull`, `StartAllowed`) are modelled from the spec.
- **Actions.**
  - `NewTask` and `NewNoStack` are `_rtapi_task_new_hook`.
  - `StartHook`, `StartCreateFail`, `StartBarrier` and `StartCheck` are `_rtapi_task_start_hook`. The two arrivals at the barrier are one step, because neither party does anything between its arrival and the release. The starter's read of `deleted` (`StartCheck`) is a separate, later step, and the released worker runs in between.
  - `StopHook` is `_rtapi_task_stop_hook`.
  - `DeleteHook`, `DelJoin`, `DelJoinInvalid` and `DelFree` are `_rtapi_task_delete_hook`, followed by the generic layer clearing `magic`.
  - The worker steps are `WInit`/`WInitFail`, `WStartup` (the initial `update_stats_hook`), `WWaitExit`/`WWaitMiss` (`_rtapi_wait_hook`, which finds its task through the thread-specific key, `ThisTask`) and `WReturn`/`WExit`.
- **Statistics.** `SelfHook` is `_rtapi_task_self_hook`: the first slot whose recorded handle equals `pthread_self()`. `UpdateStats` is `_rtapi_task_update_stats_hook`.
- **Handles.** Thread handles are stack ids, as in `RtapiTask`, and `Joinable` means the last thread created with the handle.
- **`initOK`.** This field of `wk` records that the worker got through affinity and priority. `StartReportsInit` reads it.

### `RtapiTiming`: C5 and the period parts of C3/C4

This module covers one task and the threads (`Setters`) that call `rtapi_clock_set_period`.
- **State.** It holds the clock tick `period`, each setter's `pc` and the period it computed, `task->period`, `ratio`, `next_time` (a `[sec, nsec]` record), the monotonic clock `now`, `failures` and `deleted`. It also has two history variables:
  - `deadline`: the time slept to;
  - `late`: the number of wake-ups past that time.
- **Time.** Time is scaled so that one second is `NsPerSec` units (4 in the runs). That is enough to reach every carry case of `rtapi_advance_time`.
- **Carry.** `AdvanceTime` is the code's carry loop written as the RECURSIVE operator `Carry`, with the same `>` test.
- **Integer width.** `period` and `task->period` are `int`s given `unsigned long` values. `ToInt` keeps the low 32 bits, two's complement, with `IntHalf` standing for 2^31 ns (8 units).
- **Clock period.** `ClockSetPeriod` is the unlocked test of `period`; the query and the refused second set return there. `ClockSetStore` is the later store of the final value. The code stores the rounded value (199) and then raises it to one tick (200-201). A start between those two lines would see a non-positive tick, and the model does not reach that.
- **Start.** `TaskStart` merges `task_start`'s clamp (511-515) with the thread's (464-466). It reads the tick once, where the code reads it in two threads. It also compares as integers, where the code compares an `unsigned long` with the `int` tick. The two agree while the tick is positive, which is always so here.
- **Sleep.** `clock_nanosleep` returns at `next_time` plus a latency of 0..`MaxLatency`. It returns at once if `next_time` has already passed, or if `tv_nsec` is not normalised (EINVAL).

### `RtapiModule`: C1 module table and C2

- **State.** `inUse[n]` is the module slot table, `count` is `ul_module_count`, and `held[c]` is the set of ids a caller holds.
- **Flavours.** `FirstSlot` and `Counted` select the flavour. The linux flavour scans from slot 0 and keeps no count. The rt-preempt flavour scans 1..MAX and counts.
- **Exit.** `rtapi_exit` checks 0..MAX-1 in both flavours, as the code does.

`MCRtapiTask`, `MCRtpTask` and `MCRtapiModule` declare the callers as model values. They also define the values a `.cfg` cannot write, such as the negative cpu number -1.

## Runs

| Run | Expect | Shows |
|-----|--------|-------|
| `MCRtapiTask.cfg` | pass | `PrioHelpersClamp`: for the priority passed to `task_new` and the ones next to it (with {0, 2} on 1..2, every priority from -1 to 3, which reaches every branch of both helpers), next-higher and next-lower equal the clamped step of spec 4.3, so they always pass `task_new`'s check. `StartSuccessMeansInitDone`: `task_start` returns 0 only after the worker's init succeeded. `DeletedBodyEnds`: a task body whose task is marked deleted leaves, so the join in `task_delete` returns. `ImplementsLifecycle`: every slot follows `TaskLifecycle`. |
| `MCRtapiTask_stack.cfg` | violation | The worker fails init, or returns from its task function, and so sets `deleted` itself. `task_delete` then skips the join and frees the stack of a thread that is still running. |
| `MCRtapiTask_slots.cfg` | violation | `task_new` with an invalid priority leaks the slot. |
| `MCRtapiTask_stop.cfg` | violation | `StoppedBodyEnds`: spec 4.3 says the worker leaves its loop at the next wait once `destroyed` is set. `rtapi_wait` tests only `deleted`, so a stopped task runs for ever unless it is deleted. |
| `MCRtapiTiming.cfg` | pass | `NoFalseMiss`: no on-time cycle is counted as a miss, with overruns and with a clock request that wraps in the `int` tick. |
| `MCRtapiTiming_early.cfg` | violation | `tv_nsec == 1e9` after the carry makes the task wake before its deadline. |
| `MCRtapiTiming_miss.cfg` | violation | A wake-up that is late by less than one period is not counted in `failures`. |
| `MCRtapiTiming_clock.cfg` | violation | `PeriodAtLeastTick` (spec 8: a task's period is never below the clock tick). Two threads in `rtapi_clock_set_period` both pass the `period != 0` test. A task started between their stores is clamped to the first tick, and the second store raises the tick above it. The same property also fails through `rtapi_task_set_period`, which stores the period without clamping. That route takes 5 states with one setter and `SetPeriods = {1, 3}`, a configuration that is not a kept run. |
| `MCRtapiModule.cfg` | pass | With three callers, each module slot is held by exactly one caller while it is in use. |
| `MCRtapiModule_rtp.cfg` | violation | The rt-preempt exit range check never frees the last slot. |
| `MCRtpTask.cfg` | pass | `StartReportsInit`: `_rtapi_task_start_hook` returns 0 only after the worker initialised. `ImplementsLifecycle`: the hooks follow `TaskLifecycle`, although a new task inherits its slot's stale `deleted`. |
| `MCRtpTask_handles.cfg` | violation | `HandlesNameOwnThreads`: after a failed `pthread_create` and a stack reuse, a slot's recorded handle names another task's thread. `task_self_hook` then sends that thread's statistics to the wrong slot, and `_rtapi_task_delete_hook` would join it. |

Every property of a passing run has a mutant in `PROJECT.json`. The mutant is a plausible bug in the code, TLC finds the property violated under it, and it is defined next to the action it replaces.

Two more disagreements with the spec are modelled without a run of their own:
- `rtapi_task_start` divides by the tick while it is still 0. `TaskStart` then goes to `pc = "crashed"`.
- `ul_module_count` is never decremented. Nothing in `src/` reads it.

The first is listed as a hazard in `PROJECT.json`, as is the 32-bit overflow of `rtapi_get_time` (`tv_sec * 1000000000` in a 32-bit `time_t`). The second is not a hazard, because no code depends on the count.

Both task modules also reach the converse of `StartSuccessMeansInitDone`/`StartReportsInit` failing. The starter reads `deleted` a step after the barrier opens. A task function that returns at once sets `deleted` before that read, so a successful start is reported as `-ENOMEM` (9 states in `RtapiTask`, 8 in `RtpTask`). It is listed as a hazard against `linux_rtapi.c:535` and `rt-preempt.c:410`; the project has no run left for it.

Under fair scheduling `RtpTask` has no liveness of the `DeletedBodyEnds` kind. TLC finds a thread whose task was deleted running for ever: a delete joined a stale handle and freed the slot under it, and the next start on the slot cleared `deleted`. Both counterexamples TLC gave start from a slot whose handle names another thread, which is what `MCRtpTask_handles.cfg` shows, so `RtpTask` keeps safety only.

A start that blocks at the barrier for ever would end `RtapiTask` in a state with no successor. The passing run checks for deadlock, so this shows that both worker paths arrive at the barrier.

## Bounds

**`RtapiTask`** (about 1.1M states, about 3 minutes):
- 2 slots, 2 stacks and 2 thread ids.
- Requested priorities {0, 2} against a SCHED_FIFO range shrunk to 1..2 (the kernel's is 1..99; the helpers do not depend on its width), so both a valid and an invalid priority occur. `PrioHelpersClamp` evaluates the helpers at each of them and its two neighbours, so at -1..3. That reaches every branch: below the range, in range and at or above the top for next-higher, and at or below the bottom, in range and above the top for next-lower. Four requested priorities would reach the same branches for more than a minute of extra run time. The violation runs keep {0, 1} against 1..99.
- Both FIFO outcomes.
- One caller.

With 2 thread ids a task can be started, deleted and started again. With 2 stack blocks a freed stack comes back to the other slot while the first slot still records its handle. This reaches a delete racing a worker that sets `deleted` itself, the start handshake on both init paths, handle reuse, and the table-full and no-stack returns. A second caller multiplies the state space without adding a step the single caller cannot take, because every shared-state step is already an atomic action interleaved with the worker.

**`RtpTask`** (705k states, about 1 minute): 2 slots, 2 stack blocks, 2 thread ids and one caller. Both affinity outcomes, both `pthread_create` outcomes, and a `malloc` that can fail. The violation run uses the same bounds. Its counterexample needs both slots and both blocks: 9 steps.

**`RtapiTiming`**:
- Periods 1 and 3 on a 4-unit second, which exercises a carry both at the second boundary and below it.
- Work times {0, 1, 5}, where 5 overruns more than a period.
- Latency 0..1.
- A clock bound of 14, which is three seconds and more than three periods.
- Clock requests {0, 2, 9}: a query, a tick of 2, and 9 units (about 2.25 s), which wraps negative in the `int` and is floored to one resolution tick.
- One setter thread in the passing run. The clock run uses two setters with the periods 2 and 3.

**`RtapiModule`**: 4 module slots and 3 callers for the pass run. The off-by-one runs use 2 slots.

## Fairness

`RtapiTask` assumes weak fairness on every step a caller takes inside a call and on every worker step except `WorkerReturn`:
- The threads are runnable POSIX threads. The only blocking points (the barrier and the join) are modelled as steps that are enabled only once released.
- The task body calls `rtapi_wait` every period, so a body whose task is marked deleted takes `WorkerWait`.
- `WorkerReturn` is the task function choosing to return, and nothing forces it.
- New calls are not fair, because clients may stop calling.

`RtapiTiming`, `RtapiModule` and `RtpTask` check only safety, and refinement as a safety property (`Lifecycle!Spec` has no fairness).

## Not modelled

- **Pagefault counters.** They only feed the miss message.
- **`_rtapi_delay_hook` and the thread name `prctl`.** A relative sleep and a name, with no state.
- **The SCHED_DEADLINE path.** `ENABLE_SCHED_DEADLINE` is 0, so it is dead code.
- **Port I/O, `simple_strtol` and `rtapi_get_time`.** They are stateless wrappers. The overflow of `rtapi_get_time` is a hazard, since nothing in `src/` uses its result for control.
- **The ULAPI `_rtapi_init`/`_rtapi_exit`.** They call code outside `src/`.
- **Parts of the rt-preempt hooks.**
  - The `next_time` arithmetic of `_rtapi_wait_hook`. Its control is that of `rtapi_wait`, carry loop and miss check included, which `RtapiTiming` models. The carry edge and the miss check after the advance are listed as hazards against `rt-preempt.c` as well, with the properties that show them.
  - The period clamp in its `realtime_thread`.
- **Clients that guess slot numbers.** They would expose `task_new` filling fields after the unlock.
- **Restarting a running task.** The model's clients follow spec 4.5.

## Plan for later work

1. Add a caller that guesses slot numbers, to show the `task_new` fill race (linux_rtapi.c:257).
2. Check the converse of the start handshake (`-ENOMEM` only if init failed) when a run slot frees up.
3. State that the clock tick follows the request (rounded down to the resolution). With the width now kept, this fails for requests past 2^31 ns, but it needs a run slot of its own.
