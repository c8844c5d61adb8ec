---------------------------- MODULE RtapiTiming ----------------------------
(***************************************************************************)
(* Periodic wait of one RTAPI task (src/rtapi/linux_rtapi.c): the clock    *)
(* period (rtapi_clock_set_period), the task period set by                 *)
(* rtapi_task_start / realtime_thread / rtapi_task_set_period, and the     *)
(* rtapi_wait() loop: absolute clock_nanosleep to next_time, advance of    *)
(* next_time by rtapi_advance_time, and deadline-miss accounting.          *)
(*                                                                         *)
(* Time is in nanoseconds scaled down: a second has NsPerSec units.        *)
(* next_time is a timespec record and is advanced exactly as the code      *)
(* does, carry loop included.  The monotonic clock is "now".               *)
(***************************************************************************)
EXTENDS Integers

CONSTANTS
  NsPerSec,       \* 1000000000 in the code
  Res,            \* clock_getres(CLOCK_MONOTONIC).tv_nsec
  ClockInputs,    \* nsecs passed to rtapi_clock_set_period
  StartPeriods,   \* period_nsec passed to rtapi_task_start
  SetPeriods,     \* period_nsec passed to rtapi_task_set_period
  WorkTimes,      \* time the task body works between two rtapi_wait() calls
  MaxLatency,     \* wake-up latency of clock_nanosleep
  MaxTime,        \* bound on the monotonic clock
  Setters,        \* threads that call rtapi_clock_set_period
  IntHalf         \* 2^31 ns in the scaled unit: the range of an int is
                  \* -IntHalf .. IntHalf - 1

ASSUME NsPerSec \in Nat \ {0} /\ Res \in Nat \ {0}
ASSUME ClockInputs \subseteq Nat /\ StartPeriods \subseteq Nat /\ SetPeriods \subseteq Nat
ASSUME WorkTimes \subseteq Nat /\ MaxLatency \in Nat /\ MaxTime \in Nat
ASSUME IntHalf \in Nat \ {0}

VARIABLES
  period,    \* static int period: the clock tick, 0 until set
  tperiod,   \* task->period
  ratio,     \* task->ratio
  next,      \* task->next_time, a timespec
  now,       \* CLOCK_MONOTONIC
  failures,  \* task->failures
  deleted,   \* task->deleted
  pc,        \* the task thread: unstarted, body, wait, woken, exited, crashed
  deadline,  \* history: the next_time the last sleep was aimed at
  late,      \* history: number of wake-ups after the deadline slept to
  setter     \* setter[s]: pc of a clock_set_period call, and the period
             \* it computed from clock_getres

vars == <<period, tperiod, ratio, next, now, failures, deleted, pc,
          deadline, late, setter>>

Ns(ts) == ts.sec * NsPerSec + ts.nsec

ToTimespec(n) == [sec |-> n \div NsPerSec, nsec |-> n % NsPerSec]

(* rtapi_advance_time(tv, ns, 0): add nsec, then move whole seconds while  *)
(* ns > 1000000000.                                                        *)
RECURSIVE Carry(_, _)
Carry(ns, s) == IF ns > NsPerSec THEN Carry(ns - NsPerSec, s + 1) ELSE <<ns, s>>

\* Mutant: the nanoseconds are added without any carry into seconds.
AdvanceTimeNoCarry(tv, ns) == [sec |-> tv.sec, nsec |-> ns + tv.nsec]

AdvanceTime(tv, ns) ==
  LET r == Carry(ns + tv.nsec, 0) IN [sec |-> tv.sec + r[2], nsec |-> r[1]]

\* ts > next_time, compared field by field as in rtapi_wait.
Later(ts, tv) ==
  \/ ts.sec > tv.sec
  \/ ts.sec = tv.sec /\ ts.nsec > tv.nsec

Init ==
  /\ period = 0
  /\ tperiod = 0
  /\ ratio = 0
  /\ next = [sec |-> 0, nsec |-> 0]
  /\ now = 0
  /\ failures = 0
  /\ deleted = FALSE
  /\ pc = "unstarted"
  /\ deadline = [sec |-> 0, nsec |-> 0]
  /\ late = 0
  /\ setter = [s \in Setters |-> [pc |-> "idle", val |-> 0]]

(***************************************************************************)
(* rtapi_clock_set_period: 0 queries; a second set is refused; otherwise   *)
(* round down to the resolution, at least one resolution tick.  The check  *)
(* of period and the store are two steps: no lock is held between them.   *)
(***************************************************************************)
\* An unsigned long stored in an int: the low 32 bits, two's complement.
ToInt(v) == ((v + IntHalf) % (2 * IntHalf)) - IntHalf

\* The period a set computes: round down to the resolution in unsigned long,
\* store in the int period, and take one tick if that is not positive.
Rounded(nsecs) ==
  LET r == ToInt((nsecs \div Res) * Res) IN IF r < 1 THEN Res ELSE r

\* The checks, read without any lock.  A query (nsecs = 0) and a refused
\* second set return at once; a first set goes on to clock_getres.
ClockSetPeriod(s) ==
  /\ setter[s].pc = "idle"
  /\ \E nsecs \in ClockInputs :
       \/ nsecs # 0 /\ period = 0
          /\ setter' = [setter EXCEPT ![s] = [pc |-> "store", val |-> Rounded(nsecs)]]
       \/ (nsecs = 0 \/ period # 0) /\ UNCHANGED setter
  /\ UNCHANGED <<period, tperiod, ratio, next, now, failures, deleted, pc, deadline, late>>

\* period = ...: the store, a step after the check.
ClockSetStore(s) ==
  /\ setter[s].pc = "store"
  /\ period' = setter[s].val
  /\ setter' = [setter EXCEPT ![s] = [pc |-> "idle", val |-> 0]]
  /\ UNCHANGED <<tperiod, ratio, next, now, failures, deleted, pc, deadline, late>>

(***************************************************************************)
(* rtapi_task_start followed by realtime_thread up to the task function:  *)
(* task_start clamps the unsigned long period to the tick and stores it in *)
(* the int task->period; the thread clamps that int again, then ratio =    *)
(* period / tick, next_time = now + period.  With the tick still 0 the     *)
(* division traps (SIGFPE).                                                *)
(***************************************************************************)
TaskStart ==
  /\ pc = "unstarted"
  /\ \E p \in StartPeriods :
       LET stored == ToInt(IF p < period THEN period ELSE p)
           tp     == IF stored < period THEN period ELSE stored IN
       IF period = 0
       THEN /\ pc' = "crashed"
            /\ UNCHANGED <<setter, tperiod, ratio, next, deadline>>
       ELSE /\ tperiod' = tp
            /\ ratio' = tp \div period
            /\ next' = AdvanceTime(ToTimespec(now), tp)
            /\ deadline' = next'
            /\ pc' = "body"
  /\ UNCHANGED <<setter, period, now, failures, deleted, late>>

\* rtapi_task_set_period stores the value as given, in the int task->period.
TaskSetPeriod ==
  /\ pc \notin {"unstarted", "exited", "crashed"}
  /\ \E p \in SetPeriods : tperiod' = ToInt(p)
  /\ UNCHANGED <<setter, period, ratio, next, now, failures, deleted, pc, deadline, late>>

\* rtapi_task_delete sets deleted; the thread sees it at its next wait.
TaskDelete ==
  /\ pc \notin {"unstarted", "exited", "crashed"}
  /\ ~deleted
  /\ deleted' = TRUE
  /\ UNCHANGED <<setter, period, tperiod, ratio, next, now, failures, pc, deadline, late>>

\* The task function does its work for the cycle, then calls rtapi_wait().
Work ==
  /\ pc = "body"
  /\ \E w \in WorkTimes : now + w <= MaxTime /\ now' = now + w
  /\ pc' = "wait"
  /\ UNCHANGED <<setter, period, tperiod, ratio, next, failures, deleted, deadline, late>>

(***************************************************************************)
(* rtapi_wait: exit if deleted; else clock_nanosleep(TIMER_ABSTIME) to     *)
(* next_time.  A timespec with tv_nsec >= 1000000000 makes the call fail  *)
(* with EINVAL at once (the result is not checked).                        *)
(***************************************************************************)
WaitExit ==
  /\ pc = "wait"
  /\ deleted
  /\ pc' = "exited"
  /\ UNCHANGED <<setter, period, tperiod, ratio, next, now, failures, deleted, deadline, late>>

WaitSleep ==
  /\ pc = "wait"
  /\ ~deleted
  /\ \E lat \in 0 .. MaxLatency :
       now' = IF next.nsec >= NsPerSec \/ now >= Ns(next) THEN now
              ELSE Ns(next) + lat
  /\ now' <= MaxTime
  /\ deadline' = next
  /\ late' = IF now' > Ns(next) THEN late + 1 ELSE late
  /\ pc' = "woken"
  /\ UNCHANGED <<setter, period, tperiod, ratio, next, failures, deleted>>

(* After the sleep: advance next_time by the task period, read the clock, *)
(* and count a miss if now is past the advanced next_time.                 *)
\* Mutant: a miss is counted when now has reached the deadline slept to.
WaitWakeMissAtDeadline ==
  LET nt == AdvanceTime(next, tperiod) IN
  /\ pc = "woken"
  /\ next' = nt
  /\ failures' = IF ~Later(next, ToTimespec(now)) THEN failures + 1 ELSE failures
  /\ pc' = "body"
  /\ UNCHANGED <<setter, period, tperiod, ratio, now, deleted, deadline, late>>

WaitWake ==
  LET nt == AdvanceTime(next, tperiod) IN
  /\ pc = "woken"
  /\ next' = nt
  /\ failures' = IF Later(ToTimespec(now), nt) THEN failures + 1 ELSE failures
  /\ pc' = "body"
  /\ UNCHANGED <<setter, period, tperiod, ratio, now, deleted, deadline, late>>

Next ==
  \/ \E s \in Setters : ClockSetPeriod(s) \/ ClockSetStore(s)
  \/ TaskStart \/ TaskSetPeriod \/ TaskDelete
  \/ Work \/ WaitExit \/ WaitSleep \/ WaitWake

Spec == Init /\ [][Next]_vars

-----------------------------------------------------------------------------
TypeOK ==
  /\ period \in 0 .. IntHalf - 1 /\ tperiod \in -IntHalf .. IntHalf - 1 /\ ratio \in Nat
  /\ next \in [sec : Nat, nsec : 0 .. NsPerSec]
  /\ deadline \in [sec : Nat, nsec : 0 .. NsPerSec]
  /\ now \in 0 .. MaxTime
  /\ failures \in Nat /\ late \in Nat
  /\ deleted \in BOOLEAN
  /\ pc \in {"unstarted", "body", "wait", "woken", "exited", "crashed"}
  /\ setter \in [Setters -> [pc : {"idle", "store"}, val : Nat]]

Running == pc \in {"body", "wait", "woken"}

(* A deadline miss is never reported for a cycle that woke on time.        *)
NoFalseMiss == failures <= late

(* clock_nanosleep(TIMER_ABSTIME, next_time) does not return before       *)
(* next_time: a task never starts a cycle early.                          *)
WakeNotBeforeDeadline ==
  [][pc = "wait" /\ pc' = "woken" => now' >= Ns(next)]_vars

(* Every cycle that woke after its deadline is counted in task->failures  *)
(* (spec 4.5 and scenario 5).                                              *)
MissCounted == failures = late

(* A running task's period is never below the clock tick (spec 8: "for   *)
(* all tasks, period >= clock_tick at all observation points"; spec 3).    *)
(* task_start and realtime_thread clamp it up to the tick they read; it    *)
(* breaks if the tick grows after that clamp, as when two threads set it   *)
(* at once, or if rtapi_task_set_period stores a smaller value.            *)
PeriodAtLeastTick == Running => tperiod >= period
=============================================================================
