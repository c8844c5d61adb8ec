--------------------------- MODULE TaskLifecycle ---------------------------
(***************************************************************************)
(* What a task slot promises its clients (spec 3 "Lifecycle" and the state *)
(* table of spec 4.5): a slot is free, configured (task_new), running      *)
(* (task_start created its thread) or draining (the thread was told to    *)
(* stop, or stopped itself); only task_delete makes it free again, and    *)
(* only from configured or draining: a running task is signalled before   *)
(* its slot is freed.  Whether its thread has left the stack by then is    *)
(* not part of this abstraction; the detailed modules check that with      *)
(* their own invariants (StackOutlivesThread, HandlesNameOwnThreads).      *)
(***************************************************************************)
CONSTANT Slots

VARIABLE state

States == {"free", "configured", "running", "draining"}

Init == state = [n \in Slots |-> "free"]

Move(n, from, to) ==
  /\ state[n] \in from
  /\ state' = [state EXCEPT ![n] = to]

New(n)    == Move(n, {"free"}, "configured")
Start(n)  == Move(n, {"configured"}, "running")
\* task_stop, the worker setting deleted, or task_delete signalling it.
Drain(n)  == Move(n, {"running"}, "draining")
Delete(n) == Move(n, {"configured", "draining"}, "free")

Next == \E n \in Slots : New(n) \/ Start(n) \/ Drain(n) \/ Delete(n)

Spec == Init /\ [][Next]_state

TypeOK == state \in [Slots -> States]
=============================================================================
