---------------------------- MODULE MCRtapiTask ----------------------------
(* Model-checking instance of RtapiTask: two slots, thread ids and stacks *)
(* bounded so that slots and stacks are reused.                           *)
EXTENDS RtapiTask

CONSTANTS c1, c2

MCCallersOne == {c1}
MCCallersTwo == {c1, c2}

\* cpu_id -1 (any CPU) and a CPU outside the allowed set
MCCpuRequests == {-1, 1}

\* cpu_id -1 only
MCCpuAny == {-1}
=============================================================================
