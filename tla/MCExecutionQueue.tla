--------------------------- MODULE MCExecutionQueue ---------------------------
(* Small instances of the execution queue for TLC. *)
EXTENDS ExecutionQueueProps, TLC

CONSTANTS i1, i2, w1, w2, p1, p2, r1

\* One platform account for both items: they compete for its runtime.
OneRuntime == [i \in Items |-> r1]

\* Two coroutines of one process, and two processes.
OneProcess   == [w \in Workers |-> p1]
TwoProcesses == w1 :> p1 @@ w2 :> p2

=============================================================================
