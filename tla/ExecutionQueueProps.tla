------------------------- MODULE ExecutionQueueProps -------------------------
(***************************************************************************)
(* What the execution queue is relied on for.  Items that a user may       *)
(* cancel are left out of the properties that cancel_execution, which      *)
(* writes without looking again, does not keep (see the README  ).     *)
(***************************************************************************)
EXTENDS ExecutionQueue

Uncancellable == Items \ Cancellable

\* A worker that may still write the rows of its item.
Active(w) == pc[w] \notin {"down", "idle", "claim", "release", "ended"}

\* Two runs never drive the browser of one platform account at the same time,
\* whatever recovery, late heartbeats and crashes do: the advisory lock is
\* taken before the first keyword and given back in the finally block.
RuntimeExclusive ==
  \A v, w \in Workers :
    v # w /\ pc[v] \in Driving /\ pc[w] \in Driving => MyRuntime(v) # MyRuntime(w)

\* No lock outlives the run that took it: the holder of an advisory lock is
\* running an item of that runtime, and the process-local set of its process
\* names the runtime as long as, and no longer than, the advisory lock is held.
LocksNotLeaked ==
  /\ \A r \in Runtimes : dbLock[r] # NoWorker =>
       /\ pc[dbLock[r]] \in Driving \cup Tails
       /\ MyRuntime(dbLock[r]) = r
       /\ r \in procLocks[ProcessOf[dbLock[r]]]
  /\ \A p \in Processes : \A r \in procLocks[p] :
       dbLock[r] # NoWorker /\ ProcessOf[dbLock[r]] = p

\* The two kinds of lock together keep a browser to one run, and set it free after
\* that run: no crash, late heartbeat or failed release leaves an account shared
\* or shut out (run_queue_item's acquire and its finally block).
LocksHold == RuntimeExclusive /\ LocksNotLeaked

\* While heartbeats are timely no item is run by two workers: claim, stale
\* recovery and the retries of a run never hand out an item that is being run.
OneRunPerItem ==
  \A v, w \in Workers : v # w /\ Active(v) /\ Active(w) => MyItem(v) # MyItem(w)

\* While heartbeats are timely an item is never attempted more often than its
\* max_attempts, however retries, crashes and recovery are interleaved.
AttemptsBounded == \A i \in Items : queue[i].attempts <= MaxAttempts

\* Claims, retries and recovery hand out an item one run at a time and a bounded
\* number of times, as long as heartbeats are timely.
RunsBounded == OneRunPerItem /\ AttemptsBounded

\* An execution shown as running has a queue item that is running too, so that
\* stale recovery (which looks for running queue items only) can find it.
RunningIsRecoverable ==
  \A i \in Uncancellable : execution[i].status = "running" => queue[i].status = "running"

\* While no worker process dies, a queue item ends with the status its
\* execution ended with: the two tables never disagree about the result.
TablesAgree ==
  \A i \in Uncancellable : queue[i].status \in TerminalQueue =>
    queue[i].status = (IF execution[i].status = "partial" THEN "completed" ELSE execution[i].status)

\* Every enqueued item ends, though processes crash and are stopped.
QueueDrains ==
  \A i \in Items : queue[i].status # "absent" ~> queue[i].status \in TerminalQueue

\* An execution whose cancellation was requested comes to an end.
CancelLeadsToEnd ==
  \A i \in Items : execution[i].cancel ~> execution[i].status \in TerminalExecution

\* The queue items of uncancellable executions go through the life of a job:
\* attempts are counted and bounded, and a finished item stays finished.
Phase(s) == IF s \in Claimable THEN "waiting" ELSE s

Lifecycle == INSTANCE JobLifecycle WITH
  Jobs <- Uncancellable,
  MaxTries <- MaxAttempts,
  state <- [i \in Uncancellable |-> Phase(queue[i].status)],
  tries <- [i \in Uncancellable |-> queue[i].attempts]

ImplementsJobLifecycle == Lifecycle!Spec

=============================================================================
