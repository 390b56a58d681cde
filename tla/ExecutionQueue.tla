--------------------------- MODULE ExecutionQueue ---------------------------
(***************************************************************************)
(* The execution queue of the SaaS backend: an execution row and its queue *)
(* item (src/facebook_leads/saas/service.py, storage.py), the worker       *)
(* coroutines that claim and run queue items (worker.py), the user's       *)
(* cancel request, stale recovery, process crashes and restarts.           *)
(*                                                                         *)
(* An item is the pair (execution, queue item) made by one enqueue.  Each  *)
(* database call that touches what another actor reads or writes is an     *)
(* action of its own, so processes interleave between any two of them; the *)
(* coroutines of one process share an event loop, which gives way to       *)
(* another coroutine of that process only at an await (Turn).              *)
(***************************************************************************)
EXTENDS Naturals, FiniteSets

CONSTANTS
  Items,        \* executions, each with its queue item
  Workers,      \* ExecutionWorker coroutines
  Processes,    \* worker processes, each one event loop with its _runtime_locks
  ProcessOf,    \* the process a worker runs in
  Runtimes,     \* browser runtimes, one per platform account
  RuntimeOf,    \* the runtime of an item's platform account
  MaxAttempts,  \* execution_queue_items.max_attempts
  Keywords,     \* number of keywords in the config snapshot
  AutoReply,    \* items whose campaign has reply_mode "automatic"
  Cancellable,  \* items a user may cancel
  Faults,       \* kinds of environment faults that may happen
  MaxStops,     \* bound on process crashes plus shutdowns
  NoItem, NoWorker

ASSUME ProcessAssumption  == ProcessOf \in [Workers -> Processes]
ASSUME RuntimeAssumption  == RuntimeOf \in [Items -> Runtimes]
ASSUME AttemptsAssumption == MaxAttempts \in Nat \ {0}
ASSUME KeywordsAssumption == Keywords \in Nat \ {0}
ASSUME SubsetsAssumption  == AutoReply \subseteq Items /\ Cancellable \subseteq Items
ASSUME StopsAssumption    == MaxStops \in Nat
ASSUME NullsAssumption    == NoItem \notin Items /\ NoWorker \notin Workers
\* "crash": a worker process dies.  "late_heartbeat": the heartbeat of a live
\* worker stops being refreshed.  "post_run": report upload or reply planning
\* raises after the run.  "api_crash": a cancel request dies half-way.
ASSUME FaultsAssumption   == Faults \subseteq {"crash", "late_heartbeat", "post_run", "api_crash"}

VARIABLES
  execution,   \* executions rows: status and cancel_requested
  queue,       \* execution_queue_items rows
  before,      \* items with an earlier queued_at
  plan,        \* status of the reply plan of an automatic campaign
  heartbeat,   \* worker_heartbeats rows: current_queue_item_id, last_seen_at
  pc,          \* where each worker coroutine is
  run,         \* local variables of tick and run_queue_item
  procLocks,   \* SaaSService._runtime_locks of each process
  dbLock,      \* pg advisory lock of each runtime and its holder
  cancelPc,    \* where the cancel request for an item is
  stopping,    \* SIGTERM received: the stop event of each process
  stops        \* process stops so far (bounds the model)

dbVars     == <<execution, queue, before, plan>>
workerVars == <<pc, run>>
lockVars   == <<procLocks, dbLock>>
procVars   == <<stopping, stops>>
vars == <<execution, queue, before, plan, heartbeat, pc, run, procLocks, dbLock, cancelPc, stopping, stops>>

TerminalExecution == {"completed", "partial", "failed", "cancelled"}
TerminalQueue     == {"completed", "failed", "cancelled"}
Claimable         == {"queued", "retry_waiting"}

ExecutionStatus == {"absent", "queued", "running"} \cup TerminalExecution
QueueStatus     == {"absent", "running"} \cup Claimable \cup TerminalQueue

\* Where a coroutine may give way to another coroutine of its process.
AwaitPoints == {"down", "idle", "login", "provider", "ended"}

\* Between taking and releasing the runtime locks (the browser is driven).
Driving == {"start", "loop", "provider", "outcome", "final", "post", "auto_send", "finish_queue"}

\* Shared tails of run_queue_item: _finish_queue_error, _retry_queue_item,
\* _finish_queue_failure, _cancel_queue_item and the finally block.
Tails == {"error", "retry", "retry_execution", "retry_queue", "fail_execution",
          "fail_queue", "cancel_execution", "cancel_queue", "release"}

Phases == {"down", "idle", "claim", "claimed", "preflight", "login", "ended"}
            \cup Driving \cup Tails

NoRun == [item |-> NoItem, attempts |-> 0, completed |-> 0, failed |-> 0,
          retryable |-> 0, error |-> "none", verdict |-> "none"]

ExecutionRow == [status : ExecutionStatus, cancel : BOOLEAN]
QueueRow     == [status : QueueStatus, attempts : Nat, claimedBy : Workers \cup {NoWorker},
                 aged : BOOLEAN, due : BOOLEAN]
HeartbeatRow == [item : Items \cup {NoItem}, fresh : BOOLEAN]

\* "approved": candidates to send; "pending_approval": none of them has a
\* template; "blocked": no comment matched.
PlanStatus == {"none", "approved", "pending_approval", "blocked"}

RunRecord == [item : Items \cup {NoItem}, attempts : Nat, completed : Nat,
              failed : Nat, retryable : Nat,
              error : {"none", "fatal", "retryable"},
              verdict : {"none"} \cup TerminalExecution]

TypeOK ==
  /\ execution \in [Items -> ExecutionRow]
  /\ queue \in [Items -> QueueRow]
  /\ before \in [Items -> SUBSET Items]
  /\ plan \in [Items -> PlanStatus]
  /\ heartbeat \in [Workers -> HeartbeatRow]
  /\ pc \in [Workers -> Phases]
  /\ run \in [Workers -> RunRecord]
  /\ procLocks \in [Processes -> SUBSET Runtimes]
  /\ dbLock \in [Runtimes -> Workers \cup {NoWorker}]
  /\ cancelPc \in [Items -> {"none", "queue", "execution", "flag"}]
  /\ stopping \in [Processes -> BOOLEAN]
  /\ stops \in 0..MaxStops

Init ==
  /\ execution = [i \in Items |-> [status |-> "absent", cancel |-> FALSE]]
  /\ queue = [i \in Items |-> [status |-> "absent", attempts |-> 0,
                               claimedBy |-> NoWorker, aged |-> FALSE, due |-> FALSE]]
  /\ before = [i \in Items |-> {}]
  /\ plan = [i \in Items |-> "none"]
  /\ heartbeat = [w \in Workers |-> [item |-> NoItem, fresh |-> TRUE]]
  /\ pc = [w \in Workers |-> "idle"]
  /\ run = [w \in Workers |-> NoRun]
  /\ procLocks = [p \in Processes |-> {}]
  /\ dbLock = [r \in Runtimes |-> NoWorker]
  /\ cancelPc = [i \in Items |-> "none"]
  /\ stopping = [p \in Processes |-> FALSE]
  /\ stops = 0

-----------------------------------------------------------------------------
(* Shapes of a step of a worker coroutine.                                 *)

MyItem(w)    == run[w].item
MyRuntime(w) == RuntimeOf[run[w].item]

\* The event loop runs w only while every other coroutine of w's process awaits.
Turn(w) == \A v \in Workers \ {w} : ProcessOf[v] = ProcessOf[w] => pc[v] \in AwaitPoints

\* Coroutine w is at phase "from", has the event loop, and moves to "to".
Step(w, from, to) ==
  /\ pc[w] = from
  /\ Turn(w)
  /\ pc' = [pc EXCEPT ![w] = to]

\* A read or a decision: w only moves.
Move(w, from, to) ==
  /\ Step(w, from, to)
  /\ UNCHANGED <<dbVars, heartbeat, run, lockVars, cancelPc, procVars>>

\* w moves and its local variables become r.
Note(w, from, to, r) ==
  /\ Step(w, from, to)
  /\ run' = [run EXCEPT ![w] = r]
  /\ UNCHANGED <<dbVars, heartbeat, lockVars, cancelPc, procVars>>

\* update_by_id on the execution of w's item, whatever its status is.
WriteExecution(w, from, to, s) ==
  /\ Step(w, from, to)
  /\ execution' = [execution EXCEPT ![MyItem(w)].status = s]
  /\ UNCHANGED <<queue, before, plan, heartbeat, run, lockVars, cancelPc, procVars>>

\* The queue row with a new status; a retry also sets run_after in the future.
WithStatus(q, s) == [q EXCEPT !.status = s, !.due = @ /\ s # "retry_waiting"]

\* update_by_id on the queue item of w's run, whatever its status is.
WriteQueue(w, from, to, s) ==
  /\ Step(w, from, to)
  /\ queue' = [queue EXCEPT ![MyItem(w)] = WithStatus(@, s)]
  /\ UNCHANGED <<execution, before, plan, heartbeat, run, lockVars, cancelPc, procVars>>

\* w writes its heartbeat row, naming item i.
Beat(w, from, to, i) ==
  /\ Step(w, from, to)
  /\ heartbeat' = [heartbeat EXCEPT ![w] = [item |-> i, fresh |-> TRUE]]
  /\ UNCHANGED <<dbVars, lockVars, cancelPc, procVars>>

-----------------------------------------------------------------------------
(* Enqueue: two inserts in two transactions.                               *)

\* enqueue_campaign_execution inserts the execution ...
InsertExecution(i) ==
  /\ execution[i].status = "absent"
  /\ execution' = [execution EXCEPT ![i].status = "queued"]
  /\ UNCHANGED <<queue, before, plan, heartbeat, workerVars, lockVars, cancelPc, procVars>>

\* ... and then its queue item.
InsertQueueItem(i) ==
  /\ execution[i].status # "absent"
  /\ queue[i].status = "absent"
  /\ queue' = [queue EXCEPT ![i].status = "queued", ![i].due = TRUE]
  /\ before' = [before EXCEPT ![i] = {j \in Items : queue[j].status # "absent"}]
  /\ UNCHANGED <<execution, plan, heartbeat, workerVars, lockVars, cancelPc, procVars>>

-----------------------------------------------------------------------------
(* tick: poll, recover stale items, claim, heartbeat, run.                 *)

\* Mutant of Stale: recovery looks at the age of the claim only.
StaleByAge(w, i) == queue[i].status = "running" /\ queue[i].aged

\* Claimed long ago and no fresh heartbeat of the claimer names the item.  The
\* worker w that looks has just written a heartbeat that names no item.
Stale(w, i) ==
  /\ queue[i].status = "running"
  /\ queue[i].aged
  /\ ~ \E v \in Workers \ {w} : /\ v = queue[i].claimedBy
                                /\ heartbeat[v].item = i
                                /\ heartbeat[v].fresh

\* Mutant of Recovered: a lost item is retried however often it was tried.
RecoveredForever(i, again) == IF execution[i].cancel THEN "cancelled" ELSE again

\* A lost item is cancelled if that was asked for, else retried while attempts
\* remain, else failed: the new status of a row that calls retrying "again".
Recovered(i, again) ==
  IF execution[i].cancel THEN "cancelled"
  ELSE IF queue[i].attempts < MaxAttempts THEN again ELSE "failed"

\* Mutant of PollAndRecover: the worker polls without recovering anything.
PollOnly(w) ==
  /\ ~stopping[ProcessOf[w]]
  /\ Beat(w, "idle", "claim", NoItem)
  /\ UNCHANGED run

\* The "polling" heartbeat and fail_stale_queue_items: one transaction over
\* every stale item; an execution is updated only if it is still "running".
PollAndRecover(w) ==
  /\ ~stopping[ProcessOf[w]]
  /\ Step(w, "idle", "claim")
  /\ heartbeat' = [heartbeat EXCEPT ![w] = [item |-> NoItem, fresh |-> TRUE]]
  /\ queue' = [i \in Items |->
       IF Stale(w, i) THEN WithStatus(queue[i], Recovered(i, "retry_waiting")) ELSE queue[i]]
  /\ execution' = [i \in Items |->
       IF Stale(w, i) /\ execution[i].status = "running"
         THEN [execution[i] EXCEPT !.status = Recovered(i, "queued")]
         ELSE execution[i]]
  /\ UNCHANGED <<before, plan, run, lockVars, cancelPc, procVars>>

Waiting(i) == queue[i].status \in Claimable /\ queue[i].due

\* The values claim_queue_item sets, and the locals of the run that starts.
ClaimedRow(q, w) == [q EXCEPT !.status = "running", !.claimedBy = w, !.attempts = @ + 1, !.aged = FALSE]
FreshRun(i, n)   == [NoRun EXCEPT !.item = i, !.attempts = n]

\* claim_queue_item: the oldest waiting item, one transaction with SKIP LOCKED.
Claim(w, i) ==
  /\ Waiting(i)
  /\ \A j \in before[i] : ~Waiting(j)
  /\ Step(w, "claim", "claimed")
  /\ queue' = [queue EXCEPT ![i] = ClaimedRow(@, w)]
  /\ run' = [run EXCEPT ![w] = FreshRun(i, queue[i].attempts + 1)]
  /\ UNCHANGED <<execution, before, plan, heartbeat, lockVars, cancelPc, procVars>>

ClaimNothing(w) ==
  /\ \A i \in Items : ~Waiting(i)
  /\ Move(w, "claim", "idle")

HeartbeatRunning(w) ==
  /\ Beat(w, "claimed", "preflight", MyItem(w))
  /\ UNCHANGED run

-----------------------------------------------------------------------------
(* run_queue_item, up to the locks: from "preflight", or from "login" when *)
(* check_login was awaited because the account was not logged in.          *)

CheckLogin(w) == Move(w, "preflight", "login")

\* An exception is caught, and classified by _is_retryable_error.
WithError(r, e) == [r EXCEPT !.error = e]

\* LLM configuration, account, provider or keyword snapshot is missing.
PreflightFails(w) == \E from \in {"preflight", "login"} : Move(w, from, "fail_execution")

\* _preflight_runtime raises a fatal or a retryable error.
RuntimeUnavailable(w) ==
  \E from \in {"preflight", "login"}, e \in {"fatal", "retryable"} :
    Note(w, from, "error", WithError(run[w], e))

\* Mutant of LocksFree: only the process-local set is looked at.
LocksFreeHere(w) == MyRuntime(w) \notin procLocks[ProcessOf[w]]

\* The process-local set (looked at twice) and the advisory lock.
LocksFree(w) == dbLock[MyRuntime(w)] = NoWorker /\ MyRuntime(w) \notin procLocks[ProcessOf[w]]

RuntimeBusy(w) ==
  \E from \in {"preflight", "login"} : Move(w, from, "retry") /\ ~LocksFree(w)

AcquireLocks(w) ==
  /\ \E from \in {"preflight", "login"} : Step(w, from, "start")
  /\ LocksFree(w)
  /\ dbLock' = [dbLock EXCEPT ![MyRuntime(w)] = w]
  /\ procLocks' = [procLocks EXCEPT ![ProcessOf[w]] = @ \cup {MyRuntime(w)}]
  /\ UNCHANGED <<dbVars, heartbeat, run, cancelPc, procVars>>

-----------------------------------------------------------------------------
(* run_queue_item, with the locks held.                                    *)

StartRun(w) == WriteExecution(w, "start", "loop", "running")

Tried(w) == run[w].completed + run[w].failed

\* Head of the keyword loop: leave it when done or cancelled.
LoopStep(w) ==
  Move(w, "loop", IF Tried(w) = Keywords \/ execution[MyItem(w)].cancel
                    THEN "outcome" ELSE "provider")

\* A keyword completes, fails, or fails with a retryable error.
KeywordResults(r) ==
  {[r EXCEPT !.completed = @ + 1],
   [r EXCEPT !.failed = @ + 1],
   [r EXCEPT !.failed = @ + 1, !.retryable = @ + 1]}

\* The awaited provider.run_campaign returns or raises; results are persisted.
ProviderReturns(w) ==
  \E r \in KeywordResults(run[w]) : Note(w, "provider", "loop", r)

AllRetryable(w) ==
  run[w].completed = 0 /\ run[w].failed = Keywords /\ run[w].retryable = run[w].failed

Verdict(w) ==
  IF execution[MyItem(w)].cancel THEN "cancelled"
  ELSE IF run[w].completed = Keywords THEN "completed"
  ELSE IF run[w].completed > 0 THEN "partial" ELSE "failed"

WithVerdict(r, v) == [r EXCEPT !.verdict = v]

\* Retry when every keyword failed retryably, else read the row and decide.
Outcome(w) ==
  IF AllRetryable(w)
    THEN Move(w, "outcome", "retry")
    ELSE Note(w, "outcome", "final", WithVerdict(run[w], Verdict(w)))

\* _update_execution_aggregate with the final status.
WriteFinal(w) == WriteExecution(w, "final", "post", run[w].verdict)

\* The report is written and uploaded, the reply plan generated; an approved
\* plan of an automatic campaign is sent at once.
PostRun(w) ==
  IF run[w].verdict \in {"completed", "partial"} /\ MyItem(w) \in AutoReply
    THEN \E s \in PlanStatus \ {"none"} :
           /\ Step(w, "post", IF s = "approved" THEN "auto_send" ELSE "finish_queue")
           /\ plan' = [plan EXCEPT ![MyItem(w)] = s]
           /\ UNCHANGED <<execution, queue, before, heartbeat, run, lockVars, cancelPc, procVars>>
    ELSE Move(w, "post", "finish_queue")

\* The upload (or the planning) raises: the outer except clause takes over.
PostRunRaises(w) ==
  /\ "post_run" \in Faults
  /\ \E e \in {"fatal", "retryable"} : Note(w, "post", "error", WithError(run[w], e))

\* execute_reply_plan refuses the worker's role, so the except clause takes over.
AutoSend(w) == Note(w, "auto_send", "error", WithError(run[w], "fatal"))

\* Mutants of FinishQueue: the status is not translated; it is not looked at.
FinishQueueCopied(w) == WriteQueue(w, "finish_queue", "release", run[w].verdict)
FinishQueueAlways(w) == WriteQueue(w, "finish_queue", "release", "completed")

\* The queue item is closed; its statuses know no "partial".
FinishQueue(w) ==
  WriteQueue(w, "finish_queue", "release",
             IF run[w].verdict = "partial" THEN "completed" ELSE run[w].verdict)

-----------------------------------------------------------------------------
(* The shared tails.                                                       *)

\* _finish_queue_error: cancelled, retried or failed.
FinishError(w) ==
  Move(w, "error", IF execution[MyItem(w)].cancel THEN "cancel_execution"
                   ELSE IF run[w].error = "retryable" THEN "retry" ELSE "fail_execution")

\* Mutant of RetryDecision: one attempt too many.
RetryDecisionLate(w) ==
  Move(w, "retry", IF execution[MyItem(w)].cancel THEN "cancel_execution"
                   ELSE IF run[w].attempts > MaxAttempts THEN "fail_execution"
                   ELSE "retry_execution")

\* Mutant of RetryDecision: the execution row is not set back to "queued".
RetryDecisionQueueOnly(w) ==
  Move(w, "retry", IF execution[MyItem(w)].cancel THEN "cancel_execution"
                   ELSE IF run[w].attempts >= MaxAttempts THEN "fail_execution"
                   ELSE "retry_queue")

\* _retry_queue_item reads cancel_requested and the attempt count of the claim.
RetryDecision(w) ==
  Move(w, "retry", IF execution[MyItem(w)].cancel THEN "cancel_execution"
                   ELSE IF run[w].attempts >= MaxAttempts THEN "fail_execution"
                   ELSE "retry_execution")

\* Mutant of CancelExecution: only the queue item is closed.
CancelExecutionSkipped(w) == Move(w, "cancel_execution", "cancel_queue")

\* Each tail writes the execution row first and the queue row second.
RetryExecution(w)  == WriteExecution(w, "retry_execution", "retry_queue", "queued")
RetryQueue(w)      == WriteQueue(w, "retry_queue", "release", "retry_waiting")
FailExecution(w)   == WriteExecution(w, "fail_execution", "fail_queue", "failed")
FailQueue(w)       == WriteQueue(w, "fail_queue", "release", "failed")
CancelExecution(w) == WriteExecution(w, "cancel_execution", "cancel_queue", "cancelled")
CancelQueue(w)     == WriteQueue(w, "cancel_queue", "release", "cancelled")

\* Mutant of Release: the finally block also covers runs that found the
\* runtime busy, and gives back a lock another run holds.
ReleaseAlways(w) ==
  /\ Step(w, "release", "ended")
  /\ procLocks' = [procLocks EXCEPT ![ProcessOf[w]] = @ \ {MyRuntime(w)}]
  /\ dbLock' = [dbLock EXCEPT ![MyRuntime(w)] = NoWorker]
  /\ UNCHANGED <<dbVars, heartbeat, run, cancelPc, procVars>>

\* Mutant of Release: the process-local set keeps the runtime.
ReleaseDatabaseOnly(w) ==
  /\ Step(w, "release", "ended")
  /\ dbLock' = [r \in Runtimes |-> IF dbLock[r] = w THEN NoWorker ELSE dbLock[r]]
  /\ UNCHANGED <<dbVars, heartbeat, run, procLocks, cancelPc, procVars>>

\* The finally block of run_queue_item; a run that ended before the locks
\* were taken has nothing to give back.
Release(w) ==
  /\ Step(w, "release", "ended")
  /\ IF dbLock[MyRuntime(w)] = w
       THEN /\ procLocks' = [procLocks EXCEPT ![ProcessOf[w]] = @ \ {MyRuntime(w)}]
            /\ dbLock' = [dbLock EXCEPT ![MyRuntime(w)] = NoWorker]
       ELSE UNCHANGED lockVars
  /\ UNCHANGED <<dbVars, heartbeat, run, cancelPc, procVars>>

\* The finally block of tick, after the heartbeat task has been joined.
HeartbeatOnline(w) ==
  /\ Beat(w, "ended", "idle", NoItem)
  /\ run' = [run EXCEPT ![w] = NoRun]

-----------------------------------------------------------------------------
(* Time: heartbeats are refreshed at awaits, and expire; claims get old.   *)

\* _heartbeat_during_run wakes up while the run awaits.
HeartbeatDuringRun(w) ==
  /\ pc[w] \in {"login", "provider"}
  /\ Turn(w)
  /\ ~heartbeat[w].fresh
  /\ heartbeat' = [heartbeat EXCEPT ![w].fresh = TRUE]
  /\ UNCHANGED <<dbVars, workerVars, lockVars, cancelPc, procVars>>

\* last_seen_at falls behind heartbeat_stale_before.
HeartbeatExpires(w) ==
  /\ heartbeat[w].item # NoItem
  /\ heartbeat[w].fresh
  /\ pc[w] = "down" \/ "late_heartbeat" \in Faults
  /\ heartbeat' = [heartbeat EXCEPT ![w].fresh = FALSE]
  /\ UNCHANGED <<dbVars, workerVars, lockVars, cancelPc, procVars>>

\* run_after of a retried item passes.
RetryDelayElapses(i) ==
  /\ queue[i].status = "retry_waiting"
  /\ ~queue[i].due
  /\ queue' = [queue EXCEPT ![i].due = TRUE]
  /\ UNCHANGED <<execution, before, plan, heartbeat, workerVars, lockVars, cancelPc, procVars>>

\* started_at falls behind stale_before (six hours by default); the first
\* heartbeat of a live worker follows its claim at once.
ClaimAges(i) ==
  /\ queue[i].status = "running"
  /\ ~queue[i].aged
  /\ ~ \E w \in Workers : pc[w] = "claimed" /\ run[w].item = i
  /\ queue' = [queue EXCEPT ![i].aged = TRUE]
  /\ UNCHANGED <<execution, before, plan, heartbeat, workerVars, lockVars, cancelPc, procVars>>

-----------------------------------------------------------------------------
(* Worker processes stop and are restarted.                                *)

\* A process dies with all its coroutines; its connections drop their locks.
Crash(p) ==
  LET dead == {w \in Workers : ProcessOf[w] = p}
  IN  /\ "crash" \in Faults
      /\ stops < MaxStops
      /\ \E w \in dead : pc[w] # "down"
      /\ stops' = stops + 1
      /\ stopping' = [stopping EXCEPT ![p] = FALSE]
      /\ pc' = [w \in Workers |-> IF w \in dead THEN "down" ELSE pc[w]]
      /\ run' = [w \in Workers |-> IF w \in dead THEN NoRun ELSE run[w]]
      /\ procLocks' = [procLocks EXCEPT ![p] = {}]
      /\ dbLock' = [r \in Runtimes |-> IF dbLock[r] \in dead THEN NoWorker ELSE dbLock[r]]
      /\ UNCHANGED <<dbVars, heartbeat, cancelPc>>

\* SIGTERM sets the stop event shared by the coroutines of a process ...
Terminate(p) ==
  /\ stops < MaxStops
  /\ ~stopping[p]
  /\ \E w \in Workers : ProcessOf[w] = p /\ pc[w] # "down"
  /\ stopping' = [stopping EXCEPT ![p] = TRUE]
  /\ stops' = stops + 1
  /\ UNCHANGED <<dbVars, heartbeat, workerVars, lockVars, cancelPc>>

\* ... and run_forever leaves its loop when it sees it between two ticks.
StopWorker(w) ==
  /\ stopping[ProcessOf[w]]
  /\ Beat(w, "idle", "down", NoItem)
  /\ UNCHANGED run

\* The container is restarted once the whole process is gone.
Restart(p) ==
  /\ \E w \in Workers : ProcessOf[w] = p
  /\ \A w \in Workers : ProcessOf[w] = p => pc[w] = "down"
  /\ pc' = [w \in Workers |-> IF ProcessOf[w] = p THEN "idle" ELSE pc[w]]
  /\ stopping' = [stopping EXCEPT ![p] = FALSE]
  /\ UNCHANGED <<dbVars, heartbeat, run, lockVars, cancelPc, stops>>

-----------------------------------------------------------------------------
(* cancel_execution, run by the API process: it reads both rows and then   *)
(* writes what the status it read calls for.                               *)

CancelRead(i) ==
  /\ i \in Cancellable
  /\ cancelPc[i] = "none"
  /\ execution[i].status \in {"queued", "running"}
  /\ cancelPc' = [cancelPc EXCEPT ![i] =
       IF execution[i].status = "running" THEN "flag"
       ELSE IF queue[i].status # "absent" THEN "queue" ELSE "execution"]
  /\ UNCHANGED <<dbVars, heartbeat, workerVars, lockVars, procVars>>

CancelWriteQueue(i) ==
  /\ cancelPc[i] = "queue"
  /\ queue' = [queue EXCEPT ![i].status = "cancelled"]
  /\ cancelPc' = [cancelPc EXCEPT ![i] = "execution"]
  /\ UNCHANGED <<execution, before, plan, heartbeat, workerVars, lockVars, procVars>>

CancelWriteExecution(i) ==
  /\ cancelPc[i] = "execution"
  /\ execution' = [execution EXCEPT ![i].status = "cancelled"]
  /\ cancelPc' = [cancelPc EXCEPT ![i] = "none"]
  /\ UNCHANGED <<queue, before, plan, heartbeat, workerVars, lockVars, procVars>>

CancelWriteFlag(i) ==
  /\ cancelPc[i] = "flag"
  /\ execution' = [execution EXCEPT ![i].cancel = TRUE]
  /\ cancelPc' = [cancelPc EXCEPT ![i] = "none"]
  /\ UNCHANGED <<queue, before, plan, heartbeat, workerVars, lockVars, procVars>>

\* The API process dies between two writes of a cancel request.
CancelLost(i) ==
  /\ "api_crash" \in Faults
  /\ cancelPc[i] # "none"
  /\ cancelPc' = [cancelPc EXCEPT ![i] = "none"]
  /\ UNCHANGED <<dbVars, heartbeat, workerVars, lockVars, procVars>>

-----------------------------------------------------------------------------
\* One step of the coroutine w.
WorkerStep(w) ==
  \/ PollAndRecover(w) \/ (\E i \in Items : Claim(w, i)) \/ ClaimNothing(w) \/ HeartbeatRunning(w)
  \/ CheckLogin(w) \/ PreflightFails(w) \/ RuntimeUnavailable(w) \/ RuntimeBusy(w) \/ AcquireLocks(w)
  \/ StartRun(w) \/ LoopStep(w) \/ ProviderReturns(w) \/ Outcome(w)
  \/ WriteFinal(w) \/ PostRun(w) \/ PostRunRaises(w) \/ AutoSend(w) \/ FinishQueue(w)
  \/ FinishError(w) \/ RetryDecision(w) \/ RetryExecution(w) \/ RetryQueue(w)
  \/ FailExecution(w) \/ FailQueue(w) \/ CancelExecution(w) \/ CancelQueue(w)
  \/ Release(w) \/ HeartbeatOnline(w) \/ StopWorker(w)

\* One step of a user's or the scheduler's request on item i.
RequestStep(i) ==
  \/ InsertExecution(i) \/ InsertQueueItem(i)
  \/ CancelRead(i) \/ CancelWriteQueue(i) \/ CancelWriteExecution(i) \/ CancelWriteFlag(i)
  \/ CancelLost(i)

Next ==
  \/ \E w \in Workers : WorkerStep(w) \/ HeartbeatDuringRun(w) \/ HeartbeatExpires(w)
  \/ \E i \in Items : RequestStep(i) \/ RetryDelayElapses(i) \/ ClaimAges(i)
  \/ \E p \in Processes : Crash(p) \/ Terminate(p) \/ Restart(p)

Spec == Init /\ [][Next]_vars

\* Coroutines run (strongly fair: the event loop serves its ready coroutines in
\* turn, and awaited calls return), containers restart, time passes, and the
\* writes of a request are carried out; nobody has to enqueue, cancel or stop.
Fairness ==
  /\ \A w \in Workers : SF_vars(WorkerStep(w)) /\ WF_vars(pc[w] = "down" /\ HeartbeatExpires(w))
  /\ \A p \in Processes : WF_vars(Restart(p))
  /\ \A i \in Items : /\ WF_vars(RetryDelayElapses(i)) /\ WF_vars(ClaimAges(i))
                      /\ WF_vars(CancelWriteQueue(i) \/ CancelWriteExecution(i) \/ CancelWriteFlag(i))

FairSpec == Spec /\ Fairness

=============================================================================
