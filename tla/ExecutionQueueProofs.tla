------------------------ MODULE ExecutionQueueProofs ------------------------
(***************************************************************************)
(* Proofs about the execution queue for all values of the constants.       *)
(* Five inductive invariants are built on each other: TypeInv (rows and    *)
(* locals have their types), LockInv (who drives a browser holds its       *)
(* lock), ClaimInv (who runs an item holds its claim), TableInv and        *)
(* AgreeInv (the two tables agree).  The first two need nothing; ClaimInv  *)
(* needs the heartbeats of live workers to be timely.                      *)
(***************************************************************************)
EXTENDS ExecutionQueueProps, TLAPS

\* Phases in which a coroutine has no item, and in which its verdict is set.
Itemless == {"down", "idle", "claim"}
Decided  == {"final", "post", "auto_send", "finish_queue"}

\* A coroutine that works on an item has one; one that writes a verdict has one.
LocalsSet ==
  \A w \in Workers :
    /\ pc[w] \notin Itemless => run[w].item \in Items
    /\ pc[w] \in Decided => run[w].verdict \in TerminalExecution

TypeInv == TypeOK /\ LocalsSet

\* Changing one field of a row to a value of its domain gives a row.
LEMMA RowUpdate ==
  /\ \A e \in ExecutionRow : \A s \in ExecutionStatus : [e EXCEPT !.status = s] \in ExecutionRow
  /\ \A e \in ExecutionRow : [e EXCEPT !.cancel = TRUE] \in ExecutionRow
  /\ \A q \in QueueRow : [q EXCEPT !.status = "queued", !.due = TRUE] \in QueueRow
  /\ \A q \in QueueRow : \A s \in QueueStatus : [q EXCEPT !.status = s] \in QueueRow
  /\ \A q \in QueueRow : \A d \in BOOLEAN : [q EXCEPT !.due = d] \in QueueRow
  /\ \A q \in QueueRow : \A d \in BOOLEAN : [q EXCEPT !.aged = d] \in QueueRow
  /\ \A b \in HeartbeatRow : \A d \in BOOLEAN : [b EXCEPT !.fresh = d] \in HeartbeatRow
<1>1. "queued" \in QueueStatus
  BY DEF QueueStatus, Claimable
<1>2. QED
  BY <1>1 DEF ExecutionRow, QueueRow, HeartbeatRow

\* WithStatus changes the status (and the delay) of a queue row and nothing else.
LEMMA WithStatusType ==
  ASSUME NEW q \in QueueRow, NEW s \in QueueStatus
  PROVE  /\ WithStatus(q, s) \in QueueRow
         /\ WithStatus(q, s).status = s
         /\ WithStatus(q, s).attempts = q.attempts
         /\ WithStatus(q, s).claimedBy = q.claimedBy
         /\ WithStatus(q, s).aged = q.aged
<1>1. (q.due /\ s # "retry_waiting") \in BOOLEAN
  OBVIOUS
<1>2. QED
  BY <1>1 DEF QueueRow, WithStatus

\* ClaimedRow gives the row to the claiming worker and counts the attempt.
LEMMA ClaimedRowType ==
  ASSUME NEW q \in QueueRow, NEW w \in Workers
  PROVE  /\ ClaimedRow(q, w) \in QueueRow
         /\ ClaimedRow(q, w).status = "running"
         /\ ClaimedRow(q, w).claimedBy = w
         /\ ClaimedRow(q, w).attempts = q.attempts + 1
         /\ ClaimedRow(q, w).aged = FALSE
<1>1. "running" \in QueueStatus /\ q.attempts + 1 \in Nat
  BY DEF QueueStatus, QueueRow
<1>2. QED
  BY <1>1 DEF QueueRow, ClaimedRow

\* A claim starts with the locals of the claimed item.
LEMMA FreshRunType ==
  ASSUME NEW i \in Items, NEW n \in Nat
  PROVE  FreshRun(i, n) \in RunRecord /\ FreshRun(i, n).item = i /\ FreshRun(i, n).attempts = n
  BY DEF FreshRun, NoRun, RunRecord

\* Noting a caught error keeps the item and the verdict of a run.
LEMMA WithErrorType ==
  ASSUME NEW r \in RunRecord, NEW e \in {"none", "fatal", "retryable"}
  PROVE  /\ WithError(r, e) \in RunRecord
         /\ WithError(r, e).item = r.item
         /\ WithError(r, e).attempts = r.attempts
  BY DEF RunRecord, WithError

\* Noting the verdict keeps the item of a run.
LEMMA WithVerdictType ==
  ASSUME NEW r \in RunRecord, NEW v \in TerminalExecution
  PROVE  /\ WithVerdict(r, v) \in RunRecord
         /\ WithVerdict(r, v).item = r.item
         /\ WithVerdict(r, v).attempts = r.attempts
         /\ WithVerdict(r, v).verdict = v
  BY DEF RunRecord, WithVerdict

\* Counting the result of a keyword keeps the item and the verdict of a run.
LEMMA KeywordResultsType ==
  ASSUME NEW r \in RunRecord, NEW s \in KeywordResults(r)
  PROVE  s \in RunRecord /\ s.item = r.item /\ s.attempts = r.attempts
<1>1. /\ r.item \in Items \cup {NoItem} /\ r.attempts \in Nat
      /\ r.completed + 1 \in Nat /\ r.failed + 1 \in Nat /\ r.retryable + 1 \in Nat
  BY DEF RunRecord
<1>2. CASE s = [r EXCEPT !.completed = @ + 1]
  BY <1>1, <1>2 DEF RunRecord
<1>3. CASE s = [r EXCEPT !.failed = @ + 1]
  BY <1>1, <1>3 DEF RunRecord
<1>4. CASE s = [r EXCEPT !.failed = @ + 1, !.retryable = @ + 1]
  BY <1>1, <1>4 DEF RunRecord
<1>5. QED
  BY <1>2, <1>3, <1>4 DEF KeywordResults

\* An idle coroutine has a record of locals too.
LEMMA NoRunType == NoRun \in RunRecord
  BY DEF RunRecord, NoRun

\* The initial rows, locals and locks have their types.
LEMMA InitType == Init => TypeInv
  BY NoRunType, StopsAssumption DEF Init, TypeInv, TypeOK, PlanStatus, LocalsSet, Itemless, Decided, Phases, ExecutionStatus,
     QueueStatus, ExecutionRow, QueueRow, HeartbeatRow

\* The shapes of worker steps, one lemma each, preserve the types.
LEMMA MoveType ==
  ASSUME TypeInv, NEW w \in Workers, NEW from, NEW to \in Phases, Move(w, from, to),
         from \in Itemless => to \in Itemless,
         to \in Decided => from \in Decided
  PROVE  TypeInv'
  BY DEF Move, Step, TypeInv, TypeOK, LocalsSet, dbVars, lockVars, procVars

\* A step that changes only the locals preserves the types.
LEMMA NoteType ==
  ASSUME TypeInv, NEW w \in Workers, NEW from, NEW to \in Phases, NEW r \in RunRecord,
         Note(w, from, to, r), r.item \in Items,
         to \in Decided => r.verdict \in TerminalExecution
  PROVE  TypeInv'
  BY DEF Note, Step, TypeInv, TypeOK, LocalsSet, dbVars, lockVars, procVars

\* A step that writes the execution row of a run preserves the types.
LEMMA WriteExecutionType ==
  ASSUME TypeInv, NEW w \in Workers, NEW from, NEW to \in Phases, NEW s \in ExecutionStatus,
         WriteExecution(w, from, to, s), from \notin Itemless,
         to \in Decided => from \in Decided
  PROVE  TypeInv'
<1>1. execution' \in [Items -> ExecutionRow]
  BY RowUpdate DEF WriteExecution, TypeInv, TypeOK, LocalsSet, MyItem, Step
<1>2. QED
  BY <1>1 DEF WriteExecution, Step, TypeInv, TypeOK, LocalsSet, lockVars, procVars

\* A step that writes the queue row of a run preserves the types.
LEMMA WriteQueueType ==
  ASSUME TypeInv, NEW w \in Workers, NEW from, NEW to \in Phases, NEW s \in QueueStatus,
         WriteQueue(w, from, to, s), from \notin Itemless,
         to \in Decided => from \in Decided
  PROVE  TypeInv'
<1>1. MyItem(w) \in Items
  BY DEF WriteQueue, TypeInv, TypeOK, LocalsSet, MyItem, Step
<1>2. queue' \in [Items -> QueueRow]
  BY <1>1, WithStatusType DEF WriteQueue, TypeInv, TypeOK
<1>3. QED
  BY <1>2 DEF WriteQueue, Step, TypeInv, TypeOK, LocalsSet, lockVars, procVars

\* A step that writes a heartbeat preserves the types.
LEMMA BeatType ==
  ASSUME TypeInv, NEW w \in Workers, NEW from, NEW to \in Phases, NEW i \in Items \cup {NoItem},
         Beat(w, from, to, i), run' = run, from \in Itemless => to \in Itemless, to \notin Decided
  PROVE  TypeInv'
  BY DEF Beat, Step, TypeInv, TypeOK, LocalsSet, HeartbeatRow, dbVars, lockVars, procVars

\* Every step of a worker coroutine preserves the types.
LEMMA WorkerType ==
  ASSUME TypeInv, NEW w \in Workers, WorkerStep(w)
  PROVE  TypeInv'
<1> USE DEF Itemless, Decided, Phases, Driving, Tails
<1>1. CASE PollAndRecover(w)
  <2>1. \A i \in Items : Recovered(i, "retry_waiting") \in QueueStatus /\ Recovered(i, "queued") \in ExecutionStatus
    BY DEF Recovered, QueueStatus, ExecutionStatus, Claimable, TerminalExecution, TerminalQueue
  <2>2. queue' \in [Items -> QueueRow]
    BY <1>1, <2>1, WithStatusType DEF PollAndRecover, TypeInv, TypeOK
  <2>3. execution' \in [Items -> ExecutionRow]
    BY <1>1, <2>1, RowUpdate DEF PollAndRecover, TypeInv, TypeOK
  <2>4. heartbeat' \in [Workers -> HeartbeatRow]
    BY <1>1 DEF PollAndRecover, TypeInv, TypeOK, HeartbeatRow
  <2>5. QED
    BY <1>1, <2>2, <2>3, <2>4 DEF PollAndRecover, Step, TypeInv, TypeOK, LocalsSet, lockVars, procVars
<1>2. CASE \E i \in Items : Claim(w, i)
  <2> PICK i \in Items : Claim(w, i)
    BY <1>2
  <2>1. queue[i] \in QueueRow /\ queue[i].attempts \in Nat
    BY DEF TypeInv, TypeOK, QueueRow
  <2>2. queue' \in [Items -> QueueRow]
    BY <2>1, ClaimedRowType DEF Claim, TypeInv, TypeOK
  <2>3. run' \in [Workers -> RunRecord] /\ run'[w].item = i
    BY <2>1, FreshRunType DEF Claim, TypeInv, TypeOK
  <2>4. QED
    BY <2>2, <2>3 DEF Claim, Step, TypeInv, TypeOK, LocalsSet, lockVars, procVars
<1>3. CASE ClaimNothing(w)
  BY <1>3, MoveType DEF ClaimNothing
<1>4. CASE HeartbeatRunning(w)
  <2>1. MyItem(w) \in Items
    BY <1>4 DEF HeartbeatRunning, Beat, Step, TypeInv, LocalsSet, MyItem
  <2>2. QED
    BY <1>4, <2>1, BeatType DEF HeartbeatRunning
<1>5. CASE CheckLogin(w)
  BY <1>5, MoveType DEF CheckLogin
<1>6. CASE PreflightFails(w)
  BY <1>6, MoveType DEF PreflightFails
<1>7. CASE RuntimeUnavailable(w)
  <2> PICK from \in {"preflight", "login"}, e \in {"fatal", "retryable"} :
             Note(w, from, "error", WithError(run[w], e))
    BY <1>7 DEF RuntimeUnavailable
  <2>1. WithError(run[w], e) \in RunRecord /\ WithError(run[w], e).item \in Items
    BY WithErrorType DEF Note, Step, TypeInv, TypeOK, LocalsSet
  <2>2. QED
    BY <2>1, NoteType
<1>8. CASE RuntimeBusy(w)
  BY <1>8, MoveType DEF RuntimeBusy
<1>9. CASE AcquireLocks(w)
  <2>1. MyRuntime(w) \in Runtimes
    BY <1>9, RuntimeAssumption DEF AcquireLocks, Step, TypeInv, LocalsSet, MyRuntime
  <2>2. QED
    BY <1>9, <2>1 DEF AcquireLocks, Step, TypeInv, TypeOK, LocalsSet, dbVars, procVars
<1>10. CASE StartRun(w)
  BY <1>10, WriteExecutionType DEF StartRun, ExecutionStatus
<1>11. CASE LoopStep(w)
  BY <1>11, MoveType DEF LoopStep
<1>12. CASE ProviderReturns(w)
  <2> PICK r \in KeywordResults(run[w]) : Note(w, "provider", "loop", r)
    BY <1>12 DEF ProviderReturns
  <2>1. run[w] \in RunRecord /\ run[w].item \in Items
    BY DEF Note, Step, TypeInv, TypeOK, LocalsSet
  <2>2. r \in RunRecord /\ r.item \in Items
    BY <2>1, KeywordResultsType
  <2>3. QED
    BY <2>2, NoteType
<1>13. CASE Outcome(w)
  <2>1. CASE AllRetryable(w)
    BY <1>13, <2>1, MoveType DEF Outcome
  <2>2. CASE ~AllRetryable(w)
    <3>1. Verdict(w) \in TerminalExecution
      BY DEF Verdict, TerminalExecution
    <3> DEFINE r == WithVerdict(run[w], Verdict(w))
    <3>2. r \in RunRecord /\ r.item \in Items /\ r.verdict \in TerminalExecution
      BY <1>13, <2>2, <3>1, WithVerdictType DEF Outcome, Note, Step, TypeInv, TypeOK, LocalsSet
    <3>3. QED
      BY <1>13, <2>2, <3>2, NoteType DEF Outcome
  <2>3. QED
    BY <2>1, <2>2
<1>14. CASE WriteFinal(w)
  <2>1. run[w].verdict \in ExecutionStatus
    BY <1>14 DEF WriteFinal, WriteExecution, Step, TypeInv, LocalsSet, ExecutionStatus
  <2>2. QED
    BY <1>14, <2>1, WriteExecutionType DEF WriteFinal
<1>15. CASE PostRun(w)
  <2>1. CASE run[w].verdict \in {"completed", "partial"} /\ MyItem(w) \in AutoReply
    BY <1>15, <2>1 DEF PostRun, Step, TypeInv, TypeOK, LocalsSet, lockVars, procVars
  <2>2. CASE ~(run[w].verdict \in {"completed", "partial"} /\ MyItem(w) \in AutoReply)
    BY <1>15, <2>2, MoveType DEF PostRun
  <2>3. QED
    BY <2>1, <2>2
<1>16. CASE PostRunRaises(w)
  <2> PICK e \in {"fatal", "retryable"} : Note(w, "post", "error", WithError(run[w], e))
    BY <1>16 DEF PostRunRaises
  <2>1. WithError(run[w], e) \in RunRecord /\ WithError(run[w], e).item \in Items
    BY WithErrorType DEF Note, Step, TypeInv, TypeOK, LocalsSet
  <2>2. QED
    BY <2>1, NoteType
<1>17. CASE AutoSend(w)
  <2>1. WithError(run[w], "fatal") \in RunRecord /\ WithError(run[w], "fatal").item \in Items
    BY <1>17, WithErrorType DEF AutoSend, Note, Step, TypeInv, TypeOK, LocalsSet
  <2>2. QED
    BY <1>17, <2>1, NoteType DEF AutoSend
<1>18. CASE FinishQueue(w)
  <2> DEFINE s == IF run[w].verdict = "partial" THEN "completed" ELSE run[w].verdict
  <2>1. s \in QueueStatus
    BY <1>18 DEF FinishQueue, WriteQueue, Step, TypeInv, LocalsSet, TerminalExecution, QueueStatus, TerminalQueue
  <2>2. WriteQueue(w, "finish_queue", "release", s)
    BY <1>18 DEF FinishQueue
  <2> HIDE DEF s
  <2>3. QED
    BY <2>1, <2>2, WriteQueueType
<1>19. CASE FinishError(w)
  BY <1>19, MoveType DEF FinishError
<1>20. CASE RetryDecision(w)
  BY <1>20, MoveType DEF RetryDecision
<1>21. CASE RetryExecution(w)
  BY <1>21, WriteExecutionType DEF RetryExecution, ExecutionStatus
<1>22. CASE RetryQueue(w)
  BY <1>22, WriteQueueType DEF RetryQueue, QueueStatus, Claimable
<1>23. CASE FailExecution(w)
  BY <1>23, WriteExecutionType DEF FailExecution, ExecutionStatus, TerminalExecution
<1>24. CASE FailQueue(w)
  BY <1>24, WriteQueueType DEF FailQueue, QueueStatus, TerminalQueue
<1>25. CASE CancelExecution(w)
  BY <1>25, WriteExecutionType DEF CancelExecution, ExecutionStatus, TerminalExecution
<1>26. CASE CancelQueue(w)
  BY <1>26, WriteQueueType DEF CancelQueue, QueueStatus, TerminalQueue
<1>27. CASE Release(w)
  <2>1. MyRuntime(w) \in Runtimes
    BY <1>27, RuntimeAssumption DEF Release, Step, TypeInv, LocalsSet, MyRuntime
  <2>2. QED
    BY <1>27, <2>1 DEF Release, Step, TypeInv, TypeOK, LocalsSet, dbVars, lockVars, procVars
<1>28. CASE HeartbeatOnline(w)
  BY <1>28, NoRunType DEF HeartbeatOnline, Beat, Step, TypeInv, TypeOK, LocalsSet, HeartbeatRow,
       dbVars, lockVars, procVars
<1>29. CASE StopWorker(w)
  BY <1>29, BeatType DEF StopWorker
<1>30. QED
  BY <1>1, <1>2, <1>3, <1>4, <1>5, <1>6, <1>7, <1>8, <1>9, <1>10, <1>11, <1>12, <1>13, <1>14, <1>15,
     <1>16, <1>17, <1>18, <1>19, <1>20, <1>21, <1>22, <1>23, <1>24, <1>25, <1>26, <1>27, <1>28, <1>29
     DEF WorkerStep

\* Steps of requests, of time and of processes.
EnvironmentStep ==
  \/ \E w \in Workers : HeartbeatDuringRun(w) \/ HeartbeatExpires(w)
  \/ \E i \in Items : RequestStep(i) \/ RetryDelayElapses(i) \/ ClaimAges(i)
  \/ \E p \in Processes : Crash(p) \/ Terminate(p) \/ Restart(p)

\* A step is one of a worker coroutine or one of its environment.
LEMMA NextSplit == Next <=> (\E w \in Workers : WorkerStep(w)) \/ EnvironmentStep
  BY DEF Next, EnvironmentStep

\* Enqueue and cancel steps preserve the types.
LEMMA RequestType ==
  ASSUME TypeInv, NEW i \in Items, RequestStep(i)
  PROVE  TypeInv'
<1> USE DEF TypeInv, TypeOK, LocalsSet, dbVars, workerVars, lockVars, procVars
<1>1. CASE InsertExecution(i)
  <2>1. execution' \in [Items -> ExecutionRow]
    BY <1>1, RowUpdate DEF InsertExecution, ExecutionStatus
  <2>2. QED
    BY <1>1, <2>1 DEF InsertExecution
<1>2. CASE InsertQueueItem(i)
  <2>1. queue[i] \in QueueRow
    OBVIOUS
  <2>2. queue' = [queue EXCEPT ![i] = [queue[i] EXCEPT !.status = "queued", !.due = TRUE]]
    BY <1>2 DEF InsertQueueItem
  <2>3. queue' \in [Items -> QueueRow]
    BY <2>1, <2>2, RowUpdate DEF QueueStatus, Claimable
  <2>4. before' \in [Items -> SUBSET Items]
    BY <1>2 DEF InsertQueueItem
  <2>5. QED
    BY <1>2, <2>3, <2>4 DEF InsertQueueItem
<1>3. CASE CancelRead(i)
  BY <1>3 DEF CancelRead
<1>4. CASE CancelWriteQueue(i)
  <2>1. queue' \in [Items -> QueueRow]
    BY <1>4, RowUpdate DEF CancelWriteQueue, QueueStatus, TerminalQueue
  <2>2. QED
    BY <1>4, <2>1 DEF CancelWriteQueue
<1>5. CASE CancelWriteExecution(i)
  <2>1. execution' \in [Items -> ExecutionRow]
    BY <1>5, RowUpdate DEF CancelWriteExecution, ExecutionStatus, TerminalExecution
  <2>2. QED
    BY <1>5, <2>1 DEF CancelWriteExecution
<1>6. CASE CancelWriteFlag(i)
  <2>1. execution' \in [Items -> ExecutionRow]
    BY <1>6, RowUpdate DEF CancelWriteFlag
  <2>2. QED
    BY <1>6, <2>1 DEF CancelWriteFlag
<1>7. CASE CancelLost(i)
  BY <1>7 DEF CancelLost
<1>8. QED
  BY <1>1, <1>2, <1>3, <1>4, <1>5, <1>6, <1>7 DEF RequestStep

\* Steps of requests, of time and of processes preserve the types.
LEMMA EnvironmentType ==
  ASSUME TypeInv, EnvironmentStep
  PROVE  TypeInv'
<1> USE DEF TypeInv, TypeOK, LocalsSet, dbVars, workerVars, lockVars, procVars
<1>1. ASSUME NEW w \in Workers, HeartbeatDuringRun(w) \/ HeartbeatExpires(w) PROVE TypeInv'
  <2>1. ASSUME NEW b \in BOOLEAN, heartbeat' = [heartbeat EXCEPT ![w].fresh = b]
        PROVE  heartbeat' \in [Workers -> HeartbeatRow]
    BY <2>1, RowUpdate
  <2>2. CASE HeartbeatDuringRun(w)
    BY <2>1, <2>2 DEF HeartbeatDuringRun
  <2>3. CASE HeartbeatExpires(w)
    BY <2>1, <2>3 DEF HeartbeatExpires
  <2>4. QED
    BY <1>1, <2>2, <2>3
<1>2. ASSUME NEW i \in Items, RequestStep(i) PROVE TypeInv'
  BY <1>2, RequestType
<1>3. ASSUME NEW i \in Items, RetryDelayElapses(i) \/ ClaimAges(i) PROVE TypeInv'
  <2>1. CASE RetryDelayElapses(i)
    <3>1. queue' \in [Items -> QueueRow]
      BY <2>1, RowUpdate DEF RetryDelayElapses
    <3>2. QED
      BY <2>1, <3>1 DEF RetryDelayElapses
  <2>2. CASE ClaimAges(i)
    <3>1. queue' \in [Items -> QueueRow]
      BY <2>2, RowUpdate DEF ClaimAges
    <3>2. QED
      BY <2>2, <3>1 DEF ClaimAges
  <2>3. QED
    BY <1>3, <2>1, <2>2
<1>4. ASSUME NEW p \in Processes, Crash(p) PROVE TypeInv'
  <2>1. pc' \in [Workers -> Phases] /\ run' \in [Workers -> RunRecord]
    BY <1>4, NoRunType DEF Crash, Phases
  <2>2. stops' \in 0..MaxStops
    BY <1>4, StopsAssumption DEF Crash
  <2>3. LocalsSet'
    BY <1>4 DEF Crash, Itemless, Decided
  <2>4. QED
    BY <1>4, <2>1, <2>2, <2>3 DEF Crash
<1>5. ASSUME NEW p \in Processes, Terminate(p) PROVE TypeInv'
  BY <1>5, StopsAssumption DEF Terminate
<1>6. ASSUME NEW p \in Processes, Restart(p) PROVE TypeInv'
  BY <1>6 DEF Restart, Phases, Itemless, Decided
<1>7. QED
  BY <1>1, <1>2, <1>3, <1>4, <1>5, <1>6 DEF EnvironmentStep

\* The type invariant is inductive.
LEMMA TypeStep == TypeInv /\ [Next]_vars => TypeInv'
<1> SUFFICES ASSUME TypeInv, [Next]_vars PROVE TypeInv'
  OBVIOUS
<1>1. CASE Next
  BY <1>1, NextSplit, WorkerType, EnvironmentType
<1>2. CASE UNCHANGED vars
  BY <1>2 DEF vars, TypeInv, TypeOK, LocalsSet
<1>3. QED
  BY <1>1, <1>2

\* Rows, heartbeats, locals and locks keep their types in every behaviour; in
\* particular no status is written that the tables do not know.
THEOREM TypeCorrect == Spec => []TypeOK
<1>1. TypeInv => TypeOK
  BY DEF TypeInv
<1>2. QED
  BY <1>1, InitType, TypeStep, PTL DEF Spec

-----------------------------------------------------------------------------
(* The runtime locks.                                                      *)

\* A coroutine that drives the browser holds the advisory lock of its runtime.
DriverHoldsLock == \A w \in Workers : pc[w] \in Driving => dbLock[MyRuntime(w)] = w

LockInv == TypeInv /\ DriverHoldsLock /\ LocksNotLeaked

\* Initially no lock is held and no browser driven.
LEMMA LockInit == Init => LockInv
  BY InitType, NullsAssumption DEF LockInv, DriverHoldsLock, LocksNotLeaked, Init, Driving

\* A step of w that takes no lock and keeps its item, and stays where it was
\* with respect to the locks.
LEMMA LockQuiet ==
  ASSUME LockInv, TypeInv', NEW w \in Workers, UNCHANGED lockVars,
         \A v \in Workers \ {w} : pc'[v] = pc[v] /\ run'[v].item = run[v].item,
         pc[w] \in Driving \cup Tails =>
           /\ run'[w].item = run[w].item
           /\ pc'[w] \in Driving \cup Tails,
         pc'[w] \in Driving => pc[w] \in Driving
  PROVE  LockInv'
<1> USE DEF LockInv, TypeInv, TypeOK, MyRuntime, lockVars
<1>1. \A v \in Workers : pc'[v] \in Driving => pc[v] \in Driving /\ run'[v].item = run[v].item
  OBVIOUS
<1>2. DriverHoldsLock'
  BY <1>1 DEF DriverHoldsLock
<1>3. \A v \in Workers : pc[v] \in Driving \cup Tails =>
        pc'[v] \in Driving \cup Tails /\ run'[v].item = run[v].item
  OBVIOUS
<1>4. \A r \in Runtimes : dbLock[r] \in Workers \cup {NoWorker}
  OBVIOUS
<1>5. LocksNotLeaked'
  BY <1>3, <1>4 DEF LocksNotLeaked
<1>6. QED
  BY <1>2, <1>5

\* All worker steps but AcquireLocks and Release are such steps.
LEMMA WorkerQuiet ==
  ASSUME TypeInv, NEW w \in Workers, WorkerStep(w), ~AcquireLocks(w), ~Release(w)
  PROVE  /\ UNCHANGED lockVars
         /\ \A v \in Workers \ {w} : pc'[v] = pc[v] /\ run'[v] = run[v]
         /\ pc[w] \notin Itemless \cup {"ended"} => run'[w].item = run[w].item
         /\ pc[w] \in Driving \cup Tails => pc'[w] \in Driving \cup Tails
         /\ pc'[w] \in Driving => pc[w] \in Driving
<1> USE DEF Step, Move, Note, WriteExecution, WriteQueue, Beat, TypeInv, TypeOK, LocalsSet,
            Driving, Tails, Itemless, lockVars
<1>1. run[w] \in RunRecord
  OBVIOUS
<1>2. CASE PollAndRecover(w)
  BY <1>2 DEF PollAndRecover
<1>3. CASE \E i \in Items : Claim(w, i)
  BY <1>3 DEF Claim
<1>4. CASE ClaimNothing(w)
  BY <1>1, <1>4 DEF ClaimNothing
<1>5. CASE HeartbeatRunning(w)
  BY <1>1, <1>5 DEF HeartbeatRunning
<1>6. CASE CheckLogin(w)
  BY <1>1, <1>6 DEF CheckLogin
<1>7. CASE PreflightFails(w)
  BY <1>1, <1>7 DEF PreflightFails
<1>8. CASE RuntimeUnavailable(w)
  BY <1>1, <1>8, WithErrorType DEF RuntimeUnavailable
<1>9. CASE RuntimeBusy(w)
  BY <1>1, <1>9 DEF RuntimeBusy
<1>10. CASE StartRun(w)
  BY <1>1, <1>10 DEF StartRun
<1>11. CASE LoopStep(w)
  BY <1>1, <1>11 DEF LoopStep
<1>12. CASE ProviderReturns(w)
  BY <1>1, <1>12, KeywordResultsType DEF ProviderReturns
<1>13. CASE Outcome(w)
  BY <1>1, <1>13, WithVerdictType DEF Outcome, Verdict, TerminalExecution
<1>14. CASE WriteFinal(w)
  BY <1>1, <1>14 DEF WriteFinal
<1>15. CASE PostRun(w)
  BY <1>1, <1>15 DEF PostRun
<1>16. CASE PostRunRaises(w)
  BY <1>1, <1>16, WithErrorType DEF PostRunRaises
<1>17. CASE AutoSend(w)
  BY <1>1, <1>17, WithErrorType DEF AutoSend
<1>18. CASE FinishQueue(w)
  BY <1>1, <1>18 DEF FinishQueue
<1>19. CASE FinishError(w)
  BY <1>1, <1>19 DEF FinishError
<1>20. CASE RetryDecision(w)
  BY <1>1, <1>20 DEF RetryDecision
<1>21. CASE RetryExecution(w)
  BY <1>1, <1>21 DEF RetryExecution
<1>22. CASE RetryQueue(w)
  BY <1>1, <1>22 DEF RetryQueue
<1>23. CASE FailExecution(w)
  BY <1>1, <1>23 DEF FailExecution
<1>24. CASE FailQueue(w)
  BY <1>1, <1>24 DEF FailQueue
<1>25. CASE CancelExecution(w)
  BY <1>1, <1>25 DEF CancelExecution
<1>26. CASE CancelQueue(w)
  BY <1>1, <1>26 DEF CancelQueue
<1>27. CASE HeartbeatOnline(w)
  BY <1>1, <1>27 DEF HeartbeatOnline
<1>28. CASE StopWorker(w)
  BY <1>1, <1>28 DEF StopWorker
<1>29. QED
  BY <1>2, <1>3, <1>4, <1>5, <1>6, <1>7, <1>8, <1>9, <1>10, <1>11, <1>12, <1>13, <1>14, <1>15, <1>16, <1>17, <1>18, <1>19, <1>20, <1>21, <1>22, <1>23, <1>24, <1>25, <1>26, <1>27, <1>28 DEF WorkerStep

\* Taking the locks of a free runtime preserves LockInv.
LEMMA LockAcquire ==
  ASSUME LockInv, TypeInv', NEW w \in Workers, AcquireLocks(w)
  PROVE  LockInv'
<1> DEFINE r == MyRuntime(w)
           p == ProcessOf[w]
<1> USE DEF LockInv, TypeInv, TypeOK, LocalsSet
<1>1. run[w].item \in Items /\ r \in Runtimes /\ p \in Processes
  BY ProcessAssumption, RuntimeAssumption DEF AcquireLocks, Step, MyRuntime, Itemless
<1>2. /\ dbLock[r] = NoWorker /\ dbLock' = [dbLock EXCEPT ![r] = w]
      /\ procLocks' = [procLocks EXCEPT ![p] = procLocks[p] \cup {r}]
      /\ pc' = [pc EXCEPT ![w] = "start"] /\ run' = run
      /\ pc[w] \in {"preflight", "login"}
  BY DEF AcquireLocks, LocksFree, Step
<1>3. DriverHoldsLock'
  BY <1>1, <1>2, NullsAssumption DEF DriverHoldsLock, MyRuntime, Driving
<1>4. \A s \in Runtimes : dbLock[s] # w
  BY <1>2, NullsAssumption DEF LocksNotLeaked, Driving, Tails
<1>5. \A s \in Runtimes : s # r => dbLock'[s] = dbLock[s]
  BY <1>1, <1>2
<1>6. dbLock'[r] = w /\ r \in procLocks'[p] /\ pc'[w] \in Driving
  BY <1>1, <1>2 DEF Driving
<1>7. ASSUME NEW s \in Runtimes, dbLock'[s] # NoWorker
      PROVE  /\ pc'[dbLock'[s]] \in Driving \cup Tails
             /\ RuntimeOf[run'[dbLock'[s]].item] = s
             /\ s \in procLocks'[ProcessOf[dbLock'[s]]]
  <2>1. CASE s = r
    BY <1>2, <1>6, <2>1 DEF MyRuntime
  <2>2. CASE s # r
    <3>1. dbLock'[s] = dbLock[s] /\ dbLock[s] \in Workers /\ dbLock[s] # w
      BY <1>4, <1>5, <1>7, <2>2
    <3>2. /\ pc[dbLock[s]] \in Driving \cup Tails
          /\ RuntimeOf[run[dbLock[s]].item] = s
          /\ s \in procLocks[ProcessOf[dbLock[s]]]
      BY <1>7, <3>1 DEF LocksNotLeaked, MyRuntime
    <3>3. QED
      BY <1>1, <1>2, <3>1, <3>2, ProcessAssumption
  <2>3. QED
    BY <2>1, <2>2
<1>8. ASSUME NEW q \in Processes, NEW s \in procLocks'[q]
      PROVE  dbLock'[s] # NoWorker /\ ProcessOf[dbLock'[s]] = q
  <2>1. CASE q = p /\ s = r
    BY <1>6, <2>1, NullsAssumption
  <2>2. CASE ~(q = p /\ s = r)
    <3>1. s \in procLocks[q] /\ s \in Runtimes
      BY <1>1, <1>2, <2>2
    <3>2. dbLock[s] # NoWorker /\ ProcessOf[dbLock[s]] = q
      BY <3>1 DEF LocksNotLeaked
    <3>3. QED
      BY <1>2, <1>5, <3>1, <3>2
  <2>3. QED
    BY <2>1, <2>2
<1>9. LocksNotLeaked'
  BY <1>7, <1>8 DEF LocksNotLeaked, MyRuntime
<1>10. QED
  BY <1>3, <1>9

\* The finally block gives back what the run holds, and nothing else.
LEMMA LockRelease ==
  ASSUME LockInv, TypeInv', NEW w \in Workers, Release(w)
  PROVE  LockInv'
<1> DEFINE r == MyRuntime(w)
           p == ProcessOf[w]
<1> USE DEF LockInv, TypeInv, TypeOK, LocalsSet
<1>1. run[w].item \in Items /\ r \in Runtimes /\ p \in Processes
  BY ProcessAssumption, RuntimeAssumption DEF Release, Step, MyRuntime, Itemless
<1>2. pc' = [pc EXCEPT ![w] = "ended"] /\ run' = run /\ pc[w] = "release"
  BY DEF Release, Step
<1>3. \A s \in Runtimes : dbLock[s] = w => s = r
  BY <1>2, NullsAssumption DEF LocksNotLeaked
<1>4. \A v \in Workers : pc'[v] \in Driving => v # w /\ pc[v] \in Driving
  BY <1>2 DEF Driving
<1>5. CASE dbLock[r] = w
  <2>1. /\ dbLock' = [dbLock EXCEPT ![r] = NoWorker]
        /\ procLocks' = [procLocks EXCEPT ![p] = procLocks[p] \ {r}]
    BY <1>5 DEF Release
  <2>2. DriverHoldsLock'
    BY <1>1, <1>2, <1>4, <1>5, <2>1 DEF DriverHoldsLock, MyRuntime
  <2>3. ASSUME NEW s \in Runtimes, dbLock'[s] # NoWorker
        PROVE  /\ pc'[dbLock'[s]] \in Driving \cup Tails
               /\ RuntimeOf[run'[dbLock'[s]].item] = s
               /\ s \in procLocks'[ProcessOf[dbLock'[s]]]
    <3>1. s # r /\ dbLock'[s] = dbLock[s] /\ dbLock[s] \in Workers /\ dbLock[s] # w
      BY <1>1, <1>3, <2>1, <2>3
    <3>2. /\ pc[dbLock[s]] \in Driving \cup Tails
          /\ RuntimeOf[run[dbLock[s]].item] = s
          /\ s \in procLocks[ProcessOf[dbLock[s]]]
      BY <2>3, <3>1 DEF LocksNotLeaked, MyRuntime
    <3>3. QED
      BY <1>1, <1>2, <2>1, <3>1, <3>2, ProcessAssumption
  <2>4. ASSUME NEW q \in Processes, NEW s \in procLocks'[q]
        PROVE  dbLock'[s] # NoWorker /\ ProcessOf[dbLock'[s]] = q
    <3>1. s \in procLocks[q] /\ s \in Runtimes /\ (q = p => s # r)
      BY <1>1, <2>1
    <3>2. dbLock[s] # NoWorker /\ ProcessOf[dbLock[s]] = q
      BY <3>1 DEF LocksNotLeaked
    <3>3. s # r
      BY <1>5, <3>1, <3>2
    <3>4. QED
      BY <2>1, <3>1, <3>2, <3>3
  <2>5. LocksNotLeaked'
    BY <2>3, <2>4 DEF LocksNotLeaked, MyRuntime
  <2>6. QED
    BY <2>2, <2>5
<1>6. CASE dbLock[r] # w
  <2>1. UNCHANGED lockVars
    BY <1>6 DEF Release
  <2>2. DriverHoldsLock'
    BY <1>2, <1>4, <2>1 DEF DriverHoldsLock, MyRuntime, lockVars
  <2>3. \A s \in Runtimes : dbLock[s] # w
    BY <1>3, <1>6
  <2>4. LocksNotLeaked'
    BY <1>2, <2>1, <2>3 DEF LocksNotLeaked, MyRuntime, lockVars
  <2>5. QED
    BY <2>2, <2>4
<1>7. QED
  BY <1>5, <1>6

\* A dying process loses its coroutines together with their locks.
LEMMA LockCrash ==
  ASSUME LockInv, TypeInv', NEW p \in Processes, Crash(p)
  PROVE  LockInv'
<1> DEFINE dead == {w \in Workers : ProcessOf[w] = p}
<1> USE DEF LockInv, TypeInv, TypeOK
<1>1. /\ pc' = [w \in Workers |-> IF w \in dead THEN "down" ELSE pc[w]]
      /\ run' = [w \in Workers |-> IF w \in dead THEN NoRun ELSE run[w]]
      /\ procLocks' = [procLocks EXCEPT ![p] = {}]
      /\ dbLock' = [r \in Runtimes |-> IF dbLock[r] \in dead THEN NoWorker ELSE dbLock[r]]
  BY DEF Crash
<1>2. \A w \in Workers : pc'[w] \in Driving =>
         w \notin dead /\ pc[w] \in Driving /\ run'[w] = run[w] /\ MyRuntime(w) \in Runtimes
  BY <1>1, RuntimeAssumption DEF Driving, LocalsSet, Itemless, MyRuntime
<1>3. DriverHoldsLock'
  BY <1>1, <1>2 DEF DriverHoldsLock, MyRuntime
<1>4. ASSUME NEW r \in Runtimes, dbLock'[r] # NoWorker
      PROVE  /\ pc'[dbLock'[r]] \in Driving \cup Tails
             /\ RuntimeOf[run'[dbLock'[r]].item] = r
             /\ r \in procLocks'[ProcessOf[dbLock'[r]]]
  <2>1. dbLock'[r] = dbLock[r] /\ dbLock[r] \in Workers /\ dbLock[r] \notin dead
    BY <1>1, <1>4
  <2>2. /\ pc[dbLock[r]] \in Driving \cup Tails
        /\ RuntimeOf[run[dbLock[r]].item] = r
        /\ r \in procLocks[ProcessOf[dbLock[r]]]
    BY <1>4, <2>1 DEF LocksNotLeaked, MyRuntime
  <2>3. QED
    BY <1>1, <2>1, <2>2, ProcessAssumption
<1>5. ASSUME NEW q \in Processes, NEW r \in procLocks'[q]
      PROVE  dbLock'[r] # NoWorker /\ ProcessOf[dbLock'[r]] = q
  <2>1. q # p /\ r \in procLocks[q] /\ r \in Runtimes
    BY <1>1
  <2>2. dbLock[r] # NoWorker /\ ProcessOf[dbLock[r]] = q
    BY <2>1 DEF LocksNotLeaked
  <2>3. QED
    BY <1>1, <2>1, <2>2
<1>6. LocksNotLeaked'
  BY <1>4, <1>5 DEF LocksNotLeaked, MyRuntime
<1>7. QED
  BY <1>3, <1>6

\* LockInv is inductive, whatever the faults are.
LEMMA LockStep == LockInv /\ [Next]_vars => LockInv'
<1> SUFFICES ASSUME LockInv, [Next]_vars PROVE LockInv'
  OBVIOUS
<1>1. TypeInv /\ TypeInv'
  BY TypeStep DEF LockInv
<1>2. ASSUME NEW w \in Workers, WorkerStep(w) PROVE LockInv'
  <2>1. CASE AcquireLocks(w)
    BY <1>1, <2>1, LockAcquire
  <2>2. CASE Release(w)
    BY <1>1, <2>2, LockRelease
  <2>3. CASE ~AcquireLocks(w) /\ ~Release(w)
    BY <1>1, <1>2, <2>3, WorkerQuiet, LockQuiet DEF Driving, Tails, Itemless
  <2>4. QED
    BY <2>1, <2>2, <2>3
<1>3. ASSUME UNCHANGED <<pc, run, procLocks, dbLock>> PROVE LockInv'
  BY <1>1, <1>3 DEF LockInv, DriverHoldsLock, LocksNotLeaked, MyRuntime
<1>4. CASE EnvironmentStep
  <2>1. ASSUME NEW w \in Workers, HeartbeatDuringRun(w) \/ HeartbeatExpires(w) PROVE LockInv'
    BY <1>3, <2>1 DEF HeartbeatDuringRun, HeartbeatExpires, workerVars, lockVars
  <2>2. ASSUME NEW i \in Items, RequestStep(i) \/ RetryDelayElapses(i) \/ ClaimAges(i) PROVE LockInv'
    BY <1>3, <2>2 DEF RequestStep, InsertExecution, InsertQueueItem, CancelRead, CancelWriteQueue,
       CancelWriteExecution, CancelWriteFlag, CancelLost, RetryDelayElapses, ClaimAges, workerVars, lockVars
  <2>3. ASSUME NEW p \in Processes, Crash(p) PROVE LockInv'
    BY <1>1, <2>3, LockCrash
  <2>4. ASSUME NEW p \in Processes, Terminate(p) PROVE LockInv'
    BY <1>3, <2>4 DEF Terminate, workerVars, lockVars
  <2>5. ASSUME NEW p \in Processes, Restart(p) PROVE LockInv'
    <3>1. \A v \in Workers : pc'[v] # pc[v] => pc[v] = "down" /\ pc'[v] = "idle"
      BY <1>1, <2>5 DEF Restart, TypeInv, TypeOK
    <3>2. UNCHANGED <<run, procLocks, dbLock>>
      BY <2>5 DEF Restart, lockVars
    <3>3. DriverHoldsLock'
      BY <3>1, <3>2 DEF LockInv, DriverHoldsLock, MyRuntime, Driving
    <3>4. ASSUME NEW r \in Runtimes, dbLock[r] # NoWorker
          PROVE  pc'[dbLock[r]] = pc[dbLock[r]]
      <4>1. dbLock[r] \in Workers
        BY <1>1, <3>4 DEF TypeInv, TypeOK
      <4>2. pc[dbLock[r]] # "down"
        BY <3>4 DEF LockInv, LocksNotLeaked, Driving, Tails
      <4>3. QED
        BY <3>1, <4>1, <4>2
    <3>5. LocksNotLeaked'
      BY <3>2, <3>4 DEF LockInv, LocksNotLeaked, MyRuntime
    <3>6. QED
      BY <1>1, <3>3, <3>5 DEF LockInv
  <2>6. QED
    BY <1>4, <2>1, <2>2, <2>3, <2>4, <2>5 DEF EnvironmentStep
<1>5. CASE UNCHANGED vars
  BY <1>3, <1>5 DEF vars
<1>6. QED
  BY <1>2, <1>4, <1>5, NextSplit

\* Two runs never drive the browser of one account, and no lock of a runtime
\* outlives the run that took it: the process-local sets and the advisory locks
\* always name the same living runs.
THEOREM LocksAlwaysHold == Spec => []LocksHold
<1>1. LockInv => RuntimeExclusive
  BY DEF LockInv, DriverHoldsLock, RuntimeExclusive
<1>2. LockInv => LocksNotLeaked
  BY DEF LockInv
<1>3. LockInv => LocksHold
  BY <1>1, <1>2 DEF LocksHold
<1>4. QED
  BY <1>3, LockInit, LockStep, PTL DEF Spec

-----------------------------------------------------------------------------
(* Claims, while the heartbeats of live workers are timely.                *)

HeartbeatsTimely == "late_heartbeat" \notin Faults

\* The queue row of an active worker still carries its claim, and protects the
\* item from recovery: by its age until the first heartbeat, by the heartbeat
\* afterwards.
HoldsClaim(w) ==
  LET i == run[w].item
  IN  /\ queue[i].claimedBy = w
      /\ queue[i].attempts = run[w].attempts
      /\ queue[i].status \in {"running", "cancelled"}
      /\ i \in Uncancellable => queue[i].status = "running"
      /\ pc[w] = "claimed" => ~queue[i].aged
      /\ pc[w] # "claimed" => heartbeat[w] = [item |-> i, fresh |-> TRUE]

\* Attempts are left for every item that may be claimed, and for every run
\* that has decided to retry.
AttemptsLeft ==
  /\ \A i \in Items : queue[i].status \in Claimable \cup {"absent"} => queue[i].attempts < MaxAttempts
  /\ \A w \in Workers : pc[w] \in {"retry_execution", "retry_queue"} => run[w].attempts < MaxAttempts

CancelScope == \A i \in Items : cancelPc[i] # "none" => i \in Cancellable

ClaimInv ==
  /\ TypeInv
  /\ \A w \in Workers : Active(w) => HoldsClaim(w)
  /\ AttemptsLeft
  /\ AttemptsBounded
  /\ CancelScope

\* Initially nothing is claimed.
LEMMA ClaimInit == Init => ClaimInv
<1> SUFFICES ASSUME Init PROVE ClaimInv
  OBVIOUS
<1>1. TypeInv
  BY InitType
<1>2. \A w \in Workers : ~Active(w)
  BY DEF Init, Active
<1>3. AttemptsLeft /\ AttemptsBounded /\ CancelScope
  BY AttemptsAssumption DEF Init, AttemptsLeft, AttemptsBounded, CancelScope
<1>4. QED
  BY <1>1, <1>2, <1>3 DEF ClaimInv

\* What a step of w, other than polling and claiming, does to claims: it writes
\* the queue row of its own item only, as the last thing it does with it.
ClaimFrame(w) ==
  /\ UNCHANGED cancelPc
  /\ \A v \in Workers \ {w} : pc'[v] = pc[v] /\ run'[v] = run[v] /\ heartbeat'[v] = heartbeat[v]
  /\ \A i \in Items : queue'[i] # queue[i] =>
       /\ Active(w) /\ ~Active(w)' /\ i = run[w].item
       /\ queue'[i].attempts = queue[i].attempts
       /\ queue'[i].status \in TerminalQueue \cup {"retry_waiting"}
       /\ queue'[i].status = "retry_waiting" => pc[w] = "retry_queue"
  /\ Active(w)' =>
       /\ Active(w) /\ pc'[w] # "claimed"
       /\ run'[w].item = run[w].item /\ run'[w].attempts = run[w].attempts
       /\ heartbeat'[w] = IF pc[w] = "claimed" THEN [item |-> run[w].item, fresh |-> TRUE] ELSE heartbeat[w]
       /\ pc'[w] = "retry_execution" => run[w].attempts < MaxAttempts
       /\ pc'[w] = "retry_queue" => pc[w] = "retry_execution"

\* Writing the queue row of the own item on leaving the run respects ClaimFrame.
LEMMA WriteQueueFrame ==
  ASSUME TypeInv, NEW w \in Workers, NEW from, NEW s \in TerminalQueue \cup {"retry_waiting"},
         WriteQueue(w, from, "release", s),
         from \notin Itemless \cup {"release", "ended"},
         s = "retry_waiting" => from = "retry_queue"
  PROVE  ClaimFrame(w)
<1> USE DEF WriteQueue, Step, TypeInv, TypeOK, LocalsSet, Itemless, Active, ClaimFrame, procVars
<1>1. run[w].item \in Items
  OBVIOUS
<1>2. \A i \in Items : queue'[i] # queue[i] => i = run[w].item
  BY DEF MyItem
<1>3. queue'[run[w].item].status = s /\ queue'[run[w].item].attempts = queue[run[w].item].attempts
  <2>1. s \in QueueStatus
    BY DEF QueueStatus, Claimable
  <2>2. QED
    BY <1>1, <2>1, WithStatusType DEF MyItem
<1>4. QED
  BY <1>1, <1>2, <1>3 DEF TerminalQueue

\* Every worker step but polling and claiming respects ClaimFrame.
LEMMA WorkerClaimFrame ==
  ASSUME TypeInv, NEW w \in Workers, WorkerStep(w),
         ~PollAndRecover(w), \A i \in Items : ~Claim(w, i)
  PROVE  ClaimFrame(w)
<1>1. run[w] \in RunRecord /\ run[w].attempts \in Nat
  BY DEF TypeInv, TypeOK, RunRecord
<1>2. CASE FinishQueue(w)
  <2> DEFINE s == IF run[w].verdict = "partial" THEN "completed" ELSE run[w].verdict
  <2>1. s \in TerminalQueue
    BY <1>2 DEF FinishQueue, WriteQueue, Step, TypeInv, LocalsSet, Decided, TerminalExecution, TerminalQueue
  <2>2. WriteQueue(w, "finish_queue", "release", s)
    BY <1>2 DEF FinishQueue
  <2> HIDE DEF s
  <2>3. QED
    BY <2>1, <2>2, WriteQueueFrame DEF TerminalQueue, Itemless
<1>3. CASE RetryQueue(w)
  BY <1>3, WriteQueueFrame DEF RetryQueue, Itemless
<1>4. CASE FailQueue(w)
  BY <1>4, WriteQueueFrame DEF FailQueue, TerminalQueue, Itemless
<1>5. CASE CancelQueue(w)
  BY <1>5, WriteQueueFrame DEF CancelQueue, TerminalQueue, Itemless
<1> USE DEF Step, Move, Note, WriteExecution, Beat, TypeInv, TypeOK, LocalsSet,
            Itemless, Active, ClaimFrame, dbVars, procVars
<1>6. CASE ClaimNothing(w)
  BY <1>1, <1>6 DEF ClaimNothing
<1>7. CASE HeartbeatRunning(w)
  BY <1>1, <1>7 DEF HeartbeatRunning, MyItem
<1>8. CASE CheckLogin(w)
  BY <1>1, <1>8 DEF CheckLogin
<1>9. CASE PreflightFails(w)
  BY <1>1, <1>9 DEF PreflightFails
<1>10. CASE RuntimeUnavailable(w)
  BY <1>1, <1>10, WithErrorType DEF RuntimeUnavailable
<1>11. CASE RuntimeBusy(w)
  BY <1>1, <1>11 DEF RuntimeBusy
<1>12. CASE AcquireLocks(w)
  BY <1>1, <1>12 DEF AcquireLocks
<1>13. CASE StartRun(w)
  BY <1>1, <1>13 DEF StartRun
<1>14. CASE LoopStep(w)
  BY <1>1, <1>14 DEF LoopStep
<1>15. CASE ProviderReturns(w)
  BY <1>1, <1>15, KeywordResultsType DEF ProviderReturns
<1>16. CASE Outcome(w)
  BY <1>1, <1>16, WithVerdictType DEF Outcome, Verdict, TerminalExecution
<1>17. CASE WriteFinal(w)
  BY <1>1, <1>17 DEF WriteFinal
<1>18. CASE PostRun(w)
  BY <1>1, <1>18 DEF PostRun
<1>19. CASE PostRunRaises(w)
  BY <1>1, <1>19, WithErrorType DEF PostRunRaises
<1>20. CASE AutoSend(w)
  BY <1>1, <1>20, WithErrorType DEF AutoSend
<1>21. CASE FinishError(w)
  BY <1>1, <1>21 DEF FinishError
<1>22. CASE RetryDecision(w)
  BY <1>1, <1>22, AttemptsAssumption DEF RetryDecision
<1>23. CASE RetryExecution(w)
  BY <1>1, <1>23 DEF RetryExecution
<1>24. CASE FailExecution(w)
  BY <1>1, <1>24 DEF FailExecution
<1>25. CASE CancelExecution(w)
  BY <1>1, <1>25 DEF CancelExecution
<1>26. CASE Release(w)
  BY <1>1, <1>26 DEF Release
<1>27. CASE HeartbeatOnline(w)
  BY <1>1, <1>27 DEF HeartbeatOnline
<1>28. CASE StopWorker(w)
  BY <1>1, <1>28 DEF StopWorker
<1>29. QED
  BY <1>2, <1>3, <1>4, <1>5, <1>6, <1>7, <1>8, <1>9, <1>10, <1>11, <1>12, <1>13, <1>14, <1>15,
     <1>16, <1>17, <1>18, <1>19, <1>20, <1>21, <1>22, <1>23, <1>24, <1>25, <1>26, <1>27, <1>28
     DEF WorkerStep

\* A step that respects ClaimFrame preserves ClaimInv.
LEMMA ClaimInvFrame ==
  ASSUME ClaimInv, TypeInv', NEW w \in Workers, ClaimFrame(w)
  PROVE  ClaimInv'
<1> USE DEF ClaimInv, TypeInv, TypeOK, LocalsSet
<1>1. \A v \in Workers : Active(v) => run[v].item \in Items
  BY DEF Active, Itemless
<1>2. \A v \in Workers : Active(v)' => Active(v) /\ run'[v].item = run[v].item
  BY DEF ClaimFrame, Active
<1>3. ASSUME NEW v \in Workers, Active(v)'
      PROVE  queue'[run[v].item] = queue[run[v].item]
  BY <1>1, <1>2, <1>3 DEF ClaimFrame, HoldsClaim
<1>4. ASSUME NEW v \in Workers, Active(v)'
      PROVE  HoldsClaim(v)'
  <2>1. /\ HoldsClaim(v) /\ queue'[run[v].item] = queue[run[v].item]
        /\ run'[v].item = run[v].item /\ run'[v].attempts = run[v].attempts
    BY <1>2, <1>3, <1>4 DEF ClaimFrame
  <2>2. CASE v = w
    BY <1>4, <2>1, <2>2 DEF ClaimFrame, HoldsClaim
  <2>3. CASE v # w
    BY <2>1, <2>3 DEF ClaimFrame, HoldsClaim
  <2>4. QED
    BY <2>2, <2>3
<1>5. ASSUME NEW i \in Items
      PROVE  /\ queue'[i].attempts = queue[i].attempts
             /\ queue'[i].status \in Claimable \cup {"absent"} => queue'[i].attempts < MaxAttempts
  <2>1. CASE queue'[i] = queue[i]
    BY <2>1 DEF AttemptsLeft
  <2>2. CASE queue'[i] # queue[i]
    BY <2>2 DEF ClaimFrame, HoldsClaim, AttemptsLeft, TerminalQueue, Claimable
  <2>3. QED
    BY <2>1, <2>2
<1>6. ASSUME NEW v \in Workers, pc'[v] \in {"retry_execution", "retry_queue"}
      PROVE  run'[v].attempts < MaxAttempts
  <2>1. CASE v = w
    BY <1>6, <2>1 DEF ClaimFrame, AttemptsLeft, Active
  <2>2. CASE v # w
    BY <1>6, <2>2 DEF ClaimFrame, AttemptsLeft
  <2>3. QED
    BY <2>1, <2>2
<1>7. AttemptsLeft' /\ AttemptsBounded'
  BY <1>5, <1>6 DEF AttemptsLeft, AttemptsBounded
<1>8. CancelScope'
  BY DEF CancelScope, ClaimFrame
<1>9. QED
  BY <1>4, <1>7, <1>8

\* Recovery leaves alone the items of active workers.
LEMMA ActiveIsNotStale ==
  ASSUME ClaimInv, NEW v \in Workers, NEW w \in Workers, v # w, Active(v)
  PROVE  ~Stale(w, run[v].item)
<1>1. HoldsClaim(v)
  BY DEF ClaimInv
<1>2. CASE pc[v] = "claimed"
  BY <1>1, <1>2 DEF HoldsClaim, Stale
<1>3. CASE pc[v] # "claimed"
  <2>1. heartbeat[v].item = run[v].item /\ heartbeat[v].fresh
    BY <1>1, <1>3 DEF HoldsClaim
  <2>2. QED
    BY <1>1, <2>1 DEF HoldsClaim, Stale
<1>4. QED
  BY <1>2, <1>3

\* Recovery returns items to the queue only while attempts are left.
LEMMA ClaimInvPoll ==
  ASSUME ClaimInv, TypeInv', NEW w \in Workers, PollAndRecover(w)
  PROVE  ClaimInv'
<1> USE DEF ClaimInv, TypeInv, TypeOK, LocalsSet
<1>1. /\ pc' = [pc EXCEPT ![w] = "claim"] /\ pc[w] = "idle" /\ run' = run /\ cancelPc' = cancelPc
      /\ \A v \in Workers \ {w} : heartbeat'[v] = heartbeat[v]
  BY DEF PollAndRecover, Step
<1>2. \A i \in Items :
        /\ queue'[i].attempts = queue[i].attempts
        /\ ~Stale(w, i) => queue'[i] = queue[i]
        /\ Stale(w, i) => queue'[i].status = Recovered(i, "retry_waiting")
  <2>1. \A i \in Items : Recovered(i, "retry_waiting") \in QueueStatus
    BY DEF Recovered, QueueStatus, Claimable, TerminalQueue
  <2>2. QED
    BY <2>1, WithStatusType DEF PollAndRecover
<1>3. ASSUME NEW v \in Workers, Active(v)'
      PROVE  HoldsClaim(v)'
  <2>1. v # w /\ Active(v) /\ pc'[v] = pc[v] /\ run[v].item \in Items
    BY <1>1, <1>3 DEF Active, Itemless
  <2>2. queue'[run[v].item] = queue[run[v].item]
    BY <1>2, <2>1, ActiveIsNotStale
  <2>3. QED
    BY <1>1, <2>1, <2>2 DEF HoldsClaim
<1>4. AttemptsLeft'
  BY <1>1, <1>2 DEF AttemptsLeft, Recovered, Claimable
<1>5. AttemptsBounded' /\ CancelScope'
  BY <1>1, <1>2 DEF AttemptsBounded, CancelScope
<1>6. QED
  BY <1>3, <1>4, <1>5

\* A claim takes an item that no active worker holds.
LEMMA ClaimInvClaim ==
  ASSUME ClaimInv, TypeInv', NEW w \in Workers, NEW i \in Items, Claim(w, i)
  PROVE  ClaimInv'
<1> USE DEF ClaimInv, TypeInv, TypeOK, LocalsSet
<1>1. queue[i] \in QueueRow /\ queue[i].attempts \in Nat
  BY DEF QueueRow
<1>2. /\ pc' = [pc EXCEPT ![w] = "claimed"] /\ pc[w] = "claim" /\ cancelPc' = cancelPc
      /\ heartbeat' = heartbeat
      /\ queue[i].status \in Claimable
      /\ \A j \in Items : j # i => queue'[j] = queue[j]
      /\ \A v \in Workers : v # w => run'[v] = run[v]
  BY DEF Claim, Step, Waiting
<1>3. /\ queue'[i].status = "running" /\ queue'[i].claimedBy = w /\ queue'[i].aged = FALSE
      /\ queue'[i].attempts = queue[i].attempts + 1
      /\ run'[w].item = i /\ run'[w].attempts = queue[i].attempts + 1
  <2>1. queue'[i] = ClaimedRow(queue[i], w) /\ run'[w] = FreshRun(i, queue[i].attempts + 1)
    BY DEF Claim
  <2>2. queue[i].attempts + 1 \in Nat
    BY <1>1
  <2>3. FreshRun(i, queue[i].attempts + 1).item = i /\ FreshRun(i, queue[i].attempts + 1).attempts = queue[i].attempts + 1
    BY <2>2, FreshRunType
  <2>4. /\ ClaimedRow(queue[i], w).status = "running" /\ ClaimedRow(queue[i], w).claimedBy = w
        /\ ClaimedRow(queue[i], w).aged = FALSE
        /\ ClaimedRow(queue[i], w).attempts = queue[i].attempts + 1
    BY <1>1, ClaimedRowType
  <2>5. QED
    BY <2>1, <2>3, <2>4
<1>4. ASSUME NEW v \in Workers, Active(v)'
      PROVE  HoldsClaim(v)'
  <2>1. CASE v = w
    BY <1>2, <1>3, <2>1 DEF HoldsClaim
  <2>2. CASE v # w
    <3>1. Active(v) /\ pc'[v] = pc[v] /\ run[v].item \in Items /\ HoldsClaim(v)
      BY <1>2, <1>4, <2>2 DEF Active, Itemless
    <3>2. run[v].item # i
      BY <1>2, <3>1 DEF HoldsClaim, Claimable
    <3>3. QED
      BY <1>2, <2>2, <3>1, <3>2 DEF HoldsClaim
  <2>3. QED
    BY <2>1, <2>2
<1>5. queue[i].attempts < MaxAttempts
  BY <1>2 DEF AttemptsLeft
<1>6. AttemptsLeft'
  BY <1>2, <1>3 DEF AttemptsLeft, Claimable
<1>7. AttemptsBounded'
  <2>1. queue[i].attempts + 1 <= MaxAttempts
    BY <1>1, <1>5, AttemptsAssumption
  <2>2. QED
    BY <1>2, <1>3, <2>1 DEF AttemptsBounded
<1>8. CancelScope'
  BY <1>2 DEF CancelScope
<1>9. QED
  BY <1>4, <1>6, <1>7, <1>8

\* An environment step that changes rows without touching claims.
LEMMA ClaimInvRows ==
  ASSUME ClaimInv, TypeInv', UNCHANGED <<pc, run, heartbeat>>, CancelScope',
         \A i \in Items :
           /\ queue'[i].attempts = queue[i].attempts
           /\ queue'[i].claimedBy = queue[i].claimedBy
           /\ queue'[i].status # queue[i].status =>
                \/ queue'[i].status = "cancelled" /\ i \in Cancellable
                \/ queue[i].status = "absent"
           /\ queue'[i].aged # queue[i].aged =>
                ~ \E w \in Workers : pc[w] = "claimed" /\ run[w].item = i
  PROVE  ClaimInv'
<1> USE DEF ClaimInv, TypeInv, TypeOK, LocalsSet
<1>1. ASSUME NEW v \in Workers, Active(v)'
      PROVE  HoldsClaim(v)'
  <2>1. Active(v) /\ HoldsClaim(v) /\ run[v].item \in Items
    BY <1>1 DEF Active, Itemless
  <2>2. QED
    BY <2>1 DEF HoldsClaim, Uncancellable
<1>2. AttemptsLeft'
  BY DEF AttemptsLeft, Claimable
<1>3. AttemptsBounded'
  BY DEF AttemptsBounded
<1>4. QED
  BY <1>1, <1>2, <1>3


\* Requests, time, crashes and restarts preserve ClaimInv.
LEMMA ClaimInvEnvironment ==
  ASSUME ClaimInv, TypeInv', HeartbeatsTimely, EnvironmentStep
  PROVE  ClaimInv'
<1> USE DEF ClaimInv, TypeInv, TypeOK, LocalsSet
<1>1. ASSUME NEW w \in Workers, HeartbeatDuringRun(w) \/ HeartbeatExpires(w) PROVE ClaimInv'
  <2>1. /\ UNCHANGED <<pc, run, queue, cancelPc>>
        /\ \A v \in Workers : v # w => heartbeat'[v] = heartbeat[v]
    BY <1>1 DEF HeartbeatDuringRun, HeartbeatExpires, dbVars, workerVars
  <2>2. ~Active(w)
    <3>1. CASE HeartbeatDuringRun(w)
      <4>1. pc[w] # "claimed" /\ ~heartbeat[w].fresh
        BY <3>1 DEF HeartbeatDuringRun
      <4>2. ~HoldsClaim(w)
        BY <4>1 DEF HoldsClaim
      <4>3. QED
        BY <4>2
    <3>2. CASE HeartbeatExpires(w)
      BY <3>2 DEF HeartbeatExpires, HeartbeatsTimely, Active
    <3>3. QED
      BY <1>1, <3>1, <3>2
  <2>3. ASSUME NEW v \in Workers, Active(v)'
        PROVE  HoldsClaim(v)'
    <3>1. v # w /\ Active(v) /\ HoldsClaim(v)
      BY <2>1, <2>2, <2>3 DEF Active
    <3>2. QED
      BY <2>1, <3>1 DEF HoldsClaim
  <2>4. AttemptsLeft' /\ AttemptsBounded' /\ CancelScope'
    BY <2>1 DEF AttemptsLeft, AttemptsBounded, CancelScope
  <2>5. QED
    BY <2>3, <2>4
<1>2. ASSUME UNCHANGED <<pc, run, heartbeat, queue>>, CancelScope' PROVE ClaimInv'
  BY <1>2, ClaimInvRows
<1>3. ASSUME NEW i \in Items, RequestStep(i) PROVE ClaimInv'
  <2>1. CASE InsertExecution(i)
    BY <1>2, <2>1 DEF InsertExecution, workerVars, CancelScope
  <2>2. CASE InsertQueueItem(i)
    <3>1. UNCHANGED <<pc, run, heartbeat, cancelPc>> /\ queue[i].status = "absent"
      BY <2>2 DEF InsertQueueItem, workerVars
    <3>2. /\ \A j \in Items : j # i => queue'[j] = queue[j]
          /\ queue'[i].attempts = queue[i].attempts /\ queue'[i].claimedBy = queue[i].claimedBy
          /\ queue'[i].aged = queue[i].aged
      BY <2>2 DEF InsertQueueItem, QueueRow
    <3>3. QED
      BY <3>1, <3>2, ClaimInvRows DEF CancelScope
  <2>3. CASE CancelRead(i)
    <3>1. UNCHANGED <<pc, run, heartbeat, queue>>
      BY <2>3 DEF CancelRead, dbVars, workerVars
    <3>2. CancelScope'
      BY <2>3 DEF CancelRead, CancelScope
    <3>3. QED
      BY <1>2, <3>1, <3>2
  <2>4. CASE CancelWriteQueue(i)
    <3>1. UNCHANGED <<pc, run, heartbeat>> /\ i \in Cancellable
      BY <2>4 DEF CancelWriteQueue, CancelScope, workerVars
    <3>2. CancelScope'
      BY <2>4 DEF CancelWriteQueue, CancelScope
    <3>3. /\ \A j \in Items : j # i => queue'[j] = queue[j]
          /\ queue'[i].attempts = queue[i].attempts /\ queue'[i].claimedBy = queue[i].claimedBy
          /\ queue'[i].aged = queue[i].aged /\ queue'[i].status = "cancelled"
      BY <2>4 DEF CancelWriteQueue, QueueRow
    <3>4. QED
      BY <3>1, <3>2, <3>3, ClaimInvRows
  <2>5. CASE CancelWriteExecution(i)
    BY <1>2, <2>5 DEF CancelWriteExecution, workerVars, CancelScope
  <2>6. CASE CancelWriteFlag(i)
    BY <1>2, <2>6 DEF CancelWriteFlag, workerVars, CancelScope
  <2>7. CASE CancelLost(i)
    BY <1>2, <2>7 DEF CancelLost, dbVars, workerVars, CancelScope
  <2>8. QED
    BY <1>3, <2>1, <2>2, <2>3, <2>4, <2>5, <2>6, <2>7 DEF RequestStep
<1>4. ASSUME NEW i \in Items, RetryDelayElapses(i) PROVE ClaimInv'
  <2>1. UNCHANGED <<pc, run, heartbeat, cancelPc>>
    BY <1>4 DEF RetryDelayElapses, workerVars
  <2>2. \A j \in Items : /\ queue'[j].attempts = queue[j].attempts /\ queue'[j].status = queue[j].status
                         /\ queue'[j].claimedBy = queue[j].claimedBy /\ queue'[j].aged = queue[j].aged
    BY <1>4 DEF RetryDelayElapses, QueueRow
  <2>3. QED
    BY <2>1, <2>2, ClaimInvRows DEF CancelScope
<1>5. ASSUME NEW i \in Items, ClaimAges(i) PROVE ClaimInv'
  <2>1. /\ UNCHANGED <<pc, run, heartbeat, cancelPc>>
        /\ ~ \E w \in Workers : pc[w] = "claimed" /\ run[w].item = i
    BY <1>5 DEF ClaimAges, workerVars
  <2>2. \A j \in Items : /\ queue'[j].attempts = queue[j].attempts /\ queue'[j].status = queue[j].status
                         /\ queue'[j].claimedBy = queue[j].claimedBy
                         /\ j # i => queue'[j].aged = queue[j].aged
    BY <1>5 DEF ClaimAges, QueueRow
  <2>3. QED
    BY <2>1, <2>2, ClaimInvRows DEF CancelScope
<1>6. ASSUME UNCHANGED <<queue, heartbeat, cancelPc>>,
             \A w \in Workers : Active(w)' \/ pc'[w] \in {"retry_execution", "retry_queue"} =>
                                pc'[w] = pc[w] /\ run'[w] = run[w]
      PROVE  ClaimInv'
  <2>1. ASSUME NEW w \in Workers, Active(w)'
        PROVE  HoldsClaim(w)'
    <3>1. Active(w) /\ pc'[w] = pc[w] /\ run'[w] = run[w]
      BY <1>6, <2>1 DEF Active
    <3>2. QED
      BY <1>6, <3>1 DEF HoldsClaim
  <2>2. AttemptsLeft' /\ AttemptsBounded' /\ CancelScope'
    BY <1>6 DEF AttemptsLeft, AttemptsBounded, CancelScope
  <2>3. QED
    BY <2>1, <2>2
<1>7. ASSUME NEW p \in Processes, Crash(p) PROVE ClaimInv'
  BY <1>6, <1>7 DEF Crash, Active, dbVars
<1>8. ASSUME NEW p \in Processes, Terminate(p) PROVE ClaimInv'
  BY <1>6, <1>8 DEF Terminate, dbVars, workerVars
<1>9. ASSUME NEW p \in Processes, Restart(p) PROVE ClaimInv'
  BY <1>6, <1>9 DEF Restart, Active, dbVars
<1>10. QED
  BY <1>1, <1>3, <1>4, <1>5, <1>7, <1>8, <1>9 DEF EnvironmentStep

\* ClaimInv is inductive while heartbeats are timely.
LEMMA ClaimStep == HeartbeatsTimely /\ ClaimInv /\ [Next]_vars => ClaimInv'
<1> SUFFICES ASSUME HeartbeatsTimely, ClaimInv, [Next]_vars PROVE ClaimInv'
  OBVIOUS
<1>1. TypeInv /\ TypeInv'
  BY TypeStep DEF ClaimInv
<1>2. ASSUME NEW w \in Workers, WorkerStep(w) PROVE ClaimInv'
  BY <1>1, <1>2, ClaimInvPoll, ClaimInvClaim, WorkerClaimFrame, ClaimInvFrame
<1>3. CASE EnvironmentStep
  BY <1>1, <1>3, ClaimInvEnvironment
<1>4. CASE UNCHANGED vars
  BY <1>1, <1>4, ClaimInvRows DEF vars, ClaimInv, CancelScope
<1>5. QED
  BY <1>2, <1>3, <1>4, NextSplit

\* While heartbeats of live workers are timely, an item is run by one worker at a
\* time and attempted no more often than max_attempts.
THEOREM RunsAreBounded ==
  ASSUME HeartbeatsTimely
  PROVE  Spec => []RunsBounded
<1>1. ClaimInv => OneRunPerItem
  <2> SUFFICES ASSUME ClaimInv, NEW v \in Workers, NEW w \in Workers,
                      Active(v), Active(w), MyItem(v) = MyItem(w)
               PROVE  v = w
    BY DEF OneRunPerItem
  <2>1. HoldsClaim(v) /\ HoldsClaim(w)
    BY DEF ClaimInv
  <2>2. QED
    BY <2>1 DEF HoldsClaim, MyItem
<1>2. ClaimInv => AttemptsBounded
  BY DEF ClaimInv
<1>3. ClaimInv => RunsBounded
  BY <1>1, <1>2 DEF RunsBounded
<1>4. QED
  BY <1>3, ClaimInit, ClaimStep, PTL DEF Spec

-----------------------------------------------------------------------------
(* The executions table and the queue table agree: a running execution can  *)
(* always be found by recovery, and, while no worker process dies, both     *)
(* tables tell the same result.                                             *)

\* A run writes the execution row first and the queue row last; in between the
\* execution row already has the status the queue row is about to tell.
ClosingAgrees(w) ==
  LET s == execution[run[w].item].status
  IN  /\ pc[w] = "retry_queue" => s = "queued"
      /\ pc[w] = "fail_queue" => s = "failed"
      /\ pc[w] = "cancel_queue" => s = "cancelled"
      /\ pc[w] \in {"post", "auto_send", "finish_queue"} => s = run[w].verdict

\* The status that the queue row gets for the status of the execution row.
QueueStatusOf(s) == IF s = "partial" THEN "completed" ELSE s

\* What a step of w, other than polling and claiming, does to the two tables.
TableFrame(w) ==
  /\ \A i \in Items : execution'[i] # execution[i] =>
       /\ Active(w) /\ i = run[w].item
       /\ execution'[i].status = "running" => pc[w] = "start" /\ Active(w)'
  /\ Active(w)' /\ ClosingAgrees(w) => ClosingAgrees(w)'
  /\ \A i \in Items : queue'[i] # queue[i] =>
       \/ pc[w] = "retry_queue" /\ queue'[i].status = "retry_waiting"
       \/ pc[w] = "fail_queue" /\ queue'[i].status = "failed"
       \/ pc[w] = "cancel_queue" /\ queue'[i].status = "cancelled"
       \/ pc[w] = "finish_queue" /\ queue'[i].status = QueueStatusOf(run[w].verdict)
  /\ UNCHANGED queue \/ UNCHANGED execution
  /\ Active(w) /\ ~Active(w)' => queue'[run[w].item] # queue[run[w].item] \/ queue[run[w].item].status # "running"

\* Writing the execution row of the own item respects TableFrame.
LEMMA WriteExecutionTables ==
  ASSUME TypeInv, NEW w \in Workers, NEW from \in Phases, NEW to \in Phases, NEW s \in ExecutionStatus,
         WriteExecution(w, from, to, s),
         from \notin Itemless \cup {"release", "ended"}, to \notin Itemless \cup {"release", "ended"},
         s = "running" => from = "start",
         /\ to = "retry_queue" => s = "queued"
         /\ to = "fail_queue" => s = "failed"
         /\ to = "cancel_queue" => s = "cancelled"
         /\ to \in {"post", "auto_send", "finish_queue"} => s = run[w].verdict
  PROVE  TableFrame(w)
<1> USE DEF WriteExecution, Step, TypeInv, TypeOK, LocalsSet, MyItem
<1>1. run[w].item \in Items /\ pc[w] = from /\ pc'[w] = to /\ run' = run /\ queue' = queue
  OBVIOUS
<1>2. /\ \A i \in Items : i # run[w].item => execution'[i] = execution[i]
      /\ execution'[run[w].item].status = s
  BY <1>1 DEF ExecutionRow
<1>3. Active(w) /\ Active(w)'
  BY <1>1 DEF Active, Itemless
<1>4. ClosingAgrees(w)'
  BY <1>1, <1>2 DEF ClosingAgrees
<1>5. QED
  BY <1>1, <1>2, <1>3, <1>4 DEF TableFrame

\* Writing the queue row with the status the execution row has respects TableFrame.
LEMMA WriteQueueTables ==
  ASSUME TypeInv, NEW w \in Workers, NEW from, NEW s \in QueueStatus,
         WriteQueue(w, from, "release", s), from \notin Itemless \cup {"release", "ended"}, s # "running",
         \/ from = "retry_queue" /\ s = "retry_waiting"
         \/ from = "fail_queue" /\ s = "failed"
         \/ from = "cancel_queue" /\ s = "cancelled"
         \/ from = "finish_queue" /\ s = QueueStatusOf(run[w].verdict)
  PROVE  TableFrame(w)
<1> USE DEF WriteQueue, Step, TypeInv, TypeOK, LocalsSet, MyItem
<1>1. /\ run[w].item \in Items /\ pc[w] = from /\ pc'[w] = "release" /\ run' = run
      /\ execution' = execution
  OBVIOUS
<1>2. /\ \A i \in Items : i # run[w].item => queue'[i] = queue[i]
      /\ queue'[run[w].item] = WithStatus(queue[run[w].item], s)
      /\ queue[run[w].item] \in QueueRow
  BY <1>1
<1>3. queue'[run[w].item].status = s
  BY <1>2, WithStatusType
<1>4. ~Active(w)'
  BY <1>1 DEF Active
<1>5. QED
  BY <1>1, <1>2, <1>3, <1>4 DEF TableFrame

\* Every worker step but polling and claiming respects TableFrame.
LEMMA WorkerTableFrame ==
  ASSUME TypeInv, NEW w \in Workers, WorkerStep(w),
         ~PollAndRecover(w), \A i \in Items : ~Claim(w, i)
  PROVE  TableFrame(w)
<1> USE DEF Phases, Driving, Tails, Itemless, ExecutionStatus, QueueStatus, TerminalExecution,
            TerminalQueue, Claimable
<1>1. run[w] \in RunRecord
  BY DEF TypeInv, TypeOK
<1>2. CASE StartRun(w)
  BY <1>2, WriteExecutionTables DEF StartRun
<1>3. CASE WriteFinal(w)
  <2>1. run[w].verdict \in TerminalExecution
    BY <1>3 DEF WriteFinal, WriteExecution, Step, TypeInv, LocalsSet, Decided
  <2>2. QED
    BY <1>3, <2>1, WriteExecutionTables DEF WriteFinal
<1>4. CASE RetryExecution(w)
  BY <1>4, WriteExecutionTables DEF RetryExecution
<1>5. CASE FailExecution(w)
  BY <1>5, WriteExecutionTables DEF FailExecution
<1>6. CASE CancelExecution(w)
  BY <1>6, WriteExecutionTables DEF CancelExecution
<1>7. CASE FinishQueue(w)
  <2> DEFINE s == QueueStatusOf(run[w].verdict)
  <2>1. s \in TerminalQueue
    BY <1>7 DEF FinishQueue, WriteQueue, Step, TypeInv, LocalsSet, Decided, QueueStatusOf
  <2>2. WriteQueue(w, "finish_queue", "release", s)
    BY <1>7 DEF FinishQueue, QueueStatusOf
  <2> HIDE DEF s
  <2>3. s = QueueStatusOf(run[w].verdict)
    BY DEF s
  <2>4. QED
    BY <2>1, <2>2, <2>3, WriteQueueTables
<1>8. CASE RetryQueue(w)
  BY <1>8, WriteQueueTables DEF RetryQueue
<1>9. CASE FailQueue(w)
  BY <1>9, WriteQueueTables DEF FailQueue
<1>10. CASE CancelQueue(w)
  BY <1>10, WriteQueueTables DEF CancelQueue
<1> USE DEF Step, Move, Note, Beat, TypeInv, TypeOK, LocalsSet, Active, ClosingAgrees, TableFrame, dbVars
<1>11. CASE ClaimNothing(w)
  BY <1>1, <1>11 DEF ClaimNothing
<1>12. CASE HeartbeatRunning(w)
  BY <1>1, <1>12 DEF HeartbeatRunning
<1>13. CASE CheckLogin(w)
  BY <1>1, <1>13 DEF CheckLogin
<1>14. CASE PreflightFails(w)
  BY <1>1, <1>14 DEF PreflightFails
<1>15. CASE RuntimeUnavailable(w)
  BY <1>1, <1>15, WithErrorType DEF RuntimeUnavailable
<1>16. CASE RuntimeBusy(w)
  BY <1>1, <1>16 DEF RuntimeBusy
<1>17. CASE AcquireLocks(w)
  BY <1>1, <1>17 DEF AcquireLocks
<1>18. CASE LoopStep(w)
  BY <1>1, <1>18 DEF LoopStep
<1>19. CASE ProviderReturns(w)
  BY <1>1, <1>19, KeywordResultsType DEF ProviderReturns
<1>20. CASE Outcome(w)
  BY <1>1, <1>20, WithVerdictType DEF Outcome, Verdict
<1>21. CASE PostRun(w)
  BY <1>1, <1>21 DEF PostRun
<1>22. CASE PostRunRaises(w)
  BY <1>1, <1>22, WithErrorType DEF PostRunRaises
<1>23. CASE AutoSend(w)
  BY <1>1, <1>23, WithErrorType DEF AutoSend
<1>24. CASE FinishError(w)
  BY <1>1, <1>24 DEF FinishError
<1>25. CASE RetryDecision(w)
  BY <1>1, <1>25 DEF RetryDecision
<1>26. CASE Release(w)
  BY <1>1, <1>26 DEF Release
<1>27. CASE HeartbeatOnline(w)
  BY <1>1, <1>27 DEF HeartbeatOnline
<1>28. CASE StopWorker(w)
  BY <1>1, <1>28 DEF StopWorker
<1>29. QED
  BY <1>2, <1>3, <1>4, <1>5, <1>6, <1>7, <1>8, <1>9, <1>10, <1>11, <1>12, <1>13, <1>14, <1>15,
     <1>16, <1>17, <1>18, <1>19, <1>20, <1>21, <1>22, <1>23, <1>24, <1>25, <1>26, <1>27, <1>28
     DEF WorkerStep

-----------------------------------------------------------------------------
\* Items of which only enqueue, workers and recovery write the rows.
RunsAgree ==
  \A w \in Workers : Active(w) /\ run[w].item \in Uncancellable => ClosingAgrees(w)

TableInv == ClaimInv /\ RunsAgree /\ RunningIsRecoverable

\* Initially both tables are empty.
LEMMA TableInit == Init => TableInv
<1> SUFFICES ASSUME Init PROVE TableInv
  OBVIOUS
<1>1. \A w \in Workers : ~Active(w)
  BY DEF Init, Active
<1>2. RunningIsRecoverable
  BY DEF Init, RunningIsRecoverable, Uncancellable
<1>3. QED
  BY <1>1, <1>2, ClaimInit DEF TableInv, RunsAgree

\* The facts about active workers that the steps below need.
LEMMA ActiveFacts ==
  ASSUME ClaimInv, NEW v \in Workers, Active(v)
  PROVE  /\ run[v].item \in Items
         /\ HoldsClaim(v)
         /\ \A w \in Workers : Active(w) /\ run[w].item = run[v].item => w = v
<1>1. run[v].item \in Items /\ HoldsClaim(v)
  BY DEF ClaimInv, TypeInv, LocalsSet, Itemless, Active
<1>2. \A w \in Workers : Active(w) => HoldsClaim(w)
  BY DEF ClaimInv
<1>3. QED
  BY <1>1, <1>2 DEF HoldsClaim

\* A step that respects both frames preserves TableInv.
LEMMA TableInvFrame ==
  ASSUME TableInv, ClaimInv', NEW w \in Workers, ClaimFrame(w), TableFrame(w)
  PROVE  TableInv'
<1>1. ClaimInv
  BY DEF TableInv
<1>2. ASSUME NEW v \in Workers, Active(v)', run'[v].item \in Uncancellable
      PROVE  ClosingAgrees(v)'
  <2>1. Active(v) /\ run'[v].item = run[v].item /\ ClosingAgrees(v)
    BY <1>2 DEF ClaimFrame, TableInv, RunsAgree, Active
  <2>2. CASE v = w
    BY <1>2, <2>1, <2>2 DEF TableFrame
  <2>3. CASE v # w
    <3>1. execution'[run[v].item] = execution[run[v].item]
      BY <1>1, <2>1, <2>3, ActiveFacts DEF TableFrame
    <3>2. pc'[v] = pc[v] /\ run'[v] = run[v]
      BY <2>3 DEF ClaimFrame
    <3>3. QED
      BY <2>1, <3>1, <3>2 DEF ClosingAgrees
  <2>4. QED
    BY <2>2, <2>3
<1>3. ASSUME NEW i \in Uncancellable, execution'[i].status = "running"
      PROVE  queue'[i].status = "running"
  <2>1. i \in Items
    BY DEF Uncancellable
  <2>2. CASE execution'[i] # execution[i]
    <3>1. Active(w) /\ Active(w)' /\ i = run[w].item
      BY <1>3, <2>1, <2>2 DEF TableFrame
    <3>2. queue'[i] = queue[i]
      BY <2>1, <3>1 DEF ClaimFrame
    <3>3. QED
      BY <1>1, <3>1, <3>2, ActiveFacts DEF HoldsClaim
  <2>3. CASE execution'[i] = execution[i]
    <3>1. queue[i].status = "running" /\ execution[i].status = "running"
      BY <1>3, <2>3 DEF TableInv, RunningIsRecoverable
    <3>2. CASE queue'[i] = queue[i]
      BY <3>1, <3>2
    <3>3. CASE queue'[i] # queue[i]
      <4>1. Active(w) /\ i = run[w].item
        BY <2>1, <3>3 DEF ClaimFrame
      <4>2. ClosingAgrees(w) /\ pc[w] \in {"retry_queue", "fail_queue", "cancel_queue", "finish_queue"}
        BY <2>1, <3>3, <4>1 DEF TableInv, RunsAgree, TableFrame
      <4>3. pc[w] = "finish_queue" => run[w].verdict # "running"
        BY <1>1 DEF ClaimInv, TypeInv, LocalsSet, Decided, TerminalExecution
      <4>4. QED
        BY <3>1, <4>1, <4>2, <4>3 DEF ClosingAgrees
    <3>4. QED
      BY <3>2, <3>3
  <2>4. QED
    BY <2>2, <2>3
<1>4. QED
  BY <1>2, <1>3 DEF TableInv, RunsAgree, RunningIsRecoverable

\* How recovery and claiming change the two rows of an item.
LEMMA PollRows ==
  ASSUME TypeInv, NEW w \in Workers, PollAndRecover(w), NEW i \in Items
  PROVE  /\ ~Stale(w, i) => queue'[i] = queue[i] /\ execution'[i] = execution[i]
         /\ Stale(w, i) =>
              /\ queue[i].status = "running"
              /\ queue'[i].status = Recovered(i, "retry_waiting")
              /\ IF execution[i].status = "running"
                   THEN execution'[i].status = Recovered(i, "queued")
                   ELSE execution'[i] = execution[i]
<1>1. queue[i] \in QueueRow /\ execution[i] \in ExecutionRow
  BY DEF TypeInv, TypeOK
<1>2. Recovered(i, "retry_waiting") \in QueueStatus
  BY DEF Recovered, QueueStatus, Claimable, TerminalQueue
<1>3. CASE ~Stale(w, i)
  BY <1>3 DEF PollAndRecover
<1>4. CASE Stale(w, i)
  <2>1. queue'[i].status = Recovered(i, "retry_waiting")
    BY <1>1, <1>2, <1>4, WithStatusType DEF PollAndRecover
  <2>2. queue[i].status = "running"
    BY <1>4 DEF Stale
  <2>3. IF execution[i].status = "running"
          THEN execution'[i].status = Recovered(i, "queued")
          ELSE execution'[i] = execution[i]
    BY <1>1, <1>4 DEF PollAndRecover, ExecutionRow
  <2>4. QED
    BY <1>4, <2>1, <2>2, <2>3
<1>5. QED
  BY <1>3, <1>4

\* Recovery moves both rows of an item out of "running" together.
LEMMA TableInvPoll ==
  ASSUME TableInv, ClaimInv', NEW w \in Workers, PollAndRecover(w)
  PROVE  TableInv'
<1>1. ClaimInv /\ TypeInv
  BY DEF TableInv, ClaimInv
<1>2. pc' = [pc EXCEPT ![w] = "claim"] /\ pc[w] = "idle" /\ run' = run
  BY DEF PollAndRecover, Step
<1>3. ASSUME NEW v \in Workers, Active(v)', run'[v].item \in Uncancellable
      PROVE  ClosingAgrees(v)'
  <2>1. v # w /\ Active(v) /\ pc'[v] = pc[v] /\ run'[v] = run[v]
    BY <1>1, <1>2, <1>3 DEF Active, TypeInv, TypeOK
  <2>2. ~Stale(w, run[v].item) /\ run[v].item \in Items
    BY <1>1, <2>1, ActiveIsNotStale, ActiveFacts
  <2>3. execution'[run[v].item] = execution[run[v].item]
    BY <1>1, <2>2, PollRows
  <2>4. QED
    BY <1>3, <2>1, <2>3 DEF TableInv, RunsAgree, ClosingAgrees
<1>4. ASSUME NEW i \in Uncancellable, execution'[i].status = "running"
      PROVE  queue'[i].status = "running"
  <2>1. i \in Items
    BY DEF Uncancellable
  <2>2. ~Stale(w, i)
    BY <1>1, <1>4, <2>1, PollRows DEF Recovered
  <2>3. QED
    BY <1>1, <1>4, <2>1, <2>2, PollRows DEF TableInv, RunningIsRecoverable
<1>5. QED
  BY <1>3, <1>4 DEF TableInv, RunsAgree, RunningIsRecoverable

\* A claim changes the queue row only.
LEMMA TableInvClaim ==
  ASSUME TableInv, ClaimInv', NEW w \in Workers, NEW i \in Items, Claim(w, i)
  PROVE  TableInv'
<1>1. ClaimInv /\ TypeInv
  BY DEF TableInv, ClaimInv
<1>2. /\ pc' = [pc EXCEPT ![w] = "claimed"] /\ execution' = execution
      /\ \A j \in Items : j # i => queue'[j] = queue[j]
      /\ \A v \in Workers : v # w => run'[v] = run[v]
      /\ queue'[i].status = "running"
  <2>1. queue'[i] = ClaimedRow(queue[i], w) /\ queue[i] \in QueueRow
    BY <1>1 DEF Claim, TypeInv, TypeOK
  <2>2. QED
    BY <1>1, <2>1, ClaimedRowType DEF Claim, Step, TypeInv, TypeOK
<1>3. ASSUME NEW v \in Workers, Active(v)', run'[v].item \in Uncancellable
      PROVE  ClosingAgrees(v)'
  <2>1. CASE v = w
    BY <1>1, <1>2, <2>1 DEF ClosingAgrees, TypeInv, TypeOK
  <2>2. CASE v # w
    <3>1. Active(v) /\ pc'[v] = pc[v] /\ run'[v] = run[v]
      BY <1>1, <1>2, <1>3, <2>2 DEF Active, TypeInv, TypeOK
    <3>2. QED
      BY <1>2, <1>3, <3>1 DEF TableInv, RunsAgree, ClosingAgrees
  <2>3. QED
    BY <2>1, <2>2
<1>4. RunningIsRecoverable'
  BY <1>2 DEF TableInv, RunningIsRecoverable, Uncancellable
<1>5. QED
  BY <1>3, <1>4 DEF TableInv, RunsAgree

\* An environment step leaves the rows of uncancellable items alone, but for
\* the two inserts of enqueue and for what no property looks at.
LEMMA EnvironmentRows ==
  ASSUME ClaimInv, EnvironmentStep
  PROVE  /\ \A v \in Workers : Active(v)' => pc'[v] = pc[v] /\ run'[v] = run[v]
         /\ \A i \in Uncancellable :
              /\ \/ execution'[i] = execution[i]
                 \/ execution[i].status = "absent" /\ execution'[i].status = "queued"
              /\ \/ queue'[i].status = queue[i].status
                 \/ queue[i].status = "absent" /\ queue'[i].status = "queued" /\ execution'[i] = execution[i]
<1> USE DEF ClaimInv, TypeInv, TypeOK, Uncancellable
<1>1. \A i \in Items : queue[i] \in QueueRow /\ execution[i] \in ExecutionRow
  OBVIOUS
<1>2. CASE \E w \in Workers : HeartbeatDuringRun(w) \/ HeartbeatExpires(w)
  BY <1>2 DEF HeartbeatDuringRun, HeartbeatExpires, dbVars, workerVars
<1>3. ASSUME NEW j \in Items, RequestStep(j)
      PROVE  /\ UNCHANGED <<pc, run>>
             /\ \A i \in Uncancellable :
                  /\ \/ execution'[i] = execution[i]
                     \/ execution[i].status = "absent" /\ execution'[i].status = "queued"
                  /\ \/ queue'[i].status = queue[i].status
                     \/ queue[i].status = "absent" /\ queue'[i].status = "queued" /\ execution'[i] = execution[i]
  <2>1. CASE InsertExecution(j)
    BY <1>1, <2>1 DEF InsertExecution, workerVars, ExecutionRow
  <2>2. CASE InsertQueueItem(j)
    BY <1>1, <2>2 DEF InsertQueueItem, workerVars, QueueRow
  <2>3. CASE CancelRead(j) \/ CancelLost(j)
    BY <2>3 DEF CancelRead, CancelLost, workerVars, dbVars
  <2>4. CASE CancelWriteQueue(j) \/ CancelWriteExecution(j) \/ CancelWriteFlag(j)
    <3>1. j \in Cancellable
      BY <2>4 DEF CancelScope, CancelWriteQueue, CancelWriteExecution, CancelWriteFlag
    <3>2. QED
      BY <2>4, <3>1 DEF CancelWriteQueue, CancelWriteExecution, CancelWriteFlag, workerVars
  <2>5. QED
    BY <1>3, <2>1, <2>2, <2>3, <2>4 DEF RequestStep
<1>4. ASSUME NEW j \in Items, RetryDelayElapses(j)
      PROVE  UNCHANGED <<pc, run, execution>> /\ \A i \in Items : queue'[i].status = queue[i].status
  BY <1>1, <1>4 DEF RetryDelayElapses, workerVars, QueueRow
<1>5. ASSUME NEW j \in Items, ClaimAges(j)
      PROVE  UNCHANGED <<pc, run, execution>> /\ \A i \in Items : queue'[i].status = queue[i].status
  BY <1>1, <1>5 DEF ClaimAges, workerVars, QueueRow
<1>6. CASE \E p \in Processes : Crash(p)
  BY <1>6 DEF Crash, Active, dbVars
<1>7. CASE \E p \in Processes : Terminate(p)
  BY <1>7 DEF Terminate, workerVars, dbVars
<1>8. CASE \E p \in Processes : Restart(p)
  BY <1>8 DEF Restart, Active, dbVars
<1>9. QED
  BY <1>2, <1>3, <1>4, <1>5, <1>6, <1>7, <1>8 DEF EnvironmentStep

\* The same for a step that changes nothing.
LEMMA TableInvEnvironment ==
  ASSUME TableInv, ClaimInv', EnvironmentStep \/ UNCHANGED vars
  PROVE  TableInv'
<1>1. ClaimInv /\ TypeInv
  BY DEF TableInv, ClaimInv
<1>2. /\ \A v \in Workers : Active(v)' => pc'[v] = pc[v] /\ run'[v] = run[v]
      /\ \A i \in Uncancellable :
           /\ \/ execution'[i] = execution[i]
              \/ execution[i].status = "absent" /\ execution'[i].status = "queued"
           /\ \/ queue'[i].status = queue[i].status
              \/ queue[i].status = "absent" /\ queue'[i].status = "queued" /\ execution'[i] = execution[i]
  BY <1>1, EnvironmentRows DEF vars
<1>3. ASSUME NEW v \in Workers, Active(v)', run'[v].item \in Uncancellable
      PROVE  ClosingAgrees(v)'
  <2>1. Active(v) /\ pc'[v] = pc[v] /\ run'[v] = run[v]
    BY <1>2, <1>3 DEF Active
  <2>2. CASE execution'[run[v].item] = execution[run[v].item]
    BY <1>3, <2>1, <2>2 DEF TableInv, RunsAgree, ClosingAgrees
  <2>3. CASE execution[run[v].item].status = "absent"
    <3>1. ClosingAgrees(v)
      BY <1>3, <2>1 DEF TableInv, RunsAgree
    <3>2. pc[v] \in {"post", "auto_send", "finish_queue"} => run[v].verdict # "absent"
      BY <1>1 DEF TypeInv, LocalsSet, Decided, TerminalExecution
    <3>3. pc[v] \notin {"retry_queue", "fail_queue", "cancel_queue", "post", "auto_send", "finish_queue"}
      BY <2>3, <3>1, <3>2 DEF ClosingAgrees
    <3>4. QED
      BY <2>1, <3>3 DEF ClosingAgrees
  <2>4. QED
    BY <1>2, <1>3, <2>1, <2>2, <2>3
<1>4. RunningIsRecoverable'
  BY <1>2 DEF TableInv, RunningIsRecoverable
<1>5. QED
  BY <1>3, <1>4 DEF TableInv, RunsAgree

\* TableInv is inductive while heartbeats are timely.
LEMMA TableStep == HeartbeatsTimely /\ TableInv /\ [Next]_vars => TableInv'
<1> SUFFICES ASSUME HeartbeatsTimely, TableInv, [Next]_vars PROVE TableInv'
  OBVIOUS
<1>1. ClaimInv /\ ClaimInv' /\ TypeInv
  BY ClaimStep DEF TableInv, ClaimInv
<1>2. ASSUME NEW w \in Workers, WorkerStep(w) PROVE TableInv'
  BY <1>1, <1>2, TableInvPoll, TableInvClaim, TableInvFrame, WorkerClaimFrame, WorkerTableFrame
<1>3. QED
  BY <1>1, <1>2, TableInvEnvironment, NextSplit

\* While heartbeats are timely, recovery can find every execution shown as
\* running, whenever its worker process may die.
THEOREM RunningStaysRecoverable ==
  ASSUME HeartbeatsTimely
  PROVE  Spec => []RunningIsRecoverable
<1>1. TableInv => RunningIsRecoverable
  BY DEF TableInv
<1>2. QED
  BY <1>1, TableInit, TableStep, PTL DEF Spec

-----------------------------------------------------------------------------
(* No worker process dies: both tables tell the same result.               *)

NoDeaths == "crash" \notin Faults

\* Every running queue item is run by a live worker, so recovery finds nothing.
RunningIsRun ==
  \A i \in Uncancellable : queue[i].status = "running" =>
    \E w \in Workers : Active(w) /\ run[w].item = i

AgreeInv == TableInv /\ RunningIsRun /\ TablesAgree

\* Initially no item is running and none has ended.
LEMMA AgreeInit == Init => AgreeInv
  BY TableInit DEF AgreeInv, Init, RunningIsRun, TablesAgree, Uncancellable, TerminalQueue

\* A worker that closes its queue row tells the status of the execution row.
LEMMA AgreeInvFrame ==
  ASSUME AgreeInv, TableInv', NEW w \in Workers, ClaimFrame(w), TableFrame(w)
  PROVE  AgreeInv'
<1>1. ClaimInv /\ TableInv
  BY DEF AgreeInv, TableInv
<1>2. ASSUME NEW i \in Uncancellable, queue'[i].status = "running"
      PROVE  \E v \in Workers : Active(v)' /\ run'[v].item = i
  <2>1. i \in Items
    BY DEF Uncancellable
  <2>2. queue'[i] = queue[i]
    BY <1>2, <2>1 DEF ClaimFrame, TerminalQueue
  <2>3. PICK v \in Workers : Active(v) /\ run[v].item = i
    BY <1>2, <2>2 DEF AgreeInv, RunningIsRun
  <2>4. CASE v = w
    BY <1>2, <2>2, <2>3, <2>4 DEF TableFrame, ClaimFrame
  <2>5. CASE v # w
    BY <2>3, <2>5 DEF ClaimFrame, Active
  <2>6. QED
    BY <2>4, <2>5
<1>3. ASSUME NEW i \in Uncancellable, queue'[i].status \in TerminalQueue
      PROVE  queue'[i].status = QueueStatusOf(execution'[i].status)
  <2>1. i \in Items
    BY DEF Uncancellable
  <2>2. CASE queue'[i] = queue[i]
    <3>1. queue[i].status = QueueStatusOf(execution[i].status)
      BY <1>3, <2>2 DEF AgreeInv, TablesAgree, QueueStatusOf
    <3>2. queue[i].status # "running"
      BY <1>3, <2>2 DEF TerminalQueue
    <3>3. execution'[i] = execution[i]
      <4> SUFFICES ASSUME execution'[i] # execution[i]
                   PROVE  FALSE
        OBVIOUS
      <4>1. Active(w) /\ i = run[w].item
        BY <2>1 DEF TableFrame
      <4>2. HoldsClaim(w)
        BY <1>1, <4>1, ActiveFacts
      <4>3. QED
        BY <1>3, <3>2, <4>1, <4>2 DEF HoldsClaim
    <3>4. QED
      BY <2>2, <3>1, <3>3
  <2>3. CASE queue'[i] # queue[i]
    <3>1. Active(w) /\ i = run[w].item /\ execution' = execution
      BY <2>1, <2>3 DEF ClaimFrame, TableFrame
    <3>2. ClosingAgrees(w)
      BY <1>1, <3>1 DEF TableInv, RunsAgree
    <3>3. QED
      BY <1>3, <2>1, <2>3, <3>1, <3>2 DEF TableFrame, ClosingAgrees, QueueStatusOf, TerminalQueue
  <2>4. QED
    BY <2>2, <2>3
<1>4. QED
  BY <1>2, <1>3 DEF AgreeInv, RunningIsRun, TablesAgree, QueueStatusOf

\* Recovery finds nothing while all workers live.
LEMMA AgreeInvPoll ==
  ASSUME AgreeInv, TableInv', NEW w \in Workers, PollAndRecover(w)
  PROVE  AgreeInv'
<1>1. ClaimInv /\ TypeInv
  BY DEF AgreeInv, TableInv, ClaimInv
<1>2. pc' = [pc EXCEPT ![w] = "claim"] /\ pc[w] = "idle" /\ run' = run
  BY DEF PollAndRecover, Step
<1>3. ASSUME NEW v \in Workers, Active(v)
      PROVE  Active(v)' /\ v # w
  BY <1>1, <1>2, <1>3 DEF Active, TypeInv, TypeOK
<1>4. ASSUME NEW i \in Uncancellable
      PROVE  queue'[i] = queue[i] /\ execution'[i] = execution[i]
  <2>1. ~Stale(w, i)
    <3> SUFFICES ASSUME Stale(w, i) PROVE FALSE
      OBVIOUS
    <3>1. queue[i].status = "running"
      BY DEF Stale
    <3>2. PICK v \in Workers : Active(v) /\ run[v].item = i
      BY <3>1 DEF AgreeInv, RunningIsRun
    <3>3. QED
      BY <1>1, <1>3, <3>2, ActiveIsNotStale
  <2>2. QED
    BY <1>1, <2>1, PollRows DEF Uncancellable
<1>5. QED
  BY <1>2, <1>3, <1>4 DEF AgreeInv, RunningIsRun, TablesAgree

\* The claimed item is run by its claimer.
LEMMA AgreeInvClaim ==
  ASSUME AgreeInv, TableInv', NEW w \in Workers, NEW i \in Items, Claim(w, i)
  PROVE  AgreeInv'
<1>1. ClaimInv /\ TypeInv
  BY DEF AgreeInv, TableInv, ClaimInv
<1>2. /\ pc' = [pc EXCEPT ![w] = "claimed"] /\ pc[w] = "claim" /\ execution' = execution
      /\ \A j \in Items : j # i => queue'[j] = queue[j]
      /\ \A v \in Workers : v # w => run'[v] = run[v]
  BY <1>1 DEF Claim, Step, TypeInv, TypeOK
<1>3. queue'[i].status = "running" /\ run'[w].item = i
  <2>1. /\ queue'[i] = ClaimedRow(queue[i], w) /\ queue[i] \in QueueRow
        /\ run'[w] = FreshRun(i, queue[i].attempts + 1)
    BY <1>1 DEF Claim, TypeInv, TypeOK
  <2>2. queue[i].attempts + 1 \in Nat
    BY <2>1 DEF QueueRow
  <2>3. queue'[i].status = "running"
    <3>1. ClaimedRow(queue[i], w).status = "running"
      BY <2>1, ClaimedRowType
    <3>2. QED
      BY <2>1, <3>1
  <2>4. run'[w].item = i
    BY <2>1, <2>2, FreshRunType
  <2>5. QED
    BY <2>3, <2>4
<1>4. Active(w)' /\ \A v \in Workers : Active(v) => Active(v)' /\ v # w
  BY <1>1, <1>2 DEF Active, TypeInv, TypeOK
<1>5. ASSUME NEW j \in Uncancellable, queue'[j].status = "running"
      PROVE  \E v \in Workers : Active(v)' /\ run'[v].item = j
  <2>1. CASE j = i
    BY <1>3, <1>4, <2>1
  <2>2. CASE j # i
    BY <1>2, <1>4, <1>5, <2>2 DEF AgreeInv, RunningIsRun, Uncancellable
  <2>3. QED
    BY <2>1, <2>2
<1>6. TablesAgree'
  BY <1>2, <1>3 DEF AgreeInv, TablesAgree, Uncancellable, TerminalQueue
<1>7. QED
  BY <1>5, <1>6 DEF AgreeInv, RunningIsRun

\* Requests, time and orderly stops leave running and ended items alone.
LEMMA AgreeInvEnvironment ==
  ASSUME AgreeInv, TableInv', NoDeaths, EnvironmentStep \/ UNCHANGED vars
  PROVE  AgreeInv'
<1>1. ClaimInv /\ TypeInv
  BY DEF AgreeInv, TableInv, ClaimInv
<1>2. \A i \in Uncancellable :
        /\ \/ execution'[i] = execution[i]
           \/ execution[i].status = "absent" /\ execution'[i].status = "queued"
        /\ \/ queue'[i].status = queue[i].status
           \/ queue[i].status = "absent" /\ queue'[i].status = "queued" /\ execution'[i] = execution[i]
  BY <1>1, EnvironmentRows DEF vars
<1>3. UNCHANGED run /\ \A v \in Workers : Active(v) => Active(v)'
  <2>1. ASSUME UNCHANGED <<pc, run>> PROVE UNCHANGED run /\ \A v \in Workers : Active(v) => Active(v)'
    BY <2>1 DEF Active
  <2>2. CASE \E w \in Workers : HeartbeatDuringRun(w) \/ HeartbeatExpires(w)
    BY <2>1, <2>2 DEF HeartbeatDuringRun, HeartbeatExpires, workerVars
  <2>3. CASE \E i \in Items : RequestStep(i) \/ RetryDelayElapses(i) \/ ClaimAges(i)
    BY <2>1, <2>3 DEF RequestStep, InsertExecution, InsertQueueItem, CancelRead, CancelWriteQueue,
       CancelWriteExecution, CancelWriteFlag, CancelLost, RetryDelayElapses, ClaimAges, workerVars
  <2>4. CASE \E p \in Processes : Crash(p)
    BY <2>4 DEF Crash, NoDeaths
  <2>5. CASE \E p \in Processes : Terminate(p)
    BY <2>1, <2>5 DEF Terminate, workerVars
  <2>6. CASE \E p \in Processes : Restart(p)
    BY <1>1, <2>6 DEF Restart, Active, TypeInv, TypeOK
  <2>7. CASE UNCHANGED vars
    BY <2>1, <2>7 DEF vars
  <2>8. QED
    BY <2>2, <2>3, <2>4, <2>5, <2>6, <2>7 DEF EnvironmentStep
<1>4. RunningIsRun'
  BY <1>2, <1>3 DEF AgreeInv, RunningIsRun
<1>5. ASSUME NEW i \in Uncancellable, queue'[i].status \in TerminalQueue
      PROVE  queue'[i].status = QueueStatusOf(execution'[i].status)
  <2>1. queue'[i].status = queue[i].status /\ queue[i].status \in TerminalQueue
    BY <1>2, <1>5 DEF TerminalQueue
  <2>2. queue[i].status = QueueStatusOf(execution[i].status)
    BY <2>1 DEF AgreeInv, TablesAgree, QueueStatusOf
  <2>3. execution'[i] = execution[i]
    BY <1>2, <2>1, <2>2 DEF QueueStatusOf, TerminalQueue
  <2>4. QED
    BY <2>1, <2>2, <2>3
<1>6. QED
  BY <1>4, <1>5 DEF AgreeInv, TablesAgree, QueueStatusOf

\* AgreeInv is inductive while heartbeats are timely and no process dies.
LEMMA AgreeStep == HeartbeatsTimely /\ NoDeaths /\ AgreeInv /\ [Next]_vars => AgreeInv'
<1> SUFFICES ASSUME HeartbeatsTimely, NoDeaths, AgreeInv, [Next]_vars PROVE AgreeInv'
  OBVIOUS
<1>1. TypeInv /\ TableInv'
  BY TableStep DEF AgreeInv, TableInv, ClaimInv
<1>2. ASSUME NEW w \in Workers, WorkerStep(w) PROVE AgreeInv'
  BY <1>1, <1>2, AgreeInvPoll, AgreeInvClaim, AgreeInvFrame, WorkerClaimFrame, WorkerTableFrame
<1>3. QED
  BY <1>1, <1>2, AgreeInvEnvironment, NextSplit

\* While heartbeats are timely and no worker process dies, a finished queue item
\* tells the result that its execution tells.
THEOREM TablesTellTheSame ==
  ASSUME HeartbeatsTimely, NoDeaths
  PROVE  Spec => []TablesAgree
<1>1. AgreeInv => TablesAgree
  BY DEF AgreeInv
<1>2. QED
  BY <1>1, AgreeInit, AgreeStep, PTL DEF Spec

-----------------------------------------------------------------------------
(* The queue implements the abstract job life cycle while heartbeats are    *)
(* timely.                                                                  *)

\* What one step of the queue may do to the row of item i.
RowRests(i)   == /\ Phase(queue'[i].status) = Phase(queue[i].status)
                 /\ queue'[i].attempts = queue[i].attempts
RowInserted(i) == /\ queue[i].status = "absent" /\ queue'[i].status = "queued"
                  /\ queue'[i].attempts = queue[i].attempts
RowClaimed(i) == /\ queue[i].status \in Claimable /\ queue'[i].status = "running"
                 /\ queue[i].attempts < MaxAttempts
                 /\ queue'[i].attempts = queue[i].attempts + 1
RowReturned(i) == /\ queue[i].status = "running" /\ queue'[i].status = "retry_waiting"
                  /\ queue[i].attempts < MaxAttempts
                  /\ queue'[i].attempts = queue[i].attempts
RowClosed(i)  == /\ queue[i].status = "running" /\ queue'[i].status \in TerminalQueue
                 /\ queue'[i].attempts = queue[i].attempts

RowSteps(i) == RowRests(i) \/ RowInserted(i) \/ RowClaimed(i) \/ RowReturned(i) \/ RowClosed(i)

\* A worker step is a step of the job lifecycle for the row of every item.
LEMMA WorkerRowSteps ==
  ASSUME ClaimInv, NEW w \in Workers, WorkerStep(w), NEW i \in Uncancellable
  PROVE  RowSteps(i)
<1> USE DEF ClaimInv
<1>1. i \in Items /\ queue[i] \in QueueRow
  BY DEF Uncancellable, TypeInv, TypeOK
<1>2. CASE PollAndRecover(w)
  <2>1. Recovered(i, "retry_waiting") \in QueueStatus
    BY DEF Recovered, QueueStatus, Claimable, TerminalQueue
  <2>2. CASE ~Stale(w, i)
    BY <1>1, <1>2, <2>2 DEF PollAndRecover, RowSteps, RowRests
  <2>3. CASE Stale(w, i)
    <3>1. /\ queue'[i].status = Recovered(i, "retry_waiting")
          /\ queue'[i].attempts = queue[i].attempts
      BY <1>1, <1>2, <2>1, <2>3, WithStatusType DEF PollAndRecover
    <3>2. queue[i].status = "running"
      BY <2>3 DEF Stale
    <3>3. QED
      BY <3>1, <3>2 DEF Recovered, RowSteps, RowReturned, RowClosed, TerminalQueue
  <2>4. QED
    BY <2>2, <2>3
<1>3. CASE \E j \in Items : Claim(w, j)
  <2> PICK j \in Items : Claim(w, j)
    BY <1>3
  <2>1. CASE i # j
    BY <1>1, <2>1 DEF Claim, RowSteps, RowRests, TypeInv, TypeOK
  <2>2. CASE i = j
    <3>1. queue'[i] = ClaimedRow(queue[i], w)
      BY <1>1, <2>2 DEF Claim, TypeInv, TypeOK
    <3>2. /\ ClaimedRow(queue[i], w).status = "running"
          /\ ClaimedRow(queue[i], w).attempts = queue[i].attempts + 1
      BY <1>1, ClaimedRowType
    <3>3. queue[i].status \in Claimable /\ queue[i].attempts < MaxAttempts
      BY <1>1, <2>2 DEF Claim, Waiting, AttemptsLeft
    <3>4. QED
      BY <3>1, <3>2, <3>3 DEF RowSteps, RowClaimed
  <2>3. QED
    BY <2>1, <2>2
<1>4. CASE ~PollAndRecover(w) /\ \A j \in Items : ~Claim(w, j)
  <2>1. ClaimFrame(w)
    BY <1>4, WorkerClaimFrame
  <2>2. CASE queue'[i] = queue[i]
    BY <2>2 DEF RowSteps, RowRests
  <2>3. CASE queue'[i] # queue[i]
    <3>1. /\ HoldsClaim(w) /\ i = run[w].item
          /\ queue'[i].attempts = queue[i].attempts
          /\ queue'[i].status \in TerminalQueue \cup {"retry_waiting"}
          /\ queue'[i].status = "retry_waiting" => pc[w] = "retry_queue"
      BY <1>1, <2>1, <2>3 DEF ClaimFrame
    <3>2. queue[i].status = "running" /\ queue[i].attempts = run[w].attempts
      BY <3>1 DEF HoldsClaim
    <3>3. CASE queue'[i].status = "retry_waiting"
      BY <3>1, <3>2, <3>3 DEF AttemptsLeft, RowSteps, RowReturned
    <3>4. CASE queue'[i].status \in TerminalQueue
      BY <3>1, <3>2, <3>4 DEF RowSteps, RowClosed
    <3>5. QED
      BY <3>1, <3>3, <3>4
  <2>4. QED
    BY <2>2, <2>3
<1>5. QED
  BY <1>2, <1>3, <1>4

\* So is a step of requests, time or processes.
LEMMA EnvironmentRowSteps ==
  ASSUME ClaimInv, EnvironmentStep, NEW i \in Uncancellable
  PROVE  RowSteps(i)
<1> USE DEF ClaimInv, TypeInv, TypeOK
<1>1. i \in Items /\ queue[i] \in QueueRow
  BY DEF Uncancellable
<1>2. ASSUME queue'[i] = queue[i] PROVE RowSteps(i)
  BY <1>2 DEF RowSteps, RowRests
<1>3. ASSUME NEW w \in Workers, HeartbeatDuringRun(w) \/ HeartbeatExpires(w) PROVE RowSteps(i)
  BY <1>2, <1>3 DEF HeartbeatDuringRun, HeartbeatExpires, dbVars
<1>4. ASSUME NEW j \in Items, RequestStep(j) PROVE RowSteps(i)
  <2>1. CASE InsertQueueItem(j)
    <3>1. CASE i # j
      BY <1>1, <1>2, <2>1, <3>1 DEF InsertQueueItem
    <3>2. CASE i = j
      BY <1>1, <2>1, <3>2 DEF InsertQueueItem, QueueRow, RowSteps, RowInserted
    <3>3. QED
      BY <3>1, <3>2
  <2>2. CASE CancelWriteQueue(j)
    <3>1. i # j
      BY <2>2 DEF CancelWriteQueue, CancelScope, Uncancellable
    <3>2. QED
      BY <1>1, <1>2, <2>2, <3>1 DEF CancelWriteQueue
  <2>3. CASE ~InsertQueueItem(j) /\ ~CancelWriteQueue(j)
    BY <1>2, <1>4, <2>3 DEF RequestStep, InsertExecution, CancelRead, CancelWriteExecution,
       CancelWriteFlag, CancelLost, dbVars
  <2>4. QED
    BY <2>1, <2>2, <2>3
<1>5. ASSUME NEW j \in Items, RetryDelayElapses(j) \/ ClaimAges(j) PROVE RowSteps(i)
  <2>1. queue'[i].status = queue[i].status /\ queue'[i].attempts = queue[i].attempts
    <3>1. CASE RetryDelayElapses(j)
      BY <1>1, <3>1 DEF RetryDelayElapses, QueueRow
    <3>2. CASE ClaimAges(j)
      BY <1>1, <3>2 DEF ClaimAges, QueueRow
    <3>3. QED
      BY <1>5, <3>1, <3>2
  <2>2. QED
    BY <2>1 DEF RowSteps, RowRests
<1>6. ASSUME NEW p \in Processes, Crash(p) \/ Terminate(p) \/ Restart(p) PROVE RowSteps(i)
  BY <1>2, <1>6 DEF Crash, Terminate, Restart, dbVars
<1>7. QED
  BY <1>3, <1>4, <1>5, <1>6 DEF EnvironmentStep

\* The empty queue is the initial state of the job lifecycle.
LEMMA RefinementInit == Init => Lifecycle!Init
  BY DEF Init, Lifecycle!Init, Phase, Claimable, Uncancellable

\* Under the refinement mapping every step is a lifecycle step or a stutter.
LEMMA RefinementStep ==
  ASSUME ClaimInv, [Next]_vars
  PROVE  Lifecycle!Next
<1>1. ASSUME NEW i \in Uncancellable PROVE RowSteps(i)
  <2>1. CASE UNCHANGED vars
    BY <2>1 DEF vars, RowSteps, RowRests
  <2>2. CASE Next
    BY <1>1, <2>2, NextSplit, WorkerRowSteps, EnvironmentRowSteps
  <2>3. QED
    BY <2>1, <2>2
<1>2. ASSUME NEW i \in Uncancellable
      PROVE  Lifecycle!Submit(i) \/ Lifecycle!Start(i) \/ Lifecycle!GiveBack(i) \/ Lifecycle!Finish(i) \/ Lifecycle!Rest(i)
  <2>1. CASE RowRests(i)
    BY <1>2, <2>1 DEF RowRests, Lifecycle!Rest
  <2>2. CASE RowInserted(i)
    BY <1>2, <2>2 DEF RowInserted, Lifecycle!Submit, Phase, Claimable
  <2>3. CASE RowClaimed(i)
    BY <1>2, <2>3 DEF RowClaimed, Lifecycle!Start, Phase, Claimable
  <2>4. CASE RowReturned(i)
    BY <1>2, <2>4 DEF RowReturned, Lifecycle!GiveBack, Phase, Claimable
  <2>5. CASE RowClosed(i)
    BY <1>2, <2>5 DEF RowClosed, Lifecycle!Finish, Lifecycle!Finished, Phase, Claimable, TerminalQueue
  <2>6. QED
    BY <1>1, <1>2, <2>1, <2>2, <2>3, <2>4, <2>5 DEF RowSteps
<1>3. QED
  BY <1>2 DEF Lifecycle!Next

\* The queue items of uncancellable executions go through the life of a job.
THEOREM QueueImplementsJobLifecycle ==
  ASSUME HeartbeatsTimely
  PROVE  Spec => ImplementsJobLifecycle
<1>1. Init => Lifecycle!Init
  BY RefinementInit
<1>2. ClaimInv /\ [Next]_vars => Lifecycle!Next
  BY RefinementStep
<1>3. QED
  BY <1>1, <1>2, ClaimInit, ClaimStep, PTL DEF Spec, ImplementsJobLifecycle, Lifecycle!Spec

=============================================================================
