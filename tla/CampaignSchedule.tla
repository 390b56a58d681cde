--------------------------- MODULE CampaignSchedule ---------------------------
(***************************************************************************)
(* Campaign schedules: the scheduler that enqueues what is due             *)
(* (src/facebook_leads/saas/scheduler.py), the guards and inserts of       *)
(* enqueue_campaign_execution (service.py), which API requests for a       *)
(* manual run or a retry go through as well, and the users and             *)
(* administrators who edit schedules, campaigns and tenants meanwhile.     *)
(*                                                                         *)
(* Time is counted in minutes, the precision of a trigger key.  The queue  *)
(* is seen from the enqueuing side: how ExecutionQueue moves an item on is *)
(* the business of the workers' actions at the end of Next.                *)
(***************************************************************************)
EXTENDS Naturals, FiniteSets

CONSTANTS
  Campaigns, Tenants, TenantOf,
  Schedulers,      \* scheduler processes
  Requests,        \* API requests that are served at the same time
  Settings,        \* what a user may ask of a schedule
  QueueLimit,      \* max_queued_executions_per_tenant
  ExecutionQuota,  \* max_monthly_executions of a tenant's plan
  RetryDelay,      \* queue_full_retry_minutes
  Day,             \* minutes of a day
  FoldAt, Fold,    \* the moment (UTC) the clocks go back, and by how much
  Horizon,         \* bound on time
  MaxItems,        \* bound on executions
  MaxEdits,        \* bound on edits and requests by users and administrators
  Editable,        \* what they edit or ask for
  MaxCrashes,      \* bound on crashes of a scheduler or of the API process
  Never, Nobody

Items  == 1..MaxItems
Manual == [kind |-> "manual", n |-> 0]
Actors == Schedulers \cup Requests

ASSUME TenantAssumption   == TenantOf \in [Campaigns -> Tenants]
ASSUME ActorsAssumption   == Schedulers \cap Requests = {} /\ IsFiniteSet(Actors)
\* An interval is at least a minute; a daily time is a minute of the day.
ASSUME SettingsAssumption ==
  Settings \subseteq [kind : {"interval"}, n : Nat \ {0}] \cup [kind : {"daily"}, n : 0..(Day - 1)]
ASSUME DelayAssumption    == RetryDelay \in Nat \ {0}
ASSUME DayAssumption      == Day \in Nat \ {0}
ASSUME ZoneAssumption     == Fold \in Nat /\ FoldAt \in Nat /\ Fold <= FoldAt
ASSUME BoundsAssumption   ==
  /\ Horizon \in Nat /\ MaxItems \in Nat /\ MaxEdits \in Nat /\ MaxCrashes \in Nat
  /\ QueueLimit \in Nat \ {0} /\ ExecutionQuota \in Nat
ASSUME EditableAssumption == Editable \subseteq {"run", "put", "disable", "status", "keywords", "suspend"}
ASSUME NullsAssumption    == Never \notin Nat /\ Nobody \notin Campaigns

VARIABLES
  now,        \* the clock, UTC
  schedule,   \* campaign_schedules rows
  campaign,   \* campaigns: status "active" or not, any enabled keyword or none
  suspended,  \* tenants whose status is "suspended"
  item,       \* executions, each with its queue item
  pc,         \* where each scheduler and each request is
  job,        \* what it holds in its local variables
  edits, crashes

editVars == <<schedule, campaign, suspended, edits>>
vars == <<now, schedule, campaign, suspended, item, pc, job, edits, crashes>>

Minute  == Nat \cup {Never}
Setting == Settings \cup {Manual}

ScheduleRow == [enabled : BOOLEAN, setting : Setting, next : Minute, last : Minute]
\* A row as a scan returned it.
Due         == [campaign : Campaigns, setting : Setting, next : Nat]
\* "execution": without a queue item yet.  "queued": waiting since it was enqueued.
\* "retry": retry_waiting, put back by its worker or by the recovery of another's.
\* "done": completed or partial.  "failed": failed, cancelled, or partial after
\* an error that may be retried.
ItemState   == {"absent", "execution", "queued", "retry", "taken", "done", "failed"}
Item        == [state : ItemState, campaign : Campaigns \cup {Nobody}, key : Minute, at : Minute]
Phases      == {"idle", "tick", "execution", "queue", "advance", "defer",
                "accepted", "refused", "raised"}
Job         == [batch : SUBSET Due, campaign : Campaigns \cup {Nobody}, setting : Setting,
                key : Minute, retry : BOOLEAN, item : Items \cup {0}]

NoItem == [state |-> "absent", campaign |-> Nobody, key |-> Never, at |-> Never]
NoJob  == [batch |-> {}, campaign |-> Nobody, setting |-> Manual, key |-> Never,
           retry |-> FALSE, item |-> 0]

TypeOK ==
  /\ now \in 0..Horizon
  /\ schedule \in [Campaigns -> ScheduleRow]
  /\ campaign \in [Campaigns -> [active : BOOLEAN, keywords : BOOLEAN]]
  /\ suspended \subseteq Tenants
  /\ item \in [Items -> Item]
  /\ pc \in [Actors -> Phases]
  /\ job \in [Actors -> Job]
  /\ edits \in 0..MaxEdits /\ crashes \in 0..MaxCrashes

-----------------------------------------------------------------------------
(* _compute_next_run.  The zone is ahead of UTC by Fold until FoldAt, and  *)
(* equal to UTC from then on: the Fold minutes before FoldAt are shown     *)
(* twice.  Wall-clock times are compared as such, and a time shown twice   *)
(* is converted to its first occurrence (fold=0).                          *)

Local(t) == IF t < FoldAt THEN t + Fold ELSE t
ToUTC(l) == IF l < FoldAt + Fold THEN l - Fold ELSE l

\* Mutant of NextDaily: a time that is now is taken for a future one.
NextDailyNow(minute, t) ==
  LET candidate == (Local(t) \div Day) * Day + minute
  IN  ToUTC(IF candidate < Local(t) THEN candidate + Day ELSE candidate)

NextDaily(minute, t) ==
  LET candidate == (Local(t) \div Day) * Day + minute
  IN  ToUTC(IF candidate <= Local(t) THEN candidate + Day ELSE candidate)

NextRun(s, t) ==
  CASE s.kind = "manual"   -> Never
    [] s.kind = "interval" -> t + s.n
    [] s.kind = "daily"    -> NextDaily(s.n, t)

-----------------------------------------------------------------------------
(* The guards of enqueue_campaign_execution, in their order.               *)

IsQueueItem(i) == item[i].state \in {"queued", "retry", "taken", "done", "failed"}
IsExecution(i) == item[i].state = "execution" \/ IsQueueItem(i)
OfTenant(t)    == {i \in Items : item[i].campaign \in Campaigns /\ TenantOf[item[i].campaign] = t}
Used(t)        == {i \in OfTenant(t) : IsExecution(i)}
Waiting(t)     == {i \in OfTenant(t) : item[i].state \in {"queued", "retry"}}

\* A trigger key names the campaign and the minute; manual runs have none.
Enqueued(c, key) ==
  key # Never /\ \E i \in Items : IsQueueItem(i) /\ item[i].campaign = c /\ item[i].key = key

\* Mutant of QueueFull: one execution too many waits.
QueueFullLate(t) == Cardinality(Waiting(t)) > QueueLimit

QueueFull(t) == Cardinality(Waiting(t)) >= QueueLimit

Verdict(c, key) ==
  IF TenantOf[c] \in suspended THEN "tenant_suspended"
  ELSE IF Cardinality(Used(TenantOf[c])) + 1 > ExecutionQuota THEN "quota_exceeded"
  ELSE IF Enqueued(c, key) THEN "already_enqueued"
  ELSE IF QueueFull(TenantOf[c]) THEN "queue_limit_reached"
  ELSE IF ~campaign[c].keywords THEN "no_enabled_keyword"
  ELSE "ok"

Init ==
  /\ now = 0
  /\ \E s \in [Campaigns -> Settings] :
       schedule = [c \in Campaigns |-> [enabled |-> TRUE, setting |-> s[c],
                                        next |-> NextRun(s[c], 0), last |-> Never]]
  /\ campaign = [c \in Campaigns |-> [active |-> TRUE, keywords |-> TRUE]]
  /\ suspended = {}
  /\ item = [i \in Items |-> NoItem]
  /\ pc = [a \in Actors |-> "idle"]
  /\ job = [a \in Actors |-> NoJob]
  /\ edits = 0
  /\ crashes = 0

-----------------------------------------------------------------------------
(* The scheduler.  A tick scans once and then works on the rows it has     *)
(* read, the earliest first, whatever happens to them meanwhile.           *)

\* Mutant of IsDue: a disabled schedule is told by its next_run_at only.
IsDueByTime(c) ==
  /\ schedule[c].next # Never
  /\ schedule[c].next <= now
  /\ campaign[c].active

IsDue(c) ==
  /\ schedule[c].enabled
  /\ schedule[c].next # Never
  /\ schedule[c].next <= now
  /\ campaign[c].active

DueRow(c) == [campaign |-> c, setting |-> schedule[c].setting, next |-> schedule[c].next]

Earliest(batch) == {d \in batch : \A e \in batch : d.next <= e.next}

\* Mutants of SchedulerAfter: a full queue is no reason to come back early; the
\* duplicate of a crashed enqueue is an error.
SchedulerAfterFull ==
  [ok |-> "execution", already_enqueued |-> "advance", quota_exceeded |-> "advance",
   queue_limit_reached |-> "advance", tenant_suspended |-> "raised", no_enabled_keyword |-> "raised"]
SchedulerAfterCrash ==
  [ok |-> "execution", already_enqueued |-> "raised", quota_exceeded |-> "advance",
   queue_limit_reached |-> "defer", tenant_suspended |-> "raised", no_enabled_keyword |-> "raised"]

\* What the scheduler does with each result of enqueue_execution; the results
\* that are exceptions it does not know end the tick.
SchedulerAfter ==
  [ok |-> "execution", already_enqueued |-> "advance", quota_exceeded |-> "advance",
   queue_limit_reached |-> "defer", tenant_suspended |-> "raised", no_enabled_keyword |-> "raised"]

Scan(s) ==
  /\ pc[s] = "idle"
  /\ \E c \in Campaigns : IsDue(c)
  /\ pc' = [pc EXCEPT ![s] = "tick"]
  /\ job' = [job EXCEPT ![s].batch = {DueRow(c) : c \in {x \in Campaigns : IsDue(x)}}]
  /\ UNCHANGED <<now, item, crashes, editVars>>

CheckDue(s) ==
  /\ pc[s] = "tick"
  /\ \E d \in Earliest(job[s].batch) :
       /\ job' = [job EXCEPT ![s] = [NoJob EXCEPT !.batch = job[s].batch \ {d},
                    !.campaign = d.campaign, !.setting = d.setting, !.key = d.next]]
       /\ pc' = [pc EXCEPT ![s] = SchedulerAfter[Verdict(d.campaign, d.next)]]
  /\ UNCHANGED <<now, item, crashes, editVars>>

\* The loop goes on with the next row of the batch, or the tick is over.
NextRow(s) ==
  /\ pc' = [pc EXCEPT ![s] = IF job[s].batch = {} THEN "idle" ELSE "tick"]
  /\ job' = [job EXCEPT ![s] = [NoJob EXCEPT !.batch = job[s].batch]]
  /\ UNCHANGED <<now, campaign, suspended, edits, item, crashes>>

\* Mutant of UpdateNextRun: the next run is counted from the planned time.
UpdateNextRunFromPlan(s) ==
  /\ pc[s] = "advance"
  /\ schedule' = [schedule EXCEPT ![job[s].campaign].last = now,
                                  ![job[s].campaign].next = NextRun(job[s].setting, job[s].key)]
  /\ NextRow(s)

\* Mutant of UpdateNextRun: the row that was scanned is written back as a whole.
UpdateNextRunWholeRow(s) ==
  /\ pc[s] = "advance"
  /\ schedule' = [schedule EXCEPT ![job[s].campaign] =
                     [enabled |-> TRUE, setting |-> job[s].setting, last |-> now,
                      next |-> NextRun(job[s].setting, now)]]
  /\ NextRow(s)

\* update_next_run, from the setting that was scanned.
UpdateNextRun(s) ==
  /\ pc[s] = "advance"
  /\ schedule' = [schedule EXCEPT ![job[s].campaign].last = now,
                                  ![job[s].campaign].next = NextRun(job[s].setting, now)]
  /\ NextRow(s)

DeferQueueFull(s) ==
  /\ pc[s] = "defer"
  /\ schedule' = [schedule EXCEPT ![job[s].campaign].next = now + RetryDelay]
  /\ NextRow(s)

\* main catches what tick raised, records it and waits for the next poll.
TickRaises(s) ==
  /\ pc[s] = "raised"
  /\ pc' = [pc EXCEPT ![s] = "idle"]
  /\ job' = [job EXCEPT ![s] = NoJob]
  /\ UNCHANGED <<now, item, crashes, editVars>>

-----------------------------------------------------------------------------
(* API requests for a manual run (run_campaign) or a retry of an execution *)
(* (retry_execution).  They are bounded together with the edits of users.  *)

Edit(what) == what \in Editable /\ edits < MaxEdits /\ edits' = edits + 1

Request(r) ==
  /\ pc[r] = "idle" /\ Edit("run")
  /\ \E c \in Campaigns, retry \in BOOLEAN :
       /\ retry => \E i \in Items : item[i].campaign = c /\ item[i].state = "failed"
       /\ job' = [job EXCEPT ![r] = [NoJob EXCEPT !.campaign = c, !.retry = retry]]
       /\ pc' = [pc EXCEPT ![r] = IF Verdict(c, Never) = "ok" THEN "execution" ELSE "refused"]
  /\ UNCHANGED <<now, schedule, campaign, suspended, item, crashes>>

Respond(r) ==
  /\ pc[r] \in {"accepted", "refused", "raised"}
  /\ pc' = [pc EXCEPT ![r] = "idle"]
  /\ job' = [job EXCEPT ![r] = NoJob]
  /\ UNCHANGED <<now, item, crashes, editVars>>

-----------------------------------------------------------------------------
(* The two inserts of enqueue_campaign_execution, for whoever called it.   *)

InsertExecution(a) ==
  /\ pc[a] = "execution"
  /\ \E i \in Items :
       /\ item[i].state = "absent" /\ \A j \in 1..(i - 1) : item[j].state # "absent"
       /\ item' = [item EXCEPT ![i].state = "execution", ![i].campaign = job[a].campaign]
       /\ job' = [job EXCEPT ![a].item = i]
  /\ pc' = [pc EXCEPT ![a] = "queue"]
  /\ UNCHANGED <<now, crashes, editVars>>

\* Mutant of InsertQueueItem: trigger keys are not unique in the table.
InsertQueueItemAlways(a) ==
  /\ pc[a] = "queue"
  /\ item' = [item EXCEPT ![job[a].item].state = "queued", ![job[a].item].key = job[a].key,
                          ![job[a].item].at = now]
  /\ pc' = [pc EXCEPT ![a] = IF a \in Schedulers THEN "advance" ELSE "accepted"]
  /\ UNCHANGED <<now, job, crashes, editVars>>

\* retry_execution goes on to read "execution_id" of an executions row, which
\* has none.
InsertQueueItem(a) ==
  /\ pc[a] = "queue"
  /\ ~Enqueued(job[a].campaign, job[a].key)
  /\ item' = [item EXCEPT ![job[a].item].state = "queued", ![job[a].item].key = job[a].key,
                          ![job[a].item].at = now]
  /\ pc' = [pc EXCEPT ![a] = IF a \in Schedulers THEN "advance"
                             ELSE IF job[a].retry THEN "raised" ELSE "accepted"]
  /\ UNCHANGED <<now, job, crashes, editVars>>

\* Mutant of InsertIsDuplicate: the execution stays.
InsertIsDuplicateKept(a) ==
  /\ pc[a] = "queue"
  /\ Enqueued(job[a].campaign, job[a].key)
  /\ pc' = [pc EXCEPT ![a] = "advance"]
  /\ UNCHANGED <<now, item, job, crashes, editVars>>

\* The unique trigger key refuses the queue item; its execution is deleted.
InsertIsDuplicate(a) ==
  /\ pc[a] = "queue"
  /\ Enqueued(job[a].campaign, job[a].key)
  /\ item' = [item EXCEPT ![job[a].item] = NoItem]
  /\ pc' = [pc EXCEPT ![a] = "advance"]
  /\ UNCHANGED <<now, job, crashes, editVars>>

\* A crash of a scheduler, or of the API while it serves request a.
Crash(a) ==
  /\ pc[a] # "idle"
  /\ crashes < MaxCrashes
  /\ crashes' = crashes + 1
  /\ pc' = [pc EXCEPT ![a] = "idle"]
  /\ job' = [job EXCEPT ![a] = NoJob]
  /\ UNCHANGED <<now, item, editVars>>

-----------------------------------------------------------------------------
(* Users and administrators.  A suspended tenant's schedules and campaigns *)
(* are read-only.                                                          *)

Writable(c) == TenantOf[c] \notin suspended

PutSchedule(c) ==
  /\ Edit("put") /\ Writable(c)
  /\ \E s \in Settings, on \in BOOLEAN :
       schedule' = [schedule EXCEPT ![c].enabled = on, ![c].setting = s, ![c].next = NextRun(s, now)]
  /\ UNCHANGED <<now, campaign, suspended, item, pc, job, crashes>>

DisableSchedule(c) ==
  /\ Edit("disable") /\ Writable(c)
  /\ schedule' = [schedule EXCEPT ![c].enabled = FALSE, ![c].setting = Manual, ![c].next = Never]
  /\ UNCHANGED <<now, campaign, suspended, item, pc, job, crashes>>

\* The campaign is paused or activated.
SetStatus(c) ==
  /\ Edit("status") /\ Writable(c)
  /\ campaign' = [campaign EXCEPT ![c].active = ~campaign[c].active]
  /\ UNCHANGED <<now, schedule, suspended, item, pc, job, crashes>>

\* Its last keyword is deleted or disabled, or a first one is added.
SetKeywords(c) ==
  /\ Edit("keywords") /\ Writable(c)
  /\ campaign' = [campaign EXCEPT ![c].keywords = ~campaign[c].keywords]
  /\ UNCHANGED <<now, schedule, suspended, item, pc, job, crashes>>

\* An administrator suspends a tenant or reactivates it.
SetTenantStatus(t) ==
  /\ Edit("suspend")
  /\ suspended' = IF t \in suspended THEN suspended \ {t} ELSE suspended \cup {t}
  /\ UNCHANGED <<now, schedule, campaign, item, pc, job, crashes>>

-----------------------------------------------------------------------------
(* The queue and the clock.                                                *)

Move(i, from, to) ==
  /\ item[i].state = from
  /\ item' = [item EXCEPT ![i].state = to]
  /\ UNCHANGED <<now, pc, job, crashes, editVars>>

\* The oldest is claimed first, except for retries that are not due yet.  Any number
\* is claimed: what a dead worker has claimed is still "taken" when the restarted
\* one claims more.
Claim(i) ==
  /\ Move(i, "queued", "taken") \/ Move(i, "retry", "taken")
  /\ \A j \in Items : item[j].state = "queued" => item[j].at >= item[i].at

Retry(i)  == Move(i, "taken", "retry")

\* Mutant of Finish: the status of the execution is copied untranslated.
FinishCopied(i) == Move(i, "taken", "partial") \/ Move(i, "taken", "failed")

Finish(i) == Move(i, "taken", "done") \/ Move(i, "taken", "failed")
Cancel(i) == Move(i, "queued", "failed") \/ Move(i, "retry", "failed")

Tick ==
  /\ now < Horizon
  /\ now' = now + 1
  /\ UNCHANGED <<item, pc, job, crashes, editVars>>

-----------------------------------------------------------------------------

Enqueues(a) == InsertExecution(a) \/ InsertQueueItem(a) \/ InsertIsDuplicate(a)

SchedulerStep(s) ==
  Scan(s) \/ CheckDue(s) \/ UpdateNextRun(s) \/ DeferQueueFull(s) \/ TickRaises(s) \/ Enqueues(s)

RequestStep(r) == Request(r) \/ Respond(r) \/ Enqueues(r)

UserStep ==
  \/ \E c \in Campaigns : PutSchedule(c) \/ DisableSchedule(c) \/ SetStatus(c) \/ SetKeywords(c)
  \/ \E t \in Tenants : SetTenantStatus(t)

QueueStep == \E i \in Items : Claim(i) \/ Retry(i) \/ Finish(i) \/ Cancel(i)

Next ==
  \/ \E s \in Schedulers : SchedulerStep(s)
  \/ \E r \in Requests : RequestStep(r)
  \/ \E a \in Actors : Crash(a)
  \/ UserStep
  \/ QueueStep
  \/ Tick

Spec == Init /\ [][Next]_vars

\* The scheduler polls for ever, its container is restarted, time passes.
FairSpec == Spec /\ WF_vars(Tick) /\ \A s \in Schedulers : WF_vars(SchedulerStep(s))

=============================================================================
