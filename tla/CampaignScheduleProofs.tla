------------------------ MODULE CampaignScheduleProofs ------------------------
(***************************************************************************)
(* Proofs about campaign schedules, for all values of the constants: types, *)
(* the uniqueness of enqueued windows, the bound on what overlapping        *)
(* enqueues add to a tenant's backlog, that a disabled schedule stays       *)
(* disabled, and that the runs of an interval schedule keep their distance  *)
(* and are recorded only if they are enqueued.                              *)
(***************************************************************************)
EXTENDS CampaignScheduleProps, FiniteSetTheorems, TLAPS

-----------------------------------------------------------------------------
(* Times.                                                                  *)

\* The next day's candidate is later than the wall clock that it is computed from.
LEMMA CandidateIsLater ==
  ASSUME NEW l \in Nat, NEW minute \in 0..(Day - 1)
  PROVE  LET candidate == (l \div Day) * Day + minute
         IN  /\ candidate \in Nat
             /\ candidate + Day > l
  <1>1. Day \in Nat /\ Day > 0
    BY DayAssumption
  <1>2. l \div Day \in Nat /\ l % Day \in 0..(Day - 1) /\ l = Day * (l \div Day) + (l % Day)
    BY <1>1, SMT
  <1>3. (l \div Day) * Day = Day * (l \div Day) /\ (l \div Day) * Day \in Nat
    BY <1>1, <1>2, SMT
  <1> QED
    BY <1>1, <1>2, <1>3, SMT

\* A daily time is a time, and a later one in a zone that keeps its clocks.
LEMMA NextDailyIsTime ==
  ASSUME NEW minute \in 0..(Day - 1), NEW t \in Nat
  PROVE  /\ NextDaily(minute, t) \in Nat
         /\ Fold = 0 => NextDaily(minute, t) > t
  <1> DEFINE l == Local(t)
             candidate == (l \div Day) * Day + minute
             next == IF candidate <= l THEN candidate + Day ELSE candidate
  <1>1. l \in Nat /\ l >= Fold /\ l >= t /\ (Fold = 0 => l = t)
    BY ZoneAssumption DEF Local
  <1>2. candidate \in Nat /\ candidate + Day > l
    BY <1>1, CandidateIsLater
  <1>3. next \in Nat /\ next > l
    <2> HIDE DEF candidate, l
    <2> QED  BY <1>1, <1>2, DayAssumption
  <1>4. NextDaily(minute, t) = ToUTC(next)
    BY DEF NextDaily
  <1> HIDE DEF next, l
  <1> QED
    BY <1>1, <1>3, <1>4, ZoneAssumption DEF ToUTC

LEMMA NextRunIsTime ==
  ASSUME NEW s \in Setting, NEW t \in Nat
  PROVE  NextRun(s, t) \in Minute
  <1>1. CASE s = Manual
    BY <1>1 DEF NextRun, Manual, Minute
  <1>2. CASE s \in [kind : {"interval"}, n : Nat \ {0}]
    BY <1>2 DEF NextRun, Minute
  <1>3. CASE s \in [kind : {"daily"}, n : 0..(Day - 1)]
    <2>1. NextRun(s, t) = NextDaily(s.n, t)
      BY <1>3 DEF NextRun
    <2> QED  BY <1>3, <2>1, NextDailyIsTime DEF Minute
  <1> QED
    BY <1>1, <1>2, <1>3, SettingsAssumption DEF Setting

-----------------------------------------------------------------------------
(* Types.                                                                  *)

Results == {"ok", "already_enqueued", "quota_exceeded", "queue_limit_reached",
            "tenant_suspended", "no_enabled_keyword"}

\* Whoever inserts or updates has a campaign in hand, and an execution when it
\* comes to its queue item.
HoldsItem(a) ==
  /\ job[a].item \in Items
  /\ item[job[a].item].state = "execution"
  /\ item[job[a].item].campaign = job[a].campaign

InHand ==
  \A a \in Actors :
    /\ pc[a] \in {"execution", "queue", "advance", "defer"} => job[a].campaign \in Campaigns
    /\ pc[a] = "queue" => HoldsItem(a)

\* No two actors are about to enqueue the same execution.
ItemsApart ==
  \A a, b \in Actors : a # b /\ pc[a] = "queue" /\ pc[b] = "queue" => job[a].item # job[b].item

Inv == TypeOK /\ InHand /\ ItemsApart

\* The guards give one of six results.
LEMMA VerdictIsResult ==
  ASSUME NEW c, NEW key
  PROVE  Verdict(c, key) \in Results /\ SchedulerAfter[Verdict(c, key)] \in Phases \ {"queue"}
  <1>1. Verdict(c, key) \in Results
    BY DEF Verdict, Results
  <1> HIDE DEF Verdict
  <1> QED
    BY <1>1 DEF Results, SchedulerAfter, Phases

\* Every schedule row starts well typed.
LEMMA InvInit == Init => Inv
  <1> SUFFICES ASSUME Init PROVE Inv
    OBVIOUS
  <1>1. PICK s \in [Campaigns -> Settings] :
          schedule = [c \in Campaigns |-> [enabled |-> TRUE, setting |-> s[c],
                                           next |-> NextRun(s[c], 0), last |-> Never]]
    BY DEF Init
  <1>2. \A c \in Campaigns : s[c] \in Setting /\ NextRun(s[c], 0) \in Minute
    BY NextRunIsTime DEF Setting
  <1>3. schedule \in [Campaigns -> ScheduleRow]
    BY <1>1, <1>2 DEF ScheduleRow, Minute
  <1>4. NoItem \in Item /\ NoJob \in Job
    BY DEF NoItem, Item, ItemState, Minute, NoJob, Job, Setting
  <1>5. TypeOK
    BY <1>3, <1>4, BoundsAssumption DEF Init, TypeOK, Phases
  <1> QED
    BY <1>5 DEF Init, Inv, InHand, ItemsApart

\* A row found due is a row of the schedules.
LEMMA DueRowIsDue ==
  ASSUME TypeOK, NEW c \in Campaigns, IsDue(c)
  PROVE  DueRow(c) \in Due
  BY DEF TypeOK, IsDue, DueRow, Due, ScheduleRow, Minute

\* Steps of a scheduler that write no item.
LEMMA SchedulerRowsInv ==
  ASSUME Inv, NEW s \in Schedulers,
         Scan(s) \/ CheckDue(s) \/ UpdateNextRun(s) \/ DeferQueueFull(s) \/ TickRaises(s)
  PROVE  Inv'
  <1>0. s \in Actors /\ job[s] \in Job /\ pc[s] \in Phases
    BY DEF Actors, Inv, TypeOK
  <1> NoJob \in Job
    BY DEF NoJob, Job, Setting, Minute
  <1>1. CASE Scan(s)
    <2>1. {DueRow(c) : c \in {x \in Campaigns : IsDue(x)}} \in SUBSET Due
      BY DueRowIsDue DEF Inv
    <2>2. [job[s] EXCEPT !.batch = {DueRow(c) : c \in {x \in Campaigns : IsDue(x)}}] \in Job
      BY <1>0, <2>1 DEF Job
    <2>3. TypeOK'
      BY <1>1, <1>0, <2>2 DEF Scan, Inv, TypeOK, editVars, Phases
    <2> QED
      BY <1>1, <2>3, <1>0 DEF Scan, Inv, TypeOK, InHand, ItemsApart, HoldsItem, editVars
  <1>2. CASE CheckDue(s)
    <2>1. PICK d \in Earliest(job[s].batch) :
            /\ job' = [job EXCEPT ![s] = [NoJob EXCEPT !.batch = job[s].batch \ {d},
                         !.campaign = d.campaign, !.setting = d.setting, !.key = d.next]]
            /\ pc' = [pc EXCEPT ![s] = SchedulerAfter[Verdict(d.campaign, d.next)]]
      BY <1>2 DEF CheckDue
    <2>2. d \in Due /\ job[s].batch \in SUBSET Due
      BY <1>0 DEF Earliest, Job
    <2> DEFINE new == [NoJob EXCEPT !.batch = job[s].batch \ {d},
                         !.campaign = d.campaign, !.setting = d.setting, !.key = d.next]
    <2>3. new \in Job /\ new.campaign \in Campaigns
      BY <2>2 DEF Job, NoJob, Due, Minute
    <2>4. SchedulerAfter[Verdict(d.campaign, d.next)] \in Phases \ {"queue"}
      BY VerdictIsResult
    <2> HIDE DEF new
    <2>5. TypeOK'
      BY <1>2, <1>0, <2>1, <2>3, <2>4 DEF new, CheckDue, Inv, TypeOK, editVars
    <2>6. /\ \A a \in Actors \ {s} : pc'[a] = pc[a] /\ job'[a] = job[a]
          /\ pc'[s] # "queue" /\ job'[s].campaign \in Campaigns
          /\ item' = item
      BY <1>2, <1>0, <2>1, <2>3, <2>4 DEF new, CheckDue, Inv, TypeOK
    <2> QED
      BY <2>5, <2>6 DEF Inv, InHand, ItemsApart, HoldsItem
  <1>3. CASE UpdateNextRun(s) \/ DeferQueueFull(s)
    <2>1. job[s].campaign \in Campaigns /\ now \in Nat /\ job[s].setting \in Setting
      BY <1>3, <1>0, BoundsAssumption DEF UpdateNextRun, DeferQueueFull, Inv, InHand, TypeOK, Job
    <2>2. NextRun(job[s].setting, now) \in Minute /\ now + RetryDelay \in Minute /\ now \in Minute
      BY <2>1, NextRunIsTime, DelayAssumption DEF Minute
    <2>3. schedule' \in [Campaigns -> ScheduleRow]
      BY <1>3, <2>1, <2>2 DEF UpdateNextRun, DeferQueueFull, Inv, TypeOK, ScheduleRow
    <2>4. NextRow(s)
      BY <1>3 DEF UpdateNextRun, DeferQueueFull
    <2>5. [NoJob EXCEPT !.batch = job[s].batch] \in Job
      BY <1>0 DEF Job
    <2>6. TypeOK'
      BY <2>3, <2>4, <2>5, <1>0 DEF NextRow, Inv, TypeOK, Phases
    <2> QED
      BY <2>4, <2>6, <1>0 DEF NextRow, Inv, TypeOK, InHand, ItemsApart, HoldsItem
  <1>4. CASE TickRaises(s)
    <2>1. TypeOK'
      BY <1>4, <1>0 DEF TickRaises, Inv, TypeOK, Phases, editVars
    <2> QED
      BY <1>4, <2>1, <1>0 DEF TickRaises, Inv, TypeOK, InHand, ItemsApart, HoldsItem, editVars
  <1> QED
    BY <1>1, <1>2, <1>3, <1>4

\* Requests that come and go, and crashes.
LEMMA RequestInv ==
  ASSUME Inv, NEW a \in Actors, Request(a) \/ Respond(a) \/ Crash(a)
  PROVE  Inv'
  <1> NoJob \in Job
    BY DEF NoJob, Job, Setting, Minute
  <1>1. CASE Request(a)
    <2>1. PICK c \in Campaigns, retry \in BOOLEAN :
            /\ job' = [job EXCEPT ![a] = [NoJob EXCEPT !.campaign = c, !.retry = retry]]
            /\ pc' = [pc EXCEPT ![a] = IF Verdict(c, Never) = "ok" THEN "execution" ELSE "refused"]
      BY <1>1 DEF Request
    <2>2. [NoJob EXCEPT !.campaign = c, !.retry = retry] \in Job
      BY DEF Job, NoJob
    <2>3. /\ \A b \in Actors \ {a} : pc'[b] = pc[b] /\ job'[b] = job[b]
          /\ pc'[a] \in {"execution", "refused"}
          /\ job'[a].campaign \in Campaigns
          /\ item' = item
      BY <1>1, <2>1 DEF Request, Inv, TypeOK, NoJob
    <2>4. edits' \in 0..MaxEdits
      <3>1. edits < MaxEdits /\ edits' = edits + 1
        BY <1>1 DEF Request, Edit
      <3> QED
        BY <3>1, BoundsAssumption DEF Inv, TypeOK
    <2>5. TypeOK'
      BY <1>1, <2>1, <2>2, <2>4 DEF Request, Inv, TypeOK, Phases
    <2> QED
      BY <2>3, <2>5 DEF Inv, InHand, ItemsApart, HoldsItem
  <1>2. CASE Respond(a)
    <2>1. TypeOK'
      BY <1>2 DEF Respond, Inv, TypeOK, Phases, editVars
    <2> QED
      BY <1>2, <2>1 DEF Respond, Inv, TypeOK, InHand, ItemsApart, HoldsItem, editVars
  <1>3. CASE Crash(a)
    <2>1. TypeOK'
      BY <1>3, BoundsAssumption DEF Crash, Inv, TypeOK, Phases, editVars
    <2> QED
      BY <1>3, <2>1 DEF Crash, Inv, TypeOK, InHand, ItemsApart, HoldsItem, editVars
  <1> QED
    BY <1>1, <1>2, <1>3

\* The inserts touch the actor's own item, which nobody else holds.
LEMMA EnqueuesInv ==
  ASSUME Inv, NEW a \in Actors, Enqueues(a)
  PROVE  Inv'
  <1>0. job[a] \in Job /\ now \in Minute
    BY BoundsAssumption DEF Inv, TypeOK, Minute
  <1>1. CASE InsertExecution(a)
    <2>1. PICK i \in Items :
            /\ item[i].state = "absent"
            /\ item' = [item EXCEPT ![i].state = "execution", ![i].campaign = job[a].campaign]
            /\ job' = [job EXCEPT ![a].item = i]
      BY <1>1 DEF InsertExecution
    <2>2. job[a].campaign \in Campaigns
      BY <1>1 DEF InsertExecution, Inv, InHand
    <2>3. /\ item'[i].state = "execution" /\ item'[i].campaign = job[a].campaign
          /\ \A j \in Items \ {i} : item'[j] = item[j]
          /\ item' \in [Items -> Item]
      BY <2>1, <2>2 DEF Inv, TypeOK, Item, ItemState
    <2>4. /\ job' \in [Actors -> Job] /\ job'[a].item = i /\ job'[a].campaign = job[a].campaign
          /\ \A b \in Actors \ {a} : job'[b] = job[b]
      BY <2>1, <1>0 DEF Inv, TypeOK, Job
    <2>5. /\ pc' \in [Actors -> Phases] /\ \A b \in Actors \ {a} : pc'[b] = pc[b]
      BY <1>1 DEF InsertExecution, Inv, TypeOK, Phases
    <2>6. TypeOK'
      BY <1>1, <2>3, <2>4, <2>5 DEF InsertExecution, Inv, TypeOK, editVars
    <2>7. \A b \in Actors \ {a} : pc[b] = "queue" => job[b].item # i
      BY <2>1 DEF Inv, InHand, HoldsItem
    <2> QED
      BY <2>2, <2>3, <2>4, <2>5, <2>6, <2>7 DEF Inv, InHand, ItemsApart, HoldsItem
  <1>2. CASE InsertQueueItem(a) \/ InsertIsDuplicate(a)
    <2> DEFINE i == job[a].item
    <2>1. HoldsItem(a) /\ job[a].campaign \in Campaigns /\ pc[a] = "queue" /\ i \in Items
      BY <1>2 DEF InsertQueueItem, InsertIsDuplicate, Inv, InHand, HoldsItem
    <2>2. item' \in [Items -> Item] /\ \A j \in Items \ {i} : item'[j] = item[j]
      <3>1. NoItem \in Item /\ job[a].key \in Minute
        BY <1>0 DEF NoItem, Item, ItemState, Minute, Job
      <3> DEFINE new == [item[i] EXCEPT !.state = "queued", !.key = job[a].key, !.at = now]
      <3>2. item[i] \in Item /\ new \in Item
        BY <1>0, <2>1, <3>1 DEF Inv, TypeOK, Item, ItemState
      <3>3. item' = [item EXCEPT ![i] = new] \/ item' = [item EXCEPT ![i] = NoItem]
        BY <1>2, <2>1 DEF InsertQueueItem, InsertIsDuplicate, Inv, TypeOK
      <3> HIDE DEF new
      <3> QED
        BY <2>1, <3>1, <3>2, <3>3 DEF Inv, TypeOK
    <2>3. /\ pc' \in [Actors -> Phases] /\ pc'[a] # "queue"
          /\ \A b \in Actors \ {a} : pc'[b] = pc[b]
          /\ job' = job
      BY <1>2 DEF InsertQueueItem, InsertIsDuplicate, Inv, TypeOK, Phases
    <2>4. TypeOK'
      BY <1>2, <2>2, <2>3 DEF InsertQueueItem, InsertIsDuplicate, Inv, TypeOK, editVars
    <2>5. \A b \in Actors \ {a} : pc[b] = "queue" => job[b].item # i
      BY <2>1 DEF Inv, ItemsApart
    <2> QED
      BY <2>1, <2>2, <2>3, <2>4, <2>5 DEF Inv, InHand, ItemsApart, HoldsItem
  <1> QED
    BY <1>1, <1>2 DEF Enqueues

\* Edits, workers and the clock leave the actors alone, and no worker touches an
\* execution that is not in the queue.
LEMMA EnvironmentInv ==
  ASSUME Inv, UserStep \/ QueueStep \/ Tick
  PROVE  Inv'
  <1>1. CASE UserStep
    <2>1. UNCHANGED <<now, item, pc, job, crashes>>
      BY <1>1 DEF UserStep, PutSchedule, DisableSchedule, SetStatus, SetKeywords, SetTenantStatus
    <2>2. edits' \in 0..MaxEdits
      <3>1. edits < MaxEdits /\ edits' = edits + 1
        BY <1>1 DEF UserStep, PutSchedule, DisableSchedule, SetStatus, SetKeywords,
           SetTenantStatus, Edit
      <3> QED
        BY <3>1, BoundsAssumption DEF Inv, TypeOK
    <2>3. ASSUME NEW c \in Campaigns, PutSchedule(c) PROVE schedule' \in [Campaigns -> ScheduleRow]
      <3>1. PICK s \in Settings, on \in BOOLEAN :
              schedule' = [schedule EXCEPT ![c].enabled = on, ![c].setting = s, ![c].next = NextRun(s, now)]
        BY <2>3 DEF PutSchedule
      <3>2. s \in Setting /\ NextRun(s, now) \in Minute
        BY NextRunIsTime, BoundsAssumption DEF Setting, Inv, TypeOK
      <3> DEFINE new == [schedule[c] EXCEPT !.enabled = on, !.setting = s, !.next = NextRun(s, now)]
      <3>3. schedule' = [schedule EXCEPT ![c] = new]
        BY <3>1 DEF Inv, TypeOK
      <3>4. new \in ScheduleRow
        BY <3>2 DEF Inv, TypeOK, ScheduleRow
      <3> HIDE DEF new
      <3> QED
        BY <3>3, <3>4 DEF Inv, TypeOK
    <2>4. /\ schedule' \in [Campaigns -> ScheduleRow]
          /\ campaign' \in [Campaigns -> [active : BOOLEAN, keywords : BOOLEAN]]
          /\ suspended' \subseteq Tenants
      <3>1. CASE \E c \in Campaigns : PutSchedule(c)
        BY <3>1, <2>3 DEF PutSchedule, Inv, TypeOK
      <3>2. CASE \E c \in Campaigns : DisableSchedule(c)
        <4>1. PICK c \in Campaigns : DisableSchedule(c)
          BY <3>2
        <4> DEFINE new == [schedule[c] EXCEPT !.enabled = FALSE, !.setting = Manual, !.next = Never]
        <4>2. schedule' = [schedule EXCEPT ![c] = new]
          BY <4>1 DEF DisableSchedule, Inv, TypeOK
        <4>3. new \in ScheduleRow
          BY DEF Inv, TypeOK, ScheduleRow, Minute, Setting
        <4> HIDE DEF new
        <4> QED
          BY <4>1, <4>2, <4>3 DEF DisableSchedule, Inv, TypeOK
      <3>3. CASE \E c \in Campaigns : SetStatus(c) \/ SetKeywords(c)
        <4>1. PICK c \in Campaigns, row \in [active : BOOLEAN, keywords : BOOLEAN] :
                /\ campaign' = [campaign EXCEPT ![c] = row]
                /\ UNCHANGED <<schedule, suspended>>
          <5>1. CASE \E c \in Campaigns : SetStatus(c)
            <6>1. PICK c \in Campaigns : SetStatus(c)
              BY <5>1
            <6>2. [campaign[c] EXCEPT !.active = ~campaign[c].active] \in [active : BOOLEAN, keywords : BOOLEAN]
              BY DEF Inv, TypeOK
            <6> QED
              BY <6>1, <6>2 DEF SetStatus
          <5>2. CASE \E c \in Campaigns : SetKeywords(c)
            <6>1. PICK c \in Campaigns : SetKeywords(c)
              BY <5>2
            <6>2. [campaign[c] EXCEPT !.keywords = ~campaign[c].keywords] \in [active : BOOLEAN, keywords : BOOLEAN]
              BY DEF Inv, TypeOK
            <6> QED
              BY <6>1, <6>2 DEF SetKeywords
          <5> QED
            BY <3>3, <5>1, <5>2
        <4> QED
          BY <4>1 DEF Inv, TypeOK
      <3>4. CASE \E t \in Tenants : SetTenantStatus(t)
        BY <3>4 DEF SetTenantStatus, Inv, TypeOK
      <3> QED
        BY <1>1, <3>1, <3>2, <3>3, <3>4 DEF UserStep
    <2> QED
      BY <2>1, <2>2, <2>4 DEF Inv, TypeOK, InHand, ItemsApart, HoldsItem
  <1>2. CASE QueueStep
    <2>1. PICK i \in Items, to \in {"taken", "retry", "done", "failed"} :
            /\ item[i].state \in {"queued", "retry", "taken"}
            /\ item' = [item EXCEPT ![i].state = to]
            /\ UNCHANGED <<now, pc, job, crashes, editVars>>
      BY <1>2 DEF QueueStep, Claim, Retry, Finish, Cancel, Move
    <2>2. item' \in [Items -> Item] /\ \A j \in Items \ {i} : item'[j] = item[j]
      BY <2>1 DEF Inv, TypeOK, Item, ItemState
    <2>3. \A a \in Actors : pc[a] = "queue" => job[a].item # i
      BY <2>1 DEF Inv, InHand, HoldsItem
    <2>4. TypeOK'
      BY <2>1, <2>2 DEF Inv, TypeOK, editVars
    <2> QED
      BY <2>1, <2>2, <2>3, <2>4 DEF Inv, InHand, ItemsApart, HoldsItem
  <1>3. CASE Tick
    BY <1>3, BoundsAssumption DEF Tick, Inv, TypeOK, InHand, ItemsApart, HoldsItem, editVars
  <1> QED
    BY <1>1, <1>2, <1>3

\* The invariant is inductive.
LEMMA InvNext == Inv /\ [Next]_vars => Inv'
  <1> SUFFICES ASSUME Inv, [Next]_vars PROVE Inv'
    OBVIOUS
  <1>1. CASE \E s \in Schedulers : SchedulerStep(s)
    BY <1>1, SchedulerRowsInv, EnqueuesInv DEF SchedulerStep, Actors
  <1>2. CASE \E r \in Requests : RequestStep(r)
    BY <1>2, RequestInv, EnqueuesInv DEF RequestStep, Actors
  <1>3. CASE \E a \in Actors : Crash(a)
    BY <1>3, RequestInv
  <1>4. CASE UserStep \/ QueueStep \/ Tick
    BY <1>4, EnvironmentInv
  <1>5. CASE UNCHANGED vars
    BY <1>5 DEF vars, Inv, TypeOK, InHand, ItemsApart, HoldsItem
  <1> QED
    BY <1>1, <1>2, <1>3, <1>4, <1>5 DEF Next

\* Every value stays in its type, and every actor keeps hold of its own execution.
THEOREM SchedulesTypeCorrect == Spec => []TypeOK
  <1>1. Inv => TypeOK
    BY DEF Inv
  <1> QED
    BY InvInit, InvNext, <1>1, PTL DEF Spec

\* Inv holds for ever.
LEMMA InvHolds == Spec => []Inv
  BY InvInit, InvNext, PTL DEF Spec

-----------------------------------------------------------------------------
(* A window is enqueued once.                                              *)

\* Nothing new is scheduled, and what is keeps its window.
KeepsWindows ==
  \A i \in Items : Scheduled(i)' =>
    /\ Scheduled(i)
    /\ item'[i].campaign = item[i].campaign
    /\ item'[i].key = item[i].key /\ item'[i].at = item[i].at

\* All steps but the insert of a queue item leave the windows alone.
LEMMA WindowFrame ==
  ASSUME Inv, Next, ~\E a \in Actors : InsertQueueItem(a)
  PROVE  KeepsWindows
  <1>1. CASE \E a \in Actors : InsertExecution(a) \/ InsertIsDuplicate(a)
    <2>1. PICK a \in Actors : InsertExecution(a) \/ InsertIsDuplicate(a)
      BY <1>1
    <2>2. CASE InsertExecution(a)
      <3>1. PICK i \in Items :
              item' = [item EXCEPT ![i].state = "execution", ![i].campaign = job[a].campaign]
        BY <2>2 DEF InsertExecution
      <3> QED
        BY <3>1 DEF Inv, TypeOK, Item, KeepsWindows, Scheduled, IsQueueItem
    <2>3. CASE InsertIsDuplicate(a)
      BY <2>3 DEF InsertIsDuplicate, Inv, TypeOK, KeepsWindows, Scheduled, IsQueueItem, NoItem
    <2> QED
      BY <2>1, <2>2, <2>3
  <1>2. CASE QueueStep
    <2>1. PICK i \in Items, to \in {"taken", "retry", "done", "failed"} :
            /\ item[i].state \in {"queued", "retry", "taken"}
            /\ item' = [item EXCEPT ![i].state = to]
      BY <1>2 DEF QueueStep, Claim, Retry, Finish, Cancel, Move
    <2> QED
      BY <2>1 DEF Inv, TypeOK, Item, KeepsWindows, Scheduled, IsQueueItem
  <1>3. ASSUME item' = item PROVE KeepsWindows
    BY <1>3 DEF KeepsWindows, Scheduled, IsQueueItem
  <1>4. ASSUME NEW s \in Schedulers, SchedulerStep(s), ~Enqueues(s) PROVE item' = item
    BY <1>4 DEF SchedulerStep, Scan, CheckDue, UpdateNextRun, DeferQueueFull, NextRow, TickRaises
  <1>5. ASSUME NEW r \in Requests, RequestStep(r), ~Enqueues(r) PROVE item' = item
    BY <1>5 DEF RequestStep, Request, Respond
  <1>6. CASE UserStep
    BY <1>6, <1>3 DEF UserStep, PutSchedule, DisableSchedule, SetStatus, SetKeywords, SetTenantStatus
  <1>7. CASE Tick \/ \E a \in Actors : Crash(a)
    BY <1>7, <1>3 DEF Tick, Crash
  <1> QED
    BY <1>1, <1>2, <1>3, <1>4, <1>5, <1>6, <1>7 DEF Next, Enqueues, Actors

\* The insert finds no item of the same window, or is refused.
LEMMA WindowStep ==
  ASSUME Inv, WindowEnqueuedOnce, [Next]_vars
  PROVE  WindowEnqueuedOnce'
  <1>1. CASE \E a \in Actors : InsertQueueItem(a)
    <2>1. PICK a \in Actors : InsertQueueItem(a)
      BY <1>1
    <2> DEFINE i == job[a].item
    <2>2. /\ i \in Items /\ item[i].campaign = job[a].campaign
          /\ ~Enqueued(job[a].campaign, job[a].key)
      BY <2>1 DEF InsertQueueItem, Inv, InHand, HoldsItem
    <2>3. /\ item'[i].campaign = job[a].campaign /\ item'[i].key = job[a].key
          /\ \A j \in Items \ {i} : item'[j] = item[j]
      BY <2>1, <2>2 DEF InsertQueueItem, Inv, TypeOK, Item
    <2> QED
      BY <2>2, <2>3 DEF WindowEnqueuedOnce, Scheduled, IsQueueItem, Enqueued
  <1>2. CASE Next /\ ~\E a \in Actors : InsertQueueItem(a)
    BY <1>2, WindowFrame DEF KeepsWindows, WindowEnqueuedOnce
  <1>3. CASE UNCHANGED vars
    BY <1>3 DEF vars, WindowEnqueuedOnce, Scheduled, IsQueueItem
  <1> QED
    BY <1>1, <1>2, <1>3

\* However many schedulers overlap and crash, a scheduled window of a campaign is
\* in the queue at most once.
THEOREM WindowsAreEnqueuedOnce == Spec => []WindowEnqueuedOnce
  <1>1. Init => WindowEnqueuedOnce
    BY DEF Init, NoItem, WindowEnqueuedOnce, Scheduled, IsQueueItem
  <1> QED
    BY <1>1, WindowStep, InvHolds, PTL DEF Spec

-----------------------------------------------------------------------------
(* Without crashes every execution is in the queue or about to be.         *)

\* Steps keep an execution that has no queue item in its creator's hands.
LEMMA ChargedStep ==
  ASSUME Inv, MaxCrashes = 0, ChargedIsEnqueued, [Next]_vars
  PROVE  ChargedIsEnqueued'
  <1> USE DEF ChargedIsEnqueued
  <1>1. ASSUME NEW a \in Actors, InsertExecution(a) PROVE ChargedIsEnqueued'
    <2>1. PICK i \in Items :
            /\ item' = [item EXCEPT ![i].state = "execution", ![i].campaign = job[a].campaign]
            /\ job' = [job EXCEPT ![a].item = i]
      BY <1>1 DEF InsertExecution
    <2>2. /\ pc'[a] = "queue" /\ pc[a] = "execution" /\ job'[a].item = i
          /\ \A b \in Actors \ {a} : pc'[b] = pc[b] /\ job'[b] = job[b]
      BY <1>1, <2>1 DEF InsertExecution, Inv, TypeOK, Job
    <2>3. \A j \in Items \ {i} : item'[j] = item[j]
      BY <2>1 DEF Inv, TypeOK
    <2> QED
      BY <2>2, <2>3
  <1>2. ASSUME NEW a \in Actors, InsertQueueItem(a) \/ InsertIsDuplicate(a) PROVE ChargedIsEnqueued'
    <2> DEFINE i == job[a].item
    <2>1. i \in Items
      BY <1>2 DEF InsertQueueItem, InsertIsDuplicate, Inv, InHand, HoldsItem
    <2>2. item'[i].state # "execution" /\ \A j \in Items \ {i} : item'[j] = item[j]
      BY <1>2, <2>1 DEF InsertQueueItem, InsertIsDuplicate, Inv, TypeOK, Item, NoItem
    <2>3. job' = job /\ \A b \in Actors \ {a} : pc'[b] = pc[b]
      BY <1>2 DEF InsertQueueItem, InsertIsDuplicate, Inv, TypeOK
    <2> QED
      BY <2>2, <2>3
  <1>3. CASE QueueStep
    <2>1. PICK i \in Items, to \in {"taken", "retry", "done", "failed"} :
            item' = [item EXCEPT ![i].state = to] /\ UNCHANGED <<pc, job>>
      BY <1>3 DEF QueueStep, Claim, Retry, Finish, Cancel, Move
    <2> QED
      BY <2>1 DEF Inv, TypeOK, Item
  \* Other steps move actors that hold no execution.
  <1>4. ASSUME NEW a \in Actors, item' = item, pc[a] # "queue",
               \A b \in Actors \ {a} : pc'[b] = pc[b] /\ job'[b] = job[b]
        PROVE  ChargedIsEnqueued'
    BY <1>4
  <1>5. ASSUME NEW s \in Schedulers, SchedulerStep(s), ~Enqueues(s) PROVE ChargedIsEnqueued'
    <2>1. /\ item' = item /\ pc[s] # "queue"
          /\ \A b \in Actors \ {s} : pc'[b] = pc[b] /\ job'[b] = job[b]
      BY <1>5 DEF SchedulerStep, Scan, CheckDue, UpdateNextRun, DeferQueueFull, NextRow,
         TickRaises, Inv, TypeOK
    <2> QED
      BY <2>1, <1>4 DEF Actors
  <1>6. ASSUME NEW r \in Requests, RequestStep(r), ~Enqueues(r) PROVE ChargedIsEnqueued'
    <2>1. /\ item' = item /\ pc[r] # "queue"
          /\ \A b \in Actors \ {r} : pc'[b] = pc[b] /\ job'[b] = job[b]
      BY <1>6 DEF RequestStep, Request, Respond, Inv, TypeOK
    <2> QED
      BY <2>1, <1>4 DEF Actors
  <1>7. ~\E a \in Actors : Crash(a)
    BY BoundsAssumption DEF Crash, Inv, TypeOK
  <1>8. CASE UserStep \/ Tick \/ UNCHANGED vars
    <2>1. UNCHANGED <<item, pc, job>>
      BY <1>8 DEF UserStep, PutSchedule, DisableSchedule, SetStatus, SetKeywords, SetTenantStatus, Tick, vars
    <2> QED
      BY <2>1
  <1> QED
    BY <1>1, <1>2, <1>3, <1>5, <1>6, <1>7, <1>8 DEF Next, Enqueues, Actors

\* No refused window is charged to the quota, unless something crashed.
THEOREM ChargedExecutionsAreEnqueued ==
  ASSUME MaxCrashes = 0
  PROVE  Spec => []ChargedIsEnqueued
  <1>1. Init => ChargedIsEnqueued
    BY DEF Init, NoItem, ChargedIsEnqueued
  <1>2. Inv /\ ChargedIsEnqueued /\ [Next]_vars => ChargedIsEnqueued'
    BY ChargedStep
  <1> QED
    BY <1>1, <1>2, InvHolds, PTL DEF Spec

-----------------------------------------------------------------------------
(* A disabled schedule stays disabled.                                     *)

\* Manual runs and retries have no trigger key.
RequestsUnkeyed == \A r \in Requests : job[r].key = Never

\* A step of an actor leaves the others' variables alone.
LEMMA ActorStep ==
  ASSUME Inv, NEW a \in Actors,
         \/ a \in Schedulers /\ SchedulerStep(a)
         \/ a \in Requests /\ RequestStep(a)
         \/ Crash(a)
  PROVE  \A b \in Actors \ {a} : job'[b] = job[b] /\ pc'[b] = pc[b]
  BY DEF SchedulerStep, Scan, CheckDue, UpdateNextRun, DeferQueueFull, NextRow, TickRaises, RequestStep,
     Request, Respond, Enqueues, InsertExecution, InsertQueueItem, InsertIsDuplicate, Crash, Inv, TypeOK

\* The trigger key of a manual run or a retry stays empty.
LEMMA UnkeyedStep ==
  ASSUME Inv, RequestsUnkeyed, [Next]_vars
  PROVE  RequestsUnkeyed'
  <1> SUFFICES ASSUME NEW r \in Requests PROVE job'[r].key = Never
    BY DEF RequestsUnkeyed
  <1>0. r \in Actors /\ job[r] \in Job /\ job[r].key = Never
    BY DEF Inv, TypeOK, Actors, RequestsUnkeyed
  <1>1. ASSUME job'[r] = job[r] PROVE job'[r].key = Never
    BY <1>0, <1>1
  <1>2. CASE Enqueues(r)
    <2>1. job' = job \/ \E i \in Items : job' = [job EXCEPT ![r].item = i]
      BY <1>2 DEF Enqueues, InsertExecution, InsertQueueItem, InsertIsDuplicate
    <2> QED
      BY <1>0, <2>1 DEF Inv, TypeOK, Job
  <1>3. CASE Request(r) \/ Respond(r) \/ Crash(r)
    <2>1. CASE Request(r)
      <3>1. PICK c \in Campaigns, retry \in BOOLEAN :
              job' = [job EXCEPT ![r] = [NoJob EXCEPT !.campaign = c, !.retry = retry]]
        BY <2>1 DEF Request
      <3> QED
        BY <1>0, <3>1 DEF Inv, TypeOK, NoJob
    <2>2. CASE Respond(r) \/ Crash(r)
      BY <1>0, <2>2 DEF Respond, Crash, Inv, TypeOK, NoJob
    <2> QED
      BY <1>3, <2>1, <2>2
  <1>4. ASSUME NEW a \in Actors \ {r},
               \/ a \in Schedulers /\ SchedulerStep(a)
               \/ a \in Requests /\ RequestStep(a)
               \/ Crash(a)
        PROVE  job'[r] = job[r]
    BY <1>0, <1>4, ActorStep
  <1>5. CASE UserStep \/ QueueStep \/ Tick \/ UNCHANGED vars
    <2>1. job' = job
      BY <1>5 DEF UserStep, PutSchedule, DisableSchedule, SetStatus, SetKeywords, SetTenantStatus,
         QueueStep, Claim, Retry, Finish, Cancel, Move, Tick, vars
    <2> QED
      BY <2>1, <1>1
  <1>6. r \notin Schedulers
    BY ActorsAssumption
  <1> QED
    BY <1>1, <1>2, <1>3, <1>4, <1>5, <1>6 DEF Next, RequestStep, Actors

\* What a step leaves in the queue and in the schedulers' hands for campaign c was
\* there before.
LEMMA WindowsFrame ==
  ASSUME NEW c, KeepsWindows,
         \A s \in Schedulers :
           /\ job'[s].campaign = c => job'[s].key \in Windows(c)
           /\ \A d \in job'[s].batch : d.campaign = c => d.next \in Windows(c)
  PROVE  Windows(c)' \subseteq Windows(c)
  <1>1. \A i \in Items : Scheduled(i)' /\ item'[i].campaign = c => item'[i].key \in Windows(c)
    BY DEF KeepsWindows, Windows
  <1> QED
    BY <1>1 DEF Windows

\* A window in a scheduler's hands is one of the windows.
LEMMA WindowsInHand ==
  ASSUME NEW s \in Schedulers, NEW c
  PROVE  /\ job[s].campaign = c => job[s].key \in Windows(c)
         /\ \A d \in job[s].batch : d.campaign = c => d.next \in Windows(c)
  BY DEF Windows

\* The insert of a queue item takes its window from its scheduler's hands, or has none.
LEMMA WindowsInsert ==
  ASSUME Inv, RequestsUnkeyed, NEW a \in Actors, InsertQueueItem(a), NEW c \in Campaigns
  PROVE  Windows(c)' \subseteq Windows(c)
  <1> DEFINE i == job[a].item
  <1>1. i \in Items /\ item[i].campaign = job[a].campaign /\ job' = job
    BY DEF InsertQueueItem, Inv, InHand, HoldsItem
  <1>2. /\ item'[i].campaign = job[a].campaign /\ item'[i].key = job[a].key
        /\ \A j \in Items \ {i} : item'[j] = item[j]
    BY <1>1 DEF InsertQueueItem, Inv, TypeOK, Item
  <1> HIDE DEF i
  <1>3. job[a].campaign = c => job[a].key \in Windows(c) \cup {Never}
    BY WindowsInHand DEF RequestsUnkeyed, Actors
  <1>4. \A j \in Items : Scheduled(j)' /\ item'[j].campaign = c => item'[j].key \in Windows(c)
    <2> SUFFICES ASSUME NEW j \in Items, Scheduled(j)', item'[j].campaign = c
                 PROVE  item'[j].key \in Windows(c)
      OBVIOUS
    <2>1. CASE j = i
      BY <1>2, <1>3, <2>1 DEF Scheduled
    <2>2. CASE j # i
      <3>1. item'[j] = item[j]
        BY <1>2, <2>2
      <3> QED
        BY <3>1 DEF Windows, Scheduled, IsQueueItem
    <2> QED
      BY <2>1, <2>2
  <1> QED
    BY <1>1, <1>4 DEF Windows

\* A disabled schedule is not due: a scheduler's step only puts rows down, and takes the
\* row it works on from its batch.
LEMMA WindowsSchedulers ==
  ASSUME Inv, NEW s \in Schedulers, NEW c \in Campaigns, ~schedule[c].enabled,
         Scan(s) \/ CheckDue(s) \/ UpdateNextRun(s) \/ DeferQueueFull(s) \/ TickRaises(s)
  PROVE  Windows(c)' \subseteq Windows(c)
  <1>1. /\ s \in Actors /\ job \in [Actors -> Job] /\ item' = item
        /\ \A x \in Schedulers \ {s} : job'[x] = job[x]
    BY DEF Inv, TypeOK, Actors, Scan, CheckDue, UpdateNextRun, DeferQueueFull, NextRow, TickRaises
  <1>2. KeepsWindows
    BY <1>1 DEF KeepsWindows, Scheduled, IsQueueItem
  <1>3. ASSUME job'[s].campaign = c => job'[s].key \in Windows(c),
               \A d \in job'[s].batch : d.campaign = c => d.next \in Windows(c)
        PROVE  Windows(c)' \subseteq Windows(c)
    BY <1>1, <1>2, <1>3, WindowsFrame, WindowsInHand
  <1>4. CASE Scan(s)
    <2>1. ~IsDue(c)
      BY DEF IsDue
    <2>2. /\ job'[s].campaign = job[s].campaign /\ job'[s].key = job[s].key
          /\ job'[s].batch = {DueRow(x) : x \in {y \in Campaigns : IsDue(y)}}
      BY <1>1, <1>4 DEF Scan, Job
    <2>3. \A d \in job'[s].batch : d.campaign # c
      BY <2>1, <2>2 DEF DueRow
    <2> QED
      BY <1>3, <2>2, <2>3, WindowsInHand
  <1>5. CASE CheckDue(s)
    <2>1. PICK d \in Earliest(job[s].batch) :
            job' = [job EXCEPT ![s] = [NoJob EXCEPT !.batch = job[s].batch \ {d},
                      !.campaign = d.campaign, !.setting = d.setting, !.key = d.next]]
      BY <1>5 DEF CheckDue
    <2>2. d \in job[s].batch
      BY DEF Earliest
    <2>3. /\ job'[s].campaign = d.campaign /\ job'[s].key = d.next
          /\ job'[s].batch = job[s].batch \ {d}
      BY <1>1, <2>1 DEF NoJob
    <2> QED
      BY <1>3, <2>2, <2>3, WindowsInHand
  <1>6. CASE UpdateNextRun(s) \/ DeferQueueFull(s) \/ TickRaises(s)
    <2>1. job'[s].campaign = Nobody /\ job'[s].batch \subseteq job[s].batch
      BY <1>1, <1>6 DEF UpdateNextRun, DeferQueueFull, NextRow, TickRaises, NoJob
    <2> QED
      BY <1>3, <2>1, NullsAssumption, WindowsInHand
  <1> QED
    BY <1>4, <1>5, <1>6

\* No step takes up a window of a disabled schedule.
LEMMA WindowsStep ==
  ASSUME Inv, RequestsUnkeyed, [Next]_vars, NEW c \in Campaigns, ~schedule[c].enabled
  PROVE  Windows(c)' \subseteq Windows(c)
  <1>1. \A s \in Schedulers : s \in Actors /\ job[s] \in Job
    BY DEF Inv, TypeOK, Actors
  <1>2. CASE \E a \in Actors : InsertQueueItem(a)
    BY <1>2, WindowsInsert
  <1>3. CASE \E s \in Schedulers :
               Scan(s) \/ CheckDue(s) \/ UpdateNextRun(s) \/ DeferQueueFull(s) \/ TickRaises(s)
    BY <1>3, WindowsSchedulers
  \* In every other step a scheduler keeps its hands, or drops what they hold.
  <1>4. ASSUME KeepsWindows,
               \A s \in Schedulers :
                 \/ job'[s] = NoJob
                 \/ /\ job'[s].campaign = job[s].campaign /\ job'[s].key = job[s].key
                    /\ job'[s].batch = job[s].batch
        PROVE  Windows(c)' \subseteq Windows(c)
    <2>1. ASSUME NEW s \in Schedulers
          PROVE  /\ job'[s].campaign = c => job'[s].key \in Windows(c)
                 /\ \A d \in job'[s].batch : d.campaign = c => d.next \in Windows(c)
      <3>1. CASE job'[s] = NoJob
        BY <3>1, NullsAssumption DEF NoJob
      <3>2. CASE job'[s] # NoJob
        BY <1>4, <3>2, WindowsInHand
      <3> QED
        BY <3>1, <3>2
    <2> QED
      BY <1>4, <2>1, WindowsFrame
  <1>5. CASE /\ Next /\ ~\E a \in Actors : InsertQueueItem(a)
             /\ ~\E s \in Schedulers :
                   Scan(s) \/ CheckDue(s) \/ UpdateNextRun(s) \/ DeferQueueFull(s) \/ TickRaises(s)
    <2>1. KeepsWindows
      BY <1>5, WindowFrame
    <2>2. ASSUME NEW a \in Actors, InsertExecution(a) \/ InsertIsDuplicate(a), NEW s \in Schedulers
          PROVE  /\ job'[s].campaign = job[s].campaign /\ job'[s].key = job[s].key
                 /\ job'[s].batch = job[s].batch
      <3>1. job' = job \/ \E i \in Items : job' = [job EXCEPT ![a].item = i]
        BY <2>2 DEF InsertExecution, InsertIsDuplicate
      <3> QED
        BY <1>1, <3>1 DEF Inv, TypeOK, Job
    <2>3. ASSUME NEW a \in Actors, Crash(a), NEW s \in Schedulers
          PROVE  job'[s] = NoJob \/ job'[s] = job[s]
      BY <1>1, <2>3 DEF Crash, Inv, TypeOK
    <2>4. ASSUME NEW r \in Requests, Request(r) \/ Respond(r), NEW s \in Schedulers
          PROVE  job'[s] = job[s]
      BY <1>1, <2>4, ActorsAssumption DEF Request, Respond, Inv, TypeOK
    <2>5. CASE UserStep \/ QueueStep \/ Tick
      <3>1. job' = job
        BY <2>5 DEF UserStep, PutSchedule, DisableSchedule, SetStatus, SetKeywords, SetTenantStatus,
           QueueStep, Claim, Retry, Finish, Cancel, Move, Tick
      <3> QED
        BY <1>4, <2>1, <3>1
    <2>6. CASE \E a \in Actors : InsertExecution(a) \/ InsertIsDuplicate(a)
      BY <1>4, <2>1, <2>2, <2>6
    <2>7. CASE \E a \in Actors : Crash(a)
      BY <1>4, <2>1, <2>3, <2>7
    <2>8. CASE \E r \in Requests : Request(r) \/ Respond(r)
      BY <1>4, <2>1, <2>4, <2>8
    <2> QED
      BY <1>5, <2>5, <2>6, <2>7, <2>8 DEF Next, SchedulerStep, RequestStep, Enqueues, Actors
  <1>6. CASE UNCHANGED vars
    <2>1. KeepsWindows /\ job' = job
      BY <1>6 DEF vars, KeepsWindows, Scheduled, IsQueueItem
    <2> QED
      BY <1>4, <2>1
  <1> QED
    BY <1>2, <1>3, <1>5, <1>6

\* Who writes a schedule.
LEMMA ScheduleWriters ==
  ASSUME [Next]_vars
  PROVE  \/ schedule' = schedule
         \/ \E s \in Schedulers : UpdateNextRun(s) \/ DeferQueueFull(s)
         \/ \E c \in Campaigns : PutSchedule(c) \/ DisableSchedule(c)
  <1>1. CASE \E s \in Schedulers : SchedulerStep(s)
    BY <1>1 DEF SchedulerStep, Scan, CheckDue, TickRaises, Enqueues, InsertExecution,
       InsertQueueItem, InsertIsDuplicate, editVars
  <1>2. CASE \E r \in Requests : RequestStep(r)
    BY <1>2 DEF RequestStep, Request, Respond, Enqueues, InsertExecution, InsertQueueItem,
       InsertIsDuplicate, editVars
  <1>3. CASE (\E a \in Actors : Crash(a)) \/ QueueStep \/ Tick \/ UNCHANGED vars
    BY <1>3 DEF Crash, QueueStep, Claim, Retry, Finish, Cancel, Move, Tick, vars, editVars
  <1>4. CASE UserStep
    BY <1>4 DEF UserStep, SetStatus, SetKeywords, SetTenantStatus
  <1> QED
    BY <1>1, <1>2, <1>3, <1>4 DEF Next

\* The schedulers write next_run_at and last_run_at only.
LEMMA EnabledByUser ==
  ASSUME Inv, [Next]_vars, NEW c \in Campaigns, ~schedule[c].enabled, schedule'[c].enabled
  PROVE  edits' # edits
  <1>1. schedule \in [Campaigns -> ScheduleRow] /\ edits \in Nat
    BY BoundsAssumption DEF Inv, TypeOK
  <1>2. ASSUME NEW s \in Schedulers, UpdateNextRun(s) \/ DeferQueueFull(s)
        PROVE  schedule'[c].enabled = schedule[c].enabled
    BY <1>1, <1>2 DEF UpdateNextRun, DeferQueueFull, ScheduleRow
  <1>3. ASSUME NEW x \in Campaigns, PutSchedule(x) \/ DisableSchedule(x) PROVE edits' # edits
    <2>1. edits' = edits + 1
      BY <1>3 DEF PutSchedule, DisableSchedule, Edit
    <2> QED
      BY <1>1, <2>1
  <1> QED
    BY <1>2, <1>3, ScheduleWriters

\* A schedule that a user has disabled runs no window but those the schedulers had
\* scanned before, and no late write of theirs enables it again.
THEOREM DisabledSchedulesStayDisabled == Spec => DisabledStaysDisabled
  <1>1. Init => RequestsUnkeyed
    BY DEF Init, RequestsUnkeyed, NoJob, Actors
  <1>2. Inv /\ RequestsUnkeyed /\ [Next]_vars => RequestsUnkeyed'
    BY UnkeyedStep
  <1>3. Inv /\ RequestsUnkeyed /\ [Next]_vars
          => [\A c \in Campaigns : ~schedule[c].enabled =>
                /\ Windows(c)' \subseteq Windows(c)
                /\ schedule'[c].enabled => edits' # edits]_vars
    BY WindowsStep, EnabledByUser
  <1> QED
    BY <1>1, <1>2, <1>3, InvHolds, PTL DEF Spec, DisabledStaysDisabled

-----------------------------------------------------------------------------
(* Where the clocks are kept, update_next_run sets a time in the future.   *)

\* What is enabled has a time to run at, and so has what a scheduler scanned.
SettingsInv ==
  /\ \A c \in Campaigns : schedule[c].enabled => schedule[c].setting \in Settings
  /\ \A s \in Schedulers :
       /\ \A d \in job[s].batch : d.setting \in Settings
       /\ pc[s] \in {"execution", "queue", "advance", "defer"} => job[s].setting \in Settings

\* Settings are scanned while their schedules are enabled.
LEMMA SettingsStep ==
  ASSUME Inv, SettingsInv, [Next]_vars
  PROVE  SettingsInv'
  <1> DEFINE Rows == \A c \in Campaigns : schedule[c].enabled => schedule[c].setting \in Settings
             Mine(s) == /\ \A d \in job[s].batch : d.setting \in Settings
                        /\ pc[s] \in {"execution", "queue", "advance", "defer"}
                             => job[s].setting \in Settings
  <1>0. \A s \in Schedulers : s \in Actors /\ job[s] \in Job
    BY DEF Inv, TypeOK, Actors
  <1>1. Rows'
    <2>1. CASE schedule' = schedule
      BY <2>1 DEF SettingsInv
    <2>2. ASSUME NEW s \in Schedulers, UpdateNextRun(s) \/ DeferQueueFull(s) PROVE Rows'
      <3>1. \A c \in Campaigns : /\ schedule'[c].enabled = schedule[c].enabled
                                 /\ schedule'[c].setting = schedule[c].setting
        <4>1. CASE UpdateNextRun(s)
          BY <4>1 DEF UpdateNextRun, Inv, TypeOK, ScheduleRow
        <4>2. CASE DeferQueueFull(s)
          BY <4>2 DEF DeferQueueFull, Inv, TypeOK, ScheduleRow
        <4> QED
          BY <2>2, <4>1, <4>2
      <3> QED
        BY <3>1 DEF SettingsInv
    <2>3. ASSUME NEW c \in Campaigns, PutSchedule(c) PROVE Rows'
      <3>1. PICK x \in Settings, on \in BOOLEAN :
              schedule' = [schedule EXCEPT ![c].enabled = on, ![c].setting = x, ![c].next = NextRun(x, now)]
        BY <2>3 DEF PutSchedule
      <3>2. schedule'[c].setting = x /\ \A d \in Campaigns \ {c} : schedule'[d] = schedule[d]
        BY <3>1 DEF Inv, TypeOK, ScheduleRow
      <3> QED
        BY <3>2 DEF SettingsInv
    <2>4. ASSUME NEW c \in Campaigns, DisableSchedule(c) PROVE Rows'
      <3>1. ~schedule'[c].enabled /\ \A d \in Campaigns \ {c} : schedule'[d] = schedule[d]
        BY <2>4 DEF DisableSchedule, Inv, TypeOK, ScheduleRow
      <3> QED
        BY <3>1 DEF SettingsInv
    <2> QED
      BY <2>1, <2>2, <2>3, <2>4, ScheduleWriters
  <1>2. ASSUME NEW s \in Schedulers PROVE Mine(s)'
    <2>1. Mine(s)
      BY DEF SettingsInv
    <2>2. CASE Scan(s)
      <3>1. /\ job'[s].batch = {DueRow(c) : c \in {x \in Campaigns : IsDue(x)}}
            /\ pc'[s] = "tick"
        BY <1>0, <2>2 DEF Scan, Inv, TypeOK, Job
      <3>2. \A c \in Campaigns : IsDue(c) => DueRow(c).setting \in Settings
        BY DEF IsDue, DueRow, SettingsInv
      <3> QED
        BY <3>1, <3>2
    <2>3. CASE CheckDue(s)
      <3>1. PICK d \in Earliest(job[s].batch) :
              job' = [job EXCEPT ![s] = [NoJob EXCEPT !.batch = job[s].batch \ {d},
                        !.campaign = d.campaign, !.setting = d.setting, !.key = d.next]]
        BY <2>3 DEF CheckDue
      <3>2. d \in job[s].batch /\ job'[s].batch \subseteq job[s].batch /\ job'[s].setting = d.setting
        BY <1>0, <3>1 DEF Earliest, Inv, TypeOK, NoJob
      <3> QED
        BY <2>1, <3>2
    <2>4. CASE UpdateNextRun(s) \/ DeferQueueFull(s) \/ TickRaises(s) \/ Crash(s)
      <3>1. job'[s].batch \subseteq job[s].batch /\ pc'[s] \in {"idle", "tick"}
        BY <1>0, <2>4 DEF UpdateNextRun, DeferQueueFull, NextRow, TickRaises, Crash, Inv, TypeOK, NoJob
      <3> QED
        BY <2>1, <3>1
    <2>5. CASE Enqueues(s)
      <3>1. /\ pc[s] \in {"execution", "queue"}
            /\ job' = job \/ \E i \in Items : job' = [job EXCEPT ![s].item = i]
        BY <2>5 DEF Enqueues, InsertExecution, InsertQueueItem, InsertIsDuplicate
      <3>2. job'[s].batch = job[s].batch /\ job'[s].setting = job[s].setting
        BY <1>0, <3>1 DEF Inv, TypeOK, Job
      <3> QED
        BY <2>1, <3>1, <3>2
    <2>6. ASSUME job'[s] = job[s], pc'[s] = pc[s] PROVE Mine(s)'
      BY <2>1, <2>6
    <2>7. ASSUME NEW a \in Actors \ {s}, Enqueues(a) \/ Request(a) \/ Respond(a) \/ Crash(a)
          PROVE  job'[s] = job[s] /\ pc'[s] = pc[s]
      BY <1>0, <2>7 DEF Enqueues, InsertExecution, InsertQueueItem, InsertIsDuplicate, Request,
         Respond, Crash, Inv, TypeOK
    <2>8. ASSUME NEW a \in Schedulers \ {s}, SchedulerStep(a) PROVE Mine(s)'
      <3>1. CASE Enqueues(a)
        BY <3>1, <1>0, <2>6, <2>7
      <3>2. CASE Scan(a) \/ CheckDue(a) \/ UpdateNextRun(a) \/ DeferQueueFull(a) \/ TickRaises(a)
        BY <3>2, <1>0, <2>6 DEF Scan, CheckDue, UpdateNextRun, DeferQueueFull, NextRow, TickRaises,
           Inv, TypeOK
      <3> QED
        BY <2>8, <3>1, <3>2 DEF SchedulerStep
    <2>9. ASSUME NEW r \in Requests, RequestStep(r) PROVE Mine(s)'
      BY <2>9, <2>6, <2>7, ActorsAssumption DEF RequestStep, Actors
    <2>10. CASE UserStep \/ QueueStep \/ Tick \/ UNCHANGED vars
      <3>1. job' = job /\ pc' = pc
        BY <2>10 DEF UserStep, PutSchedule, DisableSchedule, SetStatus, SetKeywords, SetTenantStatus,
           QueueStep, Claim, Retry, Finish, Cancel, Move, Tick, vars
      <3> QED
        BY <3>1, <2>6
    <2> QED
      BY <2>2, <2>3, <2>4, <2>5, <2>6, <2>7, <2>8, <2>9, <2>10 DEF Next, SchedulerStep
  <1> QED
    BY <1>1, <1>2 DEF SettingsInv

\* The initial schedules are enabled and set.
LEMMA SettingsInit == Init => SettingsInv
  <1> SUFFICES ASSUME Init PROVE SettingsInv
    OBVIOUS
  <1>1. \A s \in Schedulers : job[s].batch = {} /\ pc[s] = "idle"
    BY DEF Init, Actors, NoJob
  <1>2. \A c \in Campaigns : schedule[c].setting \in Settings
    BY DEF Init
  <1> QED
    BY <1>1, <1>2 DEF SettingsInv

\* Only update_next_run writes last_run_at.
LEMMA LastIsKept ==
  ASSUME Inv, [Next]_vars, ~\E s \in Schedulers : UpdateNextRun(s)
  PROVE  \A c \in Campaigns : schedule'[c].last = schedule[c].last
  <1>1. CASE schedule' = schedule
    BY <1>1
  <1>2. ASSUME NEW s \in Schedulers, DeferQueueFull(s)
        PROVE  \A c \in Campaigns : schedule'[c].last = schedule[c].last
    BY <1>2 DEF DeferQueueFull, Inv, TypeOK, ScheduleRow
  <1>3. ASSUME NEW d \in Campaigns, PutSchedule(d)
        PROVE  \A c \in Campaigns : schedule'[c].last = schedule[c].last
    <2>1. PICK x \in Settings, on \in BOOLEAN :
            schedule' = [schedule EXCEPT ![d].enabled = on, ![d].setting = x, ![d].next = NextRun(x, now)]
      BY <1>3 DEF PutSchedule
    <2>2. schedule' = [schedule EXCEPT
            ![d] = [schedule[d] EXCEPT !.enabled = on, !.setting = x, !.next = NextRun(x, now)]]
      BY <2>1 DEF Inv, TypeOK
    <2>3. schedule[d] \in ScheduleRow
      BY DEF Inv, TypeOK
    <2> QED
      BY <2>2, <2>3 DEF Inv, TypeOK, ScheduleRow
  <1>4. ASSUME NEW d \in Campaigns, DisableSchedule(d)
        PROVE  \A c \in Campaigns : schedule'[c].last = schedule[c].last
    <2>1. schedule' = [schedule EXCEPT
            ![d] = [schedule[d] EXCEPT !.enabled = FALSE, !.setting = Manual, !.next = Never]]
      BY <1>4 DEF DisableSchedule, Inv, TypeOK
    <2>2. schedule[d] \in ScheduleRow
      BY DEF Inv, TypeOK
    <2> QED
      BY <2>1, <2>2 DEF Inv, TypeOK, ScheduleRow
  <1> QED
    BY <1>1, <1>2, <1>3, <1>4, ScheduleWriters

\* Unless the clocks are put back, the next run is later than now, so that a
\* schedule that has been dealt with is not due again at once.
THEOREM NextRunsAreFuture ==
  ASSUME Fold = 0
  PROVE  Spec => NextRunIsFuture
  <1>1. ASSUME NEW x \in Settings, NEW t \in Nat PROVE NextRun(x, t) > t
    <2>1. CASE x \in [kind : {"interval"}, n : Nat \ {0}]
      BY <2>1 DEF NextRun
    <2>2. CASE x \in [kind : {"daily"}, n : 0..(Day - 1)]
      <3>1. NextRun(x, t) = NextDaily(x.n, t)
        BY <2>2 DEF NextRun
      <3> QED
        BY <2>2, <3>1, NextDailyIsTime
    <2> QED
      BY <2>1, <2>2, SettingsAssumption
  <1>2. ASSUME Inv, SettingsInv, NEW s \in Schedulers, UpdateNextRun(s)
        PROVE  \A c \in Campaigns : schedule'[c].last # schedule[c].last => schedule'[c].next > now
    <2>1. job[s].campaign \in Campaigns /\ job[s].setting \in Settings /\ now \in Nat
      BY <1>2, BoundsAssumption DEF UpdateNextRun, Inv, InHand, TypeOK, SettingsInv, Actors
    <2>2. /\ schedule'[job[s].campaign].next = NextRun(job[s].setting, now)
          /\ \A c \in Campaigns \ {job[s].campaign} : schedule'[c] = schedule[c]
      BY <1>2, <2>1 DEF UpdateNextRun, Inv, TypeOK, ScheduleRow
    <2> QED
      BY <1>1, <2>1, <2>2
  <1>3. ASSUME Inv, [Next]_vars, ~\E s \in Schedulers : UpdateNextRun(s)
        PROVE  \A c \in Campaigns : schedule'[c].last = schedule[c].last
    BY <1>3, LastIsKept
  <1>4. Inv /\ SettingsInv /\ [Next]_vars
          => [\A c \in Campaigns : schedule'[c].last # schedule[c].last => schedule'[c].next > now]_vars
    BY <1>2, <1>3
  <1>5. Inv /\ SettingsInv /\ [Next]_vars => SettingsInv'
    BY SettingsStep
  <1> QED
    BY <1>4, <1>5, SettingsInit, InvHolds, PTL DEF Spec, NextRunIsFuture

-----------------------------------------------------------------------------
(* The backlog of a tenant.                                                *)

\* Who passed the guards and is about to add to what waits for tenant t.
Committed(t) == {a \in Actors : pc[a] \in {"execution", "queue"} /\ TenantOf[job[a].campaign] = t}

\* Whoever passes the guards finds fewer than QueueLimit waiting, and from then on an
\* insert only turns a committed actor into a fresh item.
Backlog ==
  \A t \in Tenants :
    Cardinality(Fresh(t)) + Cardinality(Committed(t)) < QueueLimit + Cardinality(Actors)

\* The sets and the numbers that are compared.
LEMMA BacklogFinite ==
  ASSUME NEW t
  PROVE  /\ IsFiniteSet(Fresh(t)) /\ Cardinality(Fresh(t)) \in Nat
         /\ IsFiniteSet(Committed(t)) /\ Cardinality(Committed(t)) \in Nat
         /\ IsFiniteSet(Waiting(t)) /\ Cardinality(Waiting(t)) \in Nat
         /\ Cardinality(Fresh(t)) <= Cardinality(Waiting(t))
         /\ IsFiniteSet(Actors) /\ Cardinality(Actors) \in Nat /\ QueueLimit \in Nat
  <1>1. IsFiniteSet(Items) /\ IsFiniteSet(Actors)
    BY FS_Interval, BoundsAssumption, ActorsAssumption DEF Items
  <1>2. /\ Fresh(t) \subseteq Waiting(t) /\ Waiting(t) \subseteq Items
        /\ Committed(t) \subseteq Actors
    BY DEF Fresh, OfTenant, Waiting, Committed
  <1>3. IsFiniteSet(Waiting(t))
    BY <1>1, <1>2, FS_Subset
  <1>4. IsFiniteSet(Fresh(t)) /\ Cardinality(Fresh(t)) <= Cardinality(Waiting(t))
    BY <1>2, <1>3, FS_Subset
  <1>5. IsFiniteSet(Committed(t))
    BY <1>1, <1>2, FS_Subset
  <1> QED
    BY <1>1, <1>3, <1>4, <1>5, FS_CardinalityType, BoundsAssumption

\* Steps that add neither fresh items nor commitments.
LEMMA BacklogShrinks ==
  ASSUME Backlog,
         \A t \in Tenants : Fresh(t)' \subseteq Fresh(t) /\ Committed(t)' \subseteq Committed(t)
  PROVE  Backlog'
  <1> SUFFICES ASSUME NEW t \in Tenants
               PROVE  Cardinality(Fresh(t)') + Cardinality(Committed(t)')
                        < QueueLimit + Cardinality(Actors)
    BY DEF Backlog
  <1>1. /\ Cardinality(Fresh(t)') <= Cardinality(Fresh(t)) /\ IsFiniteSet(Fresh(t)')
        /\ Cardinality(Committed(t)') <= Cardinality(Committed(t)) /\ IsFiniteSet(Committed(t)')
    BY BacklogFinite, FS_Subset
  <1>2. Cardinality(Fresh(t)') \in Nat /\ Cardinality(Committed(t)') \in Nat
    BY <1>1, FS_CardinalityType
  <1> QED
    BY <1>1, <1>2, BacklogFinite DEF Backlog

\* An actor that passes the guards for campaign c finds room in the queue.
LEMMA BacklogCommits ==
  ASSUME Inv, Backlog, NEW a \in Actors, NEW c \in Campaigns, NEW key, Verdict(c, key) = "ok",
         item' = item, \A b \in Actors \ {a} : pc'[b] = pc[b] /\ job'[b] = job[b],
         job'[a].campaign = c
  PROVE  Backlog'
  <1> SUFFICES ASSUME NEW t \in Tenants
               PROVE  Cardinality(Fresh(t)') + Cardinality(Committed(t)')
                        < QueueLimit + Cardinality(Actors)
    BY DEF Backlog
  <1>1. Fresh(t)' = Fresh(t)
    BY DEF Fresh, OfTenant
  <1>2. CASE t # TenantOf[c]
    <2>1. Committed(t)' \subseteq Committed(t)
      BY <1>2 DEF Committed
    <2>2. Cardinality(Committed(t)') <= Cardinality(Committed(t)) /\ IsFiniteSet(Committed(t)')
      BY <2>1, BacklogFinite, FS_Subset
    <2>3. Cardinality(Committed(t)') \in Nat
      BY <2>2, FS_CardinalityType
    <2> QED
      BY <1>1, <2>2, <2>3, BacklogFinite DEF Backlog
  <1>3. CASE t = TenantOf[c]
    <2>1. Cardinality(Fresh(t)) < QueueLimit
      <3>1. ~QueueFull(t)
        BY <1>3 DEF Verdict
      <3>2. ~(Cardinality(Waiting(t)) >= QueueLimit)
        BY <3>1 DEF QueueFull
      <3> QED
        BY <3>2, BacklogFinite
    <2>2. Committed(t)' \subseteq Actors
      BY DEF Committed
    <2>3. Cardinality(Committed(t)') <= Cardinality(Actors) /\ IsFiniteSet(Committed(t)')
      BY <2>2, BacklogFinite, FS_Subset
    <2>4. Cardinality(Committed(t)') \in Nat
      BY <2>3, FS_CardinalityType
    <2> QED
      BY <1>1, <2>1, <2>3, <2>4, BacklogFinite
  <1> QED
    BY <1>2, <1>3

\* An insert turns a committed actor into a fresh item.
LEMMA BacklogInserts ==
  ASSUME Inv, Backlog, NEW a \in Actors, InsertQueueItem(a)
  PROVE  Backlog'
  <1> DEFINE i == job[a].item
  <1>1. /\ i \in Items /\ item[i].state = "execution" /\ item[i].campaign = job[a].campaign
        /\ job[a].campaign \in Campaigns /\ pc[a] = "queue" /\ job' = job
    BY DEF InsertQueueItem, Inv, InHand, HoldsItem
  <1>2. /\ item'[i].state = "queued" /\ item'[i].campaign = item[i].campaign
        /\ \A j \in Items \ {i} : item'[j] = item[j]
    BY <1>1 DEF InsertQueueItem, Inv, TypeOK, Item
  <1>3. /\ pc'[a] \notin {"execution", "queue"} /\ \A b \in Actors \ {a} : pc'[b] = pc[b]
    BY <1>1 DEF InsertQueueItem, Inv, TypeOK
  <1> HIDE DEF i
  <1> SUFFICES ASSUME NEW t \in Tenants
               PROVE  Cardinality(Fresh(t)') + Cardinality(Committed(t)')
                        < QueueLimit + Cardinality(Actors)
    BY DEF Backlog
  <1>4. CASE TenantOf[job[a].campaign] = t
    <2>1. Fresh(t)' = Fresh(t) \cup {i} /\ i \notin Fresh(t)
      BY <1>1, <1>2, <1>4 DEF Fresh, OfTenant
    <2>2. Committed(t)' = Committed(t) \ {a} /\ a \in Committed(t)
      BY <1>1, <1>3, <1>4 DEF Committed
    <2>3. Cardinality(Fresh(t)') = Cardinality(Fresh(t)) + 1
      BY <2>1, BacklogFinite, FS_AddElement
    <2>4. Cardinality(Committed(t)') = Cardinality(Committed(t)) - 1
      BY <2>2, BacklogFinite, FS_RemoveElement
    <2> QED
      BY <2>3, <2>4, BacklogFinite DEF Backlog
  <1>5. CASE TenantOf[job[a].campaign] # t
    <2>1. Fresh(t)' = Fresh(t)
      BY <1>1, <1>2, <1>5 DEF Fresh, OfTenant
    <2>2. Committed(t)' = Committed(t)
      BY <1>1, <1>3, <1>5 DEF Committed
    <2> QED
      BY <2>1, <2>2 DEF Backlog
  <1> QED
    BY <1>4, <1>5

\* Nothing that leaves the queue, or returns to it for a retry, is fresh.
LEMMA BacklogMoves ==
  ASSUME Inv, Backlog, QueueStep
  PROVE  Backlog'
  <1>1. PICK i \in Items, to \in {"taken", "retry", "done", "failed"} :
          item' = [item EXCEPT ![i].state = to] /\ pc' = pc /\ job' = job
    BY DEF QueueStep, Claim, Retry, Finish, Cancel, Move
  <1>2. /\ item'[i].state = to /\ item'[i].campaign = item[i].campaign
        /\ \A j \in Items \ {i} : item'[j] = item[j]
    BY <1>1 DEF Inv, TypeOK, Item
  <1>3. \A t \in Tenants : Fresh(t)' \subseteq Fresh(t) /\ Committed(t)' \subseteq Committed(t)
    BY <1>1, <1>2 DEF Fresh, OfTenant, Committed
  <1> QED
    BY <1>3, BacklogShrinks

\* The steps that leave pc and job of all actors but a alone and no item either.
LEMMA BacklogFrame ==
  ASSUME Inv, Backlog, item' = item, NEW a \in Actors,
         \A b \in Actors \ {a} : pc'[b] = pc[b] /\ job'[b] = job[b],
         pc'[a] \notin {"execution", "queue"}
  PROVE  Backlog'
  <1>1. \A t \in Tenants : Fresh(t)' \subseteq Fresh(t) /\ Committed(t)' \subseteq Committed(t)
    BY DEF Fresh, OfTenant, Committed
  <1> QED
    BY <1>1, BacklogShrinks

\* The steps of a scheduler but the inserts.
LEMMA BacklogSchedulers ==
  ASSUME Inv, Backlog, NEW s \in Schedulers, SchedulerStep(s), ~Enqueues(s)
  PROVE  Backlog'
  <1>1. /\ s \in Actors /\ item' = item /\ pc \in [Actors -> Phases] /\ job \in [Actors -> Job]
    BY DEF Actors, Inv, TypeOK, SchedulerStep, Scan, CheckDue, UpdateNextRun, DeferQueueFull, NextRow,
           TickRaises
  <1>2. CASE CheckDue(s)
    <2>1. PICK d \in Earliest(job[s].batch) :
            /\ job' = [job EXCEPT ![s] = [NoJob EXCEPT !.batch = job[s].batch \ {d},
                         !.campaign = d.campaign, !.setting = d.setting, !.key = d.next]]
            /\ pc' = [pc EXCEPT ![s] = SchedulerAfter[Verdict(d.campaign, d.next)]]
      BY <1>2 DEF CheckDue
    <2>2. d.campaign \in Campaigns
      BY <1>1, <2>1 DEF Earliest, Job, Due
    <2>3. /\ \A b \in Actors \ {s} : pc'[b] = pc[b] /\ job'[b] = job[b]
          /\ job'[s].campaign = d.campaign
          /\ pc'[s] = SchedulerAfter[Verdict(d.campaign, d.next)]
      BY <1>1, <2>1 DEF NoJob
    <2>4. CASE Verdict(d.campaign, d.next) = "ok"
      BY <1>1, <2>2, <2>3, <2>4, BacklogCommits
    <2>5. CASE Verdict(d.campaign, d.next) # "ok"
      <3>1. Verdict(d.campaign, d.next) \in Results
        BY VerdictIsResult
      <3>2. \A v \in Results \ {"ok"} : SchedulerAfter[v] \notin {"execution", "queue"}
        BY DEF Results, SchedulerAfter
      <3>3. pc'[s] \notin {"execution", "queue"}
        BY <2>3, <2>5, <3>1, <3>2
      <3> QED
        BY <1>1, <2>3, <3>3, BacklogFrame
    <2> QED
      BY <2>4, <2>5
  <1>3. CASE Scan(s) \/ UpdateNextRun(s) \/ DeferQueueFull(s) \/ TickRaises(s)
    <2>1. /\ \A b \in Actors \ {s} : pc'[b] = pc[b] /\ job'[b] = job[b]
          /\ pc'[s] \notin {"execution", "queue"}
      BY <1>1, <1>3 DEF Scan, UpdateNextRun, DeferQueueFull, NextRow, TickRaises
    <2> QED
      BY <1>1, <2>1, BacklogFrame
  <1> QED
    BY <1>2, <1>3 DEF SchedulerStep

\* The steps of a request but the inserts.
LEMMA BacklogRequests ==
  ASSUME Inv, Backlog, NEW r \in Requests, RequestStep(r), ~Enqueues(r)
  PROVE  Backlog'
  <1>1. /\ r \in Actors /\ item' = item /\ pc \in [Actors -> Phases] /\ job \in [Actors -> Job]
    BY DEF Actors, Inv, TypeOK, RequestStep, Request, Respond
  <1>2. CASE Request(r)
    <2>1. PICK c \in Campaigns, retry \in BOOLEAN :
            /\ job' = [job EXCEPT ![r] = [NoJob EXCEPT !.campaign = c, !.retry = retry]]
            /\ pc' = [pc EXCEPT ![r] = IF Verdict(c, Never) = "ok" THEN "execution" ELSE "refused"]
      BY <1>2 DEF Request
    <2>2. /\ \A b \in Actors \ {r} : pc'[b] = pc[b] /\ job'[b] = job[b]
          /\ job'[r].campaign = c
          /\ pc'[r] = IF Verdict(c, Never) = "ok" THEN "execution" ELSE "refused"
      BY <1>1, <2>1 DEF NoJob
    <2>3. CASE Verdict(c, Never) = "ok"
      BY <1>1, <2>2, <2>3, BacklogCommits
    <2>4. CASE Verdict(c, Never) # "ok"
      BY <1>1, <2>2, <2>4, BacklogFrame
    <2> QED
      BY <2>3, <2>4
  <1>3. CASE Respond(r)
    <2>1. /\ \A b \in Actors \ {r} : pc'[b] = pc[b] /\ job'[b] = job[b]
          /\ pc'[r] \notin {"execution", "queue"}
      BY <1>1, <1>3 DEF Respond
    <2> QED
      BY <1>1, <2>1, BacklogFrame
  <1> QED
    BY <1>2, <1>3 DEF RequestStep

\* The inserts that add no waiting item.
LEMMA BacklogOtherInserts ==
  ASSUME Inv, Backlog, NEW a \in Actors, InsertExecution(a) \/ InsertIsDuplicate(a)
  PROVE  Backlog'
  <1>1. pc \in [Actors -> Phases] /\ job \in [Actors -> Job] /\ item \in [Items -> Item]
    BY DEF Inv, TypeOK
  <1>2. CASE InsertExecution(a)
    <2>1. PICK i \in Items :
            /\ item[i].state = "absent"
            /\ item' = [item EXCEPT ![i].state = "execution", ![i].campaign = job[a].campaign]
            /\ job' = [job EXCEPT ![a].item = i]
      BY <1>2 DEF InsertExecution
    <2>2. item'[i].state = "execution" /\ \A j \in Items \ {i} : item'[j] = item[j]
      BY <1>1, <2>1 DEF Item
    <2>3. /\ \A b \in Actors : job'[b].campaign = job[b].campaign
          /\ \A b \in Actors \ {a} : pc'[b] = pc[b]
          /\ pc[a] = "execution"
      BY <1>1, <1>2, <2>1 DEF InsertExecution, Job
    <2>4. \A t \in Tenants : Fresh(t)' \subseteq Fresh(t) /\ Committed(t)' \subseteq Committed(t)
      BY <2>2, <2>3 DEF Fresh, OfTenant, Committed
    <2> QED
      BY <2>4, BacklogShrinks
  <1>3. CASE InsertIsDuplicate(a)
    <2>1. /\ job[a].item \in Items /\ item[job[a].item].state = "execution"
      BY <1>3 DEF InsertIsDuplicate, Inv, InHand, HoldsItem
    <2>2. /\ item'[job[a].item].state = "absent" /\ \A j \in Items \ {job[a].item} : item'[j] = item[j]
      BY <1>1, <1>3, <2>1 DEF InsertIsDuplicate, NoItem
    <2>3. job' = job /\ \A b \in Actors : pc'[b] \in {"execution", "queue"} => pc'[b] = pc[b]
      BY <1>1, <1>3 DEF InsertIsDuplicate
    <2>4. \A t \in Tenants : Fresh(t)' \subseteq Fresh(t) /\ Committed(t)' \subseteq Committed(t)
      BY <2>2, <2>3 DEF Fresh, OfTenant, Committed
    <2> QED
      BY <2>4, BacklogShrinks
  <1> QED
    BY <1>2, <1>3

LEMMA BacklogStep ==
  ASSUME Inv, Backlog, [Next]_vars
  PROVE  Backlog'
  <1>1. ASSUME NEW a \in Actors, Enqueues(a) PROVE Backlog'
    BY <1>1, BacklogInserts, BacklogOtherInserts DEF Enqueues
  <1>2. ASSUME NEW s \in Schedulers, SchedulerStep(s) PROVE Backlog'
    BY <1>1, <1>2, BacklogSchedulers DEF Actors
  <1>3. ASSUME NEW r \in Requests, RequestStep(r) PROVE Backlog'
    BY <1>1, <1>3, BacklogRequests DEF Actors
  <1>4. ASSUME NEW a \in Actors, Crash(a) PROVE Backlog'
    <2>1. /\ item' = item /\ \A b \in Actors \ {a} : pc'[b] = pc[b] /\ job'[b] = job[b]
          /\ pc'[a] = "idle"
      BY <1>4 DEF Crash, Inv, TypeOK
    <2> QED
      BY <1>4, <2>1, BacklogFrame
  <1>5. CASE QueueStep
    BY <1>5, BacklogMoves
  <1>6. CASE UserStep \/ Tick \/ UNCHANGED vars
    <2>1. item' = item /\ pc' = pc /\ job' = job
      BY <1>6 DEF UserStep, PutSchedule, DisableSchedule, SetStatus, SetKeywords, SetTenantStatus, Tick, vars
    <2>2. \A t \in Tenants : Fresh(t)' \subseteq Fresh(t) /\ Committed(t)' \subseteq Committed(t)
      BY <2>1 DEF Fresh, OfTenant, Committed
    <2> QED
      BY <2>2, BacklogShrinks
  <1> QED
    BY <1>2, <1>3, <1>4, <1>5, <1>6 DEF Next

\* The backlog of a tenant stays bounded although the queue limit is counted before the
\* insert and the inserts of others come between (enqueue_campaign_execution).
THEOREM BacklogStaysBounded == Spec => []BacklogBounded
  <1>1. Init => Backlog
    <2> SUFFICES ASSUME Init, NEW t \in Tenants
                 PROVE  Cardinality(Fresh(t)) + Cardinality(Committed(t))
                          < QueueLimit + Cardinality(Actors)
      BY DEF Backlog
    <2>1. Fresh(t) = {} /\ Committed(t) = {}
      <3>1. \A i \in Items : item[i].state = "absent"
        BY DEF Init, NoItem
      <3>2. \A a \in Actors : pc[a] = "idle"
        BY DEF Init
      <3> QED
        BY <3>1, <3>2 DEF Fresh, OfTenant, Committed
    <2>2. Cardinality(Fresh(t)) = 0 /\ Cardinality(Committed(t)) = 0
      BY <2>1, FS_EmptySet
    <2> QED
      BY <2>2, BacklogFinite, BoundsAssumption
  <1>2. Backlog => BacklogBounded
    BY BacklogFinite DEF Backlog, BacklogBounded
  <1> QED
    BY <1>1, <1>2, BacklogStep, InvHolds, PTL DEF Spec

-----------------------------------------------------------------------------
(* Runs of a schedule keep their distance.                                 *)

\* One scheduler works.
OneScheduler == \E s : Schedulers = {s}

\* Users set no schedule anew; they may disable it, pause the campaign, take its
\* keywords away, suspend the tenant.
SettingsStand == "put" \notin Editable

Paced(c)   == schedule[c].setting.kind = "interval"
Working(s) == pc[s] \notin {"idle", "tick"}

\* What was enqueued for a window was enqueued at a time that has passed.
EnqueuedInPast ==
  \A i \in Items : Scheduled(i) =>
    item[i].campaign \in Campaigns /\ item[i].at \in Nat /\ item[i].at <= now

\* What the scheduler scanned is still what the schedule says.
RowsAreCurrent ==
  \A s \in Schedulers : \A d \in job[s].batch : Paced(d.campaign) =>
    /\ d.setting = schedule[d.campaign].setting
    /\ d.next = schedule[d.campaign].next /\ d.next <= now

\* So is the row it works on, which is not among those to come; a window that is
\* deferred is not in the queue.
HandIsCurrent ==
  \A s \in Schedulers : Working(s) /\ job[s].campaign \in Campaigns /\ Paced(job[s].campaign) =>
    /\ job[s].setting = schedule[job[s].campaign].setting
    /\ job[s].key = schedule[job[s].campaign].next /\ job[s].key <= now
    /\ \A d \in job[s].batch : d.campaign # job[s].campaign
    /\ pc[s] = "defer" => ~Enqueued(job[s].campaign, job[s].key)

\* The next run is a time; a run that was enqueued either is the one for which the
\* next run is still to be written, or lies an interval before the next.
NextIsSpaced ==
  /\ \A c \in Campaigns : Paced(c) => schedule[c].next \in Nat
  /\ \A i \in Items : Scheduled(i) /\ Paced(item[i].campaign) =>
       LET row == schedule[item[i].campaign]
       IN  item[i].key = row.next \/ row.next >= item[i].at + row.setting.n

PaceInv ==
  /\ RequestsUnkeyed
  /\ EnqueuedInPast
  /\ RowsAreCurrent
  /\ HandIsCurrent
  /\ NextIsSpaced
  /\ RunsAreSpaced

\* An interval is a positive number of minutes, counted from the run before.
LEMMA PacedSetting ==
  ASSUME TypeOK, NEW c \in Campaigns, Paced(c)
  PROVE  /\ schedule[c].setting.n \in Nat \ {0}
         /\ \A t \in Nat : NextRun(schedule[c].setting, t) = t + schedule[c].setting.n
  <1> DEFINE x == schedule[c].setting
  <1>1. x \in Setting /\ x.kind = "interval"
    BY DEF TypeOK, ScheduleRow, Paced
  <1>2. x \in [kind : {"interval"}, n : Nat \ {0}]
    BY <1>1, SettingsAssumption DEF Setting, Manual
  <1> HIDE DEF x
  <1>3. x.n \in Nat \ {0} /\ \A t \in Nat : NextRun(x, t) = t + x.n
    BY <1>1, <1>2 DEF NextRun
  <1> QED
    BY <1>3 DEF x

\* What is enqueued is scheduled, when it has a key.
LEMMA EnqueuedIsScheduled ==
  ASSUME NEW c, NEW key
  PROVE  Enqueued(c, key) <=>
           \E i \in Items : Scheduled(i) /\ item[i].campaign = c /\ item[i].key = key
  BY DEF Enqueued, Scheduled

\* A schedule that is paced is so already, and has the same next run.
KeepsRows ==
  \A c \in Campaigns : Paced(c)' =>
    /\ Paced(c)
    /\ schedule'[c].setting = schedule[c].setting /\ schedule'[c].next = schedule[c].next

\* The scheduler puts down what it has in hand, or goes on with it.
KeepsHands ==
  \A s \in Schedulers :
    /\ job'[s].batch \subseteq job[s].batch
    /\ Working(s)' =>
         /\ Working(s) /\ job'[s].campaign = job[s].campaign
         /\ job'[s].setting = job[s].setting /\ job'[s].key = job[s].key
         /\ pc'[s] = "defer" => pc[s] = "defer"

\* Runs that keep their windows keep their distance.
LEMMA SpacedFrame ==
  ASSUME Inv, Inv', EnqueuedInPast, RunsAreSpaced, KeepsWindows, now' >= now,
         \A c \in Campaigns : Paced(c)' => Paced(c) /\ schedule'[c].setting = schedule[c].setting
  PROVE  EnqueuedInPast' /\ RunsAreSpaced'
  <1>1. EnqueuedInPast'
    <2>1. now \in Nat /\ now' \in Nat
      BY BoundsAssumption DEF Inv, TypeOK
    <2> QED
      BY <2>1 DEF EnqueuedInPast, KeepsWindows
  <1>2. RunsAreSpaced'
    <2> SUFFICES ASSUME NEW i \in Items, NEW j \in Items, i # j, Scheduled(i)', Scheduled(j)',
                        item'[i].campaign = item'[j].campaign,
                        schedule'[item'[i].campaign].setting.kind = "interval",
                        item'[i].at <= item'[j].at
                 PROVE  item'[j].at >= item'[i].at + schedule'[item'[i].campaign].setting.n
      BY DEF RunsAreSpaced
    <2>1. /\ Scheduled(i) /\ Scheduled(j) /\ item'[i].campaign = item[i].campaign
          /\ item'[j].campaign = item[j].campaign
          /\ item'[i].at = item[i].at /\ item'[j].at = item[j].at
          /\ item[i].campaign \in Campaigns
      BY DEF KeepsWindows, EnqueuedInPast
    <2>2. /\ schedule[item[i].campaign].setting.kind = "interval"
          /\ schedule'[item[i].campaign].setting = schedule[item[i].campaign].setting
      BY <2>1 DEF Paced
    <2> QED
      BY <2>1, <2>2 DEF RunsAreSpaced
  <1> QED
    BY <1>1, <1>2

\* What is kept stays spaced.
LEMMA PaceFrame ==
  ASSUME Inv, Inv', PaceInv, KeepsWindows, KeepsRows, KeepsHands, RequestsUnkeyed', now' >= now
  PROVE  PaceInv'
  <1>0. /\ now \in Nat /\ now' \in Nat
        /\ \A s \in Schedulers : s \in Actors /\ job[s] \in Job /\ job'[s] \in Job
        /\ \A s \in Schedulers : \A d \in job[s].batch : d \in Due
        /\ \A d \in Due : d.next \in Nat /\ d.campaign \in Campaigns
    BY BoundsAssumption DEF Inv, TypeOK, Actors, Job, Due
  <1>1. EnqueuedInPast' /\ RunsAreSpaced'
    BY SpacedFrame DEF PaceInv, KeepsRows
  <1>2. RowsAreCurrent'
    <2> SUFFICES ASSUME NEW s \in Schedulers, NEW d \in job'[s].batch, Paced(d.campaign)'
                 PROVE  /\ d.setting = schedule'[d.campaign].setting
                        /\ d.next = schedule'[d.campaign].next /\ d.next <= now'
      BY DEF RowsAreCurrent
    <2>1. d \in job[s].batch /\ d.campaign \in Campaigns /\ d.next \in Nat
      BY <1>0 DEF KeepsHands
    <2> QED
      BY <1>0, <2>1 DEF PaceInv, RowsAreCurrent, KeepsRows
  <1>3. HandIsCurrent'
    <2> SUFFICES ASSUME NEW s \in Schedulers, Working(s)', job'[s].campaign \in Campaigns,
                        Paced(job[s].campaign)'
                 PROVE  /\ job'[s].setting = schedule'[job'[s].campaign].setting
                        /\ job'[s].key = schedule'[job'[s].campaign].next /\ job'[s].key <= now'
                        /\ \A d \in job'[s].batch : d.campaign # job'[s].campaign
                        /\ pc'[s] = "defer" => ~Enqueued(job[s].campaign, job[s].key)'
      BY DEF HandIsCurrent
    <2>1. /\ Working(s) /\ job'[s].campaign = job[s].campaign /\ job'[s].setting = job[s].setting
          /\ job'[s].key = job[s].key /\ (pc'[s] = "defer" => pc[s] = "defer")
          /\ job'[s].batch \subseteq job[s].batch
      BY DEF KeepsHands
    <2>2. /\ Paced(job[s].campaign)
          /\ schedule'[job[s].campaign].setting = schedule[job[s].campaign].setting
          /\ schedule'[job[s].campaign].next = schedule[job[s].campaign].next
      BY <2>1 DEF KeepsRows, Paced
    <2>3. /\ job[s].setting = schedule[job[s].campaign].setting
          /\ job[s].key = schedule[job[s].campaign].next /\ job[s].key <= now
          /\ \A d \in job[s].batch : d.campaign # job[s].campaign
          /\ pc[s] = "defer" => ~Enqueued(job[s].campaign, job[s].key)
      BY <2>1, <2>2 DEF PaceInv, HandIsCurrent
    <2>4. job[s].key \in Nat
      BY <2>1, <2>2, <2>3 DEF PaceInv, NextIsSpaced
    <2>5. ~Enqueued(job[s].campaign, job[s].key) => ~Enqueued(job[s].campaign, job[s].key)'
      BY <2>1 DEF KeepsWindows, Enqueued, Scheduled
    <2> QED
      BY <1>0, <2>1, <2>2, <2>3, <2>4, <2>5
  <1>4. NextIsSpaced'
    <2>1. \A c \in Campaigns : Paced(c)' => schedule'[c].next \in Nat
      BY DEF KeepsRows, PaceInv, NextIsSpaced
    <2> SUFFICES ASSUME NEW i \in Items, Scheduled(i)', Paced(item[i].campaign)'
                 PROVE  LET row == schedule'[item'[i].campaign]
                        IN  item'[i].key = row.next \/ row.next >= item'[i].at + row.setting.n
      BY <2>1 DEF NextIsSpaced
    <2>2. /\ Scheduled(i) /\ item'[i].campaign = item[i].campaign
          /\ item'[i].key = item[i].key /\ item'[i].at = item[i].at
          /\ item[i].campaign \in Campaigns
      BY DEF KeepsWindows, PaceInv, EnqueuedInPast
    <2>3. /\ Paced(item[i].campaign)
          /\ schedule'[item[i].campaign].setting = schedule[item[i].campaign].setting
          /\ schedule'[item[i].campaign].next = schedule[item[i].campaign].next
      BY <2>2 DEF KeepsRows, Paced
    <2> QED
      BY <2>2, <2>3 DEF PaceInv, NextIsSpaced
  <1> QED
    BY <1>1, <1>2, <1>3, <1>4 DEF PaceInv

\* Most steps enqueue nothing, set no next run and take up no row.
LEMMA PaceOthers ==
  ASSUME Inv, PaceInv, SettingsStand, [Next]_vars,
         ~\E a \in Actors : InsertQueueItem(a),
         ~\E s \in Schedulers : Scan(s) \/ CheckDue(s) \/ UpdateNextRun(s) \/ DeferQueueFull(s)
  PROVE  PaceInv'
  <1>1. KeepsWindows
    <2>1. CASE UNCHANGED vars
      BY <2>1 DEF vars, KeepsWindows, Scheduled, IsQueueItem
    <2> QED
      BY <2>1, WindowFrame
  <1>2. KeepsRows
    <2>1. CASE schedule' = schedule
      BY <2>1 DEF KeepsRows, Paced
    <2>2. ASSUME NEW c \in Campaigns, DisableSchedule(c) PROVE KeepsRows
      <3>1. /\ schedule'[c].setting = Manual
            /\ \A d \in Campaigns \ {c} : schedule'[d] = schedule[d]
        BY <2>2 DEF DisableSchedule, Inv, TypeOK, ScheduleRow
      <3> QED
        BY <3>1 DEF KeepsRows, Paced, Manual
    <2>3. ~\E c \in Campaigns : PutSchedule(c)
      BY DEF PutSchedule, Edit, SettingsStand
    <2> QED
      BY <2>1, <2>2, <2>3, ScheduleWriters
  <1>3. KeepsHands
    <2> SUFFICES ASSUME NEW s \in Schedulers
                 PROVE  /\ job'[s].batch \subseteq job[s].batch
                        /\ Working(s)' =>
                             /\ Working(s) /\ job'[s].campaign = job[s].campaign
                             /\ job'[s].setting = job[s].setting /\ job'[s].key = job[s].key
                             /\ pc'[s] = "defer" => pc[s] = "defer"
      BY DEF KeepsHands
    <2>0. s \in Actors /\ job[s] \in Job /\ s \notin Requests
      BY ActorsAssumption DEF Inv, TypeOK, Actors
    <2>1. CASE job'[s] = job[s] /\ pc'[s] = pc[s]
      BY <2>1 DEF Working
    <2>2. CASE TickRaises(s) \/ Crash(s)
      BY <2>0, <2>2 DEF TickRaises, Crash, Inv, TypeOK, NoJob, Working
    <2>3. CASE Enqueues(s)
      <3>1. /\ pc[s] \in {"execution", "queue"} /\ pc'[s] \in {"queue", "advance"}
            /\ job' = job \/ \E i \in Items : job' = [job EXCEPT ![s].item = i]
        BY <2>0, <2>3 DEF Enqueues, InsertExecution, InsertQueueItem, InsertIsDuplicate, Inv, TypeOK
      <3>2. /\ job'[s].batch = job[s].batch /\ job'[s].campaign = job[s].campaign
            /\ job'[s].setting = job[s].setting /\ job'[s].key = job[s].key
        BY <2>0, <3>1 DEF Inv, TypeOK, Job
      <3> QED
        BY <3>1, <3>2 DEF Working
    <2>4. ASSUME NEW a \in Actors \ {s},
                 \/ a \in Schedulers /\ SchedulerStep(a)
                 \/ a \in Requests /\ RequestStep(a)
                 \/ Crash(a)
          PROVE  job'[s] = job[s] /\ pc'[s] = pc[s]
      BY <2>0, <2>4, ActorStep
    <2>5. CASE UserStep \/ QueueStep \/ Tick \/ UNCHANGED vars
      <3>1. job' = job /\ pc' = pc
        BY <2>5 DEF UserStep, PutSchedule, DisableSchedule, SetStatus, SetKeywords, SetTenantStatus,
           QueueStep, Claim, Retry, Finish, Cancel, Move, Tick, vars
      <3> QED
        BY <3>1, <2>1
    <2> QED
      BY <2>0, <2>1, <2>2, <2>3, <2>4, <2>5 DEF Next, SchedulerStep, Actors
  <1>4. now' >= now
    <2>1. now \in Nat
      BY BoundsAssumption DEF Inv, TypeOK
    <2>2. now' = now \/ now' = now + 1
      BY DEF Next, SchedulerStep, Scan, CheckDue, UpdateNextRun, DeferQueueFull, NextRow, TickRaises,
         RequestStep, Request, Respond, Enqueues, InsertExecution, InsertQueueItem, InsertIsDuplicate,
         Crash, UserStep, PutSchedule, DisableSchedule, SetStatus, SetKeywords, SetTenantStatus,
         QueueStep, Claim, Retry, Finish, Cancel, Move, Tick, vars
    <2> QED
      BY <2>1, <2>2
  <1> QED
    BY <1>1, <1>2, <1>3, <1>4, UnkeyedStep, InvNext, PaceFrame DEF PaceInv

\* What a scan returns is what the schedules say.
LEMMA PaceScan ==
  ASSUME Inv, PaceInv, NEW s, Schedulers = {s}, Scan(s)
  PROVE  PaceInv'
  <1>0. s \in Actors /\ job[s] \in Job
    BY DEF Inv, TypeOK, Actors
  <1>1. /\ job'[s].batch = {DueRow(c) : c \in {x \in Campaigns : IsDue(x)}} /\ pc'[s] = "tick"
        /\ item' = item /\ schedule' = schedule /\ now' = now
    BY <1>0 DEF Scan, Inv, TypeOK, Job, editVars
  <1>2. RequestsUnkeyed'
    BY UnkeyedStep DEF PaceInv, Next, SchedulerStep
  <1>3. EnqueuedInPast' /\ NextIsSpaced' /\ RunsAreSpaced'
    BY <1>1 DEF PaceInv, EnqueuedInPast, NextIsSpaced, RunsAreSpaced, Scheduled, IsQueueItem, Paced
  <1>4. RowsAreCurrent'
    <2>1. \A c \in Campaigns : IsDue(c) =>
            /\ DueRow(c).campaign = c /\ DueRow(c).setting = schedule[c].setting
            /\ DueRow(c).next = schedule[c].next /\ DueRow(c).next <= now
      BY DEF IsDue, DueRow
    <2> QED
      BY <1>1, <2>1 DEF RowsAreCurrent
  <1>5. HandIsCurrent'
    BY <1>1 DEF HandIsCurrent, Working
  <1> QED
    BY <1>2, <1>3, <1>4, <1>5 DEF PaceInv

\* Two rows of one schedule that are both current are the same row.
LEMMA PaceCheck ==
  ASSUME Inv, PaceInv, NEW s, Schedulers = {s}, CheckDue(s)
  PROVE  PaceInv'
  <1>0. s \in Actors /\ job[s] \in Job /\ job[s].batch \subseteq Due
    BY DEF Inv, TypeOK, Actors, Job
  <1>1. PICK d \in Earliest(job[s].batch) :
          /\ job' = [job EXCEPT ![s] = [NoJob EXCEPT !.batch = job[s].batch \ {d},
                       !.campaign = d.campaign, !.setting = d.setting, !.key = d.next]]
          /\ pc' = [pc EXCEPT ![s] = SchedulerAfter[Verdict(d.campaign, d.next)]]
    BY DEF CheckDue
  <1>2. /\ d \in job[s].batch /\ d \in Due
        /\ job'[s].batch = job[s].batch \ {d} /\ job'[s].campaign = d.campaign
        /\ job'[s].setting = d.setting /\ job'[s].key = d.next
        /\ pc'[s] = SchedulerAfter[Verdict(d.campaign, d.next)]
        /\ item' = item /\ schedule' = schedule /\ now' = now
    BY <1>0, <1>1 DEF Earliest, CheckDue, Inv, TypeOK, NoJob, editVars
  <1>3. RequestsUnkeyed'
    BY UnkeyedStep DEF PaceInv, Next, SchedulerStep
  <1>4. EnqueuedInPast' /\ NextIsSpaced' /\ RunsAreSpaced'
    BY <1>2 DEF PaceInv, EnqueuedInPast, NextIsSpaced, RunsAreSpaced, Scheduled, IsQueueItem, Paced
  <1>5. RowsAreCurrent'
    BY <1>2 DEF PaceInv, RowsAreCurrent, Paced
  <1>6. pc'[s] = "defer" => ~Enqueued(d.campaign, d.next)
    <2>1. SchedulerAfter[Verdict(d.campaign, d.next)] = "defer"
            => Verdict(d.campaign, d.next) = "queue_limit_reached"
      BY VerdictIsResult DEF Results, SchedulerAfter
    <2>2. Verdict(d.campaign, d.next) = "queue_limit_reached" => ~Enqueued(d.campaign, d.next)
      BY DEF Verdict
    <2> QED
      BY <1>2, <2>1, <2>2
  <1>7. HandIsCurrent'
    <2> SUFFICES ASSUME Paced(d.campaign)
                 PROVE  /\ d.setting = schedule[d.campaign].setting
                        /\ d.next = schedule[d.campaign].next /\ d.next <= now
                        /\ \A e \in job[s].batch \ {d} : e.campaign # d.campaign
      BY <1>2, <1>6 DEF HandIsCurrent, Paced, Enqueued, IsQueueItem
    <2>1. \A e \in job[s].batch : e.campaign = d.campaign =>
            e.setting = schedule[d.campaign].setting /\ e.next = schedule[d.campaign].next /\ e.next <= now
      BY DEF PaceInv, RowsAreCurrent
    <2>2. \A e \in job[s].batch : e.campaign = d.campaign => e = d
      BY <1>0, <1>2, <2>1 DEF Due
    <2> QED
      BY <1>2, <2>1, <2>2
  <1> QED
    BY <1>3, <1>4, <1>5, <1>7 DEF PaceInv

\* The row that is written is not among those to come.
LEMMA PaceAdvance ==
  ASSUME Inv, PaceInv, NEW s, Schedulers = {s}, UpdateNextRun(s) \/ DeferQueueFull(s)
  PROVE  PaceInv'
  <1> DEFINE c == job[s].campaign
             next == IF pc[s] = "defer" THEN now + RetryDelay ELSE NextRun(job[s].setting, now)
  <1>0. s \in Actors /\ job[s] \in Job /\ job[s].batch \subseteq Due /\ now \in Nat /\ c \in Campaigns
    BY BoundsAssumption DEF UpdateNextRun, DeferQueueFull, Inv, InHand, TypeOK, Actors, Job
  <1>1. /\ pc[s] \in {"advance", "defer"} /\ pc'[s] \in {"idle", "tick"}
        /\ job'[s].batch = job[s].batch
        /\ item' = item /\ now' = now
    BY <1>0 DEF UpdateNextRun, DeferQueueFull, NextRow, Inv, TypeOK, NoJob
  <1>2. /\ schedule'[c].next = next /\ schedule'[c].setting = schedule[c].setting
        /\ \A x \in Campaigns \ {c} : schedule'[x] = schedule[x]
    <2>1. CASE UpdateNextRun(s)
      BY <1>0, <2>1 DEF UpdateNextRun, Inv, TypeOK, ScheduleRow
    <2>2. CASE DeferQueueFull(s)
      BY <1>0, <2>2 DEF DeferQueueFull, Inv, TypeOK, ScheduleRow
    <2> QED
      BY <2>1, <2>2
  <1>3. \A x \in Campaigns : schedule'[x].setting = schedule[x].setting /\ (Paced(x)' <=> Paced(x))
    BY <1>2 DEF Paced
  <1>4. RequestsUnkeyed'
    BY UnkeyedStep DEF PaceInv, Next, SchedulerStep
  <1>5. EnqueuedInPast' /\ RunsAreSpaced'
    <2>1. KeepsWindows
      BY <1>1 DEF KeepsWindows, Scheduled, IsQueueItem
    <2>2. Inv' /\ now' >= now
      BY <1>0, <1>1, InvNext DEF Next, SchedulerStep
    <2> QED
      BY <1>3, <2>1, <2>2, SpacedFrame DEF PaceInv
  <1>6. Paced(c) => /\ job[s].setting = schedule[c].setting
                    /\ job[s].key = schedule[c].next /\ job[s].key <= now
                    /\ \A d \in job[s].batch : d.campaign # c
                    /\ pc[s] = "defer" => ~Enqueued(c, job[s].key)
    BY <1>0, <1>1 DEF PaceInv, HandIsCurrent, Working
  <1>7. HandIsCurrent'
    BY <1>1 DEF HandIsCurrent, Working
  <1>8. RowsAreCurrent'
    <2> SUFFICES ASSUME NEW d \in job[s].batch, Paced(d.campaign)'
                 PROVE  /\ d.setting = schedule'[d.campaign].setting
                        /\ d.next = schedule'[d.campaign].next /\ d.next <= now
      BY <1>1 DEF RowsAreCurrent
    <2>1. d.campaign \in Campaigns
      BY <1>0 DEF Due
    <2>2. Paced(d.campaign) /\ d.campaign # c
      BY <2>1, <1>3, <1>6
    <2> QED
      BY <2>1, <2>2, <1>2 DEF PaceInv, RowsAreCurrent
  <1>9. Paced(c) => /\ next \in Nat
                    /\ \A i \in Items : Scheduled(i) /\ item[i].campaign = c =>
                         next >= item[i].at + schedule[c].setting.n
    <2> SUFFICES ASSUME Paced(c)
                 PROVE  /\ next \in Nat
                        /\ \A i \in Items : Scheduled(i) /\ item[i].campaign = c =>
                             next >= item[i].at + schedule[c].setting.n
      OBVIOUS
    <2>1. PICK n \in Nat \ {0} : n = schedule[c].setting.n
      BY <1>0, PacedSetting DEF Inv
    <2>2. \A i \in Items : Scheduled(i) /\ item[i].campaign = c => item[i].at \in Nat /\ item[i].at <= now
      BY DEF PaceInv, EnqueuedInPast
    <2>3. CASE pc[s] = "advance"
      <3>1. next = now + n
        BY <1>0, <1>6, <2>1, <2>3, PacedSetting DEF Inv
      <3> HIDE DEF next
      <3> QED
        BY <1>0, <2>1, <2>2, <3>1
    <2>4. CASE pc[s] = "defer"
      <3>1. next = now + RetryDelay /\ RetryDelay \in Nat
        BY <2>4, DelayAssumption
      <3>2. schedule[c].next \in Nat /\ schedule[c].next <= now
        BY <1>0, <1>6 DEF PaceInv, NextIsSpaced
      <3>3. \A i \in Items : Scheduled(i) /\ item[i].campaign = c => item[i].key # schedule[c].next
        BY <1>6, <2>4, EnqueuedIsScheduled
      <3>4. \A i \in Items : Scheduled(i) /\ item[i].campaign = c => schedule[c].next >= item[i].at + n
        BY <2>1, <3>3 DEF PaceInv, NextIsSpaced
      <3>5. PICK m \in Nat : m = schedule[c].next
        BY <3>2
      <3> HIDE DEF next
      <3> QED
        BY <1>0, <2>1, <2>2, <3>1, <3>2, <3>4, <3>5
    <2> QED
      BY <1>1, <2>3, <2>4
  <1>10. NextIsSpaced'
    <2> HIDE DEF next, c
    <2>1. \A x \in Campaigns : Paced(x)' => schedule'[x].next \in Nat
      BY <1>0, <1>2, <1>3, <1>9 DEF PaceInv, NextIsSpaced
    <2> SUFFICES ASSUME NEW i \in Items, Scheduled(i), Paced(item[i].campaign)'
                 PROVE  LET row == schedule'[item[i].campaign]
                        IN  item[i].key = row.next \/ row.next >= item[i].at + row.setting.n
      BY <1>1, <2>1 DEF NextIsSpaced, Scheduled, IsQueueItem
    <2>2. item[i].campaign \in Campaigns /\ Paced(item[i].campaign)
      BY <1>1, <1>3 DEF PaceInv, EnqueuedInPast, Paced
    <2>3. CASE item[i].campaign = c
      BY <1>2, <1>3, <1>9, <2>2, <2>3
    <2>4. CASE item[i].campaign # c
      BY <1>2, <1>3, <2>2, <2>4 DEF PaceInv, NextIsSpaced
    <2> QED
      BY <2>3, <2>4
  <1> QED
    BY <1>4, <1>5, <1>7, <1>8, <1>10 DEF PaceInv

\* A window that is put into the queue is not there yet, so every run before it lies
\* an interval before the next run, which has come.
LEMMA PaceInsert ==
  ASSUME Inv, PaceInv, NEW s, Schedulers = {s}, NEW a \in Actors, InsertQueueItem(a)
  PROVE  PaceInv'
  <1> DEFINE i == job[a].item
             c == job[a].campaign
             key == job[a].key
  <1>0. /\ i \in Items /\ c \in Campaigns /\ now \in Nat /\ pc[a] = "queue"
        /\ item[i].campaign = c /\ item[i].state = "execution" /\ key \in Minute
    BY BoundsAssumption DEF InsertQueueItem, Inv, InHand, HoldsItem, TypeOK, Job
  <1>1. /\ item'[i].campaign = c /\ item'[i].key = key /\ item'[i].at = now
        /\ item'[i].state = "queued"
        /\ \A j \in Items \ {i} : item'[j] = item[j]
        /\ job' = job /\ schedule' = schedule /\ now' = now
    BY <1>0 DEF InsertQueueItem, Inv, TypeOK, Item, editVars
  <1>2. \A j \in Items \ {i} : Scheduled(j)' <=> Scheduled(j)
    BY <1>1 DEF Scheduled, IsQueueItem
  <1>3. KeepsRows
    BY <1>1 DEF KeepsRows, Paced
  <1>4. RequestsUnkeyed'
    BY <1>1 DEF PaceInv, RequestsUnkeyed
  <1>5. KeepsHands
    BY <1>0, <1>1 DEF InsertQueueItem, KeepsHands, Working, Inv, TypeOK
  <1>6. Inv' /\ now' >= now
    <2>1. Inv'
      BY EnqueuesInv DEF Enqueues
    <2> QED
      BY <1>0, <1>1, <2>1
  <1>7. CASE key = Never
    <2>1. KeepsWindows
      BY <1>1, <1>2, <1>7 DEF KeepsWindows, Scheduled
    <2> QED
      BY <1>3, <1>4, <1>5, <1>6, <2>1, PaceFrame
  <1>8. CASE key # Never
    <2>1. a = s /\ s \in Actors
      BY <1>8 DEF PaceInv, RequestsUnkeyed, Actors
    <2>2. \A j \in Items \ {i} : Scheduled(j) /\ item[j].campaign = c => item[j].key # key
      BY EnqueuedIsScheduled DEF InsertQueueItem
    <2>3. Paced(c) => key = schedule[c].next /\ key \in Nat /\ key <= now
      <3>1. Paced(c) => key = schedule[c].next /\ key <= now
        BY <1>0, <2>1 DEF PaceInv, HandIsCurrent, Working
      <3> QED
        BY <1>0, <1>8, <3>1 DEF Minute
    <2>4. ASSUME NEW j \in Items \ {i}, Scheduled(j), item[j].campaign = c, Paced(c)
          PROVE  now >= item[j].at + schedule[c].setting.n
      <3>1. schedule[c].next >= item[j].at + schedule[c].setting.n
        BY <2>2, <2>3, <2>4 DEF PaceInv, NextIsSpaced
      <3>2. item[j].at \in Nat /\ schedule[c].setting.n \in Nat
        BY <1>0, <2>4, PacedSetting DEF PaceInv, EnqueuedInPast, Inv
      <3> QED
        BY <1>0, <2>3, <2>4, <3>1, <3>2
    <2>5. EnqueuedInPast'
      <3> SUFFICES ASSUME NEW j \in Items, Scheduled(j)'
                   PROVE  item'[j].campaign \in Campaigns /\ item'[j].at \in Nat /\ item'[j].at <= now
        BY <1>1 DEF EnqueuedInPast
      <3>1. CASE j = i
        BY <3>1, <1>0, <1>1
      <3>2. CASE j # i
        BY <3>2, <1>1, <1>2 DEF PaceInv, EnqueuedInPast
      <3> QED
        BY <3>1, <3>2
    <2>6. RowsAreCurrent'
      BY <1>1 DEF PaceInv, RowsAreCurrent, Paced
    <2>7. HandIsCurrent'
      <3>1. pc'[s] = "advance" /\ Working(s)
        BY <1>0, <2>1 DEF InsertQueueItem, Inv, TypeOK, Working
      <3> QED
        BY <1>1, <3>1 DEF PaceInv, HandIsCurrent, Paced
    <2>8. NextIsSpaced'
      <3>1. \A x \in Campaigns : Paced(x)' => schedule'[x].next \in Nat
        BY <1>1 DEF PaceInv, NextIsSpaced, Paced
      <3> SUFFICES ASSUME NEW j \in Items, Scheduled(j)', Paced(item[j].campaign)'
                   PROVE  \/ item'[j].key = schedule[item'[j].campaign].next
                          \/ schedule[item'[j].campaign].next
                               >= item'[j].at + schedule[item'[j].campaign].setting.n
        BY <1>1, <3>1 DEF NextIsSpaced
      <3>2. CASE j = i
        BY <3>2, <1>1, <2>3 DEF Paced
      <3>3. CASE j # i
        <4>1. Scheduled(j) /\ item'[j] = item[j] /\ Paced(item[j].campaign)
          BY <3>3, <1>1, <1>2 DEF Paced
        <4> QED
          BY <4>1 DEF PaceInv, NextIsSpaced
      <3> QED
        BY <3>2, <3>3
    <2>9. RunsAreSpaced'
      <3> SUFFICES ASSUME NEW j \in Items, NEW k \in Items, j # k, Scheduled(j)', Scheduled(k)',
                          item'[j].campaign = item'[k].campaign,
                          Paced(item[j].campaign)', item'[j].at <= item'[k].at
                   PROVE  item'[k].at >= item'[j].at + schedule[item'[j].campaign].setting.n
        BY <1>1 DEF RunsAreSpaced, Paced
      <3>1. CASE j # i /\ k # i
        BY <3>1, <1>1, <1>2 DEF PaceInv, RunsAreSpaced, Paced
      <3>2. CASE k = i
        BY <3>2, <1>1, <1>2, <2>4 DEF Paced
      <3>3. CASE j = i
        <4>1. Scheduled(k) /\ item[k].campaign = c /\ Paced(c) /\ item'[k] = item[k] /\ k \in Items \ {i}
          BY <3>3, <1>1, <1>2 DEF Paced
        <4>2. now >= item[k].at + schedule[c].setting.n
          BY <4>1, <2>4
        <4>3. item[k].at \in Nat /\ schedule[c].setting.n \in Nat \ {0}
          BY <1>0, <4>1, PacedSetting DEF PaceInv, EnqueuedInPast, Inv
        <4>4. now <= item[k].at
          BY <3>3, <1>1, <4>1
        <4> QED
          BY <1>0, <4>2, <4>3, <4>4
      <3> QED
        BY <3>1, <3>2, <3>3
    <2> QED
      BY <1>4, <2>5, <2>6, <2>7, <2>8, <2>9 DEF PaceInv
  <1> QED
    BY <1>7, <1>8

LEMMA PaceInit == Init => PaceInv
  <1> SUFFICES ASSUME Init PROVE PaceInv
    OBVIOUS
  <1>1. TypeOK
    BY InvInit DEF Inv
  <1>2. /\ \A i \in Items : ~Scheduled(i)
        /\ \A a \in Actors : job[a] = NoJob /\ pc[a] = "idle"
    BY DEF Init, NoItem, Scheduled, IsQueueItem
  <1>3. \A c \in Campaigns : Paced(c) => schedule[c].next \in Nat
    <2> SUFFICES ASSUME NEW c \in Campaigns, Paced(c) PROVE schedule[c].next \in Nat
      OBVIOUS
    <2>1. schedule[c].next = NextRun(schedule[c].setting, 0)
      BY DEF Init
    <2>2. schedule[c].next = 0 + schedule[c].setting.n /\ schedule[c].setting.n \in Nat
      BY <1>1, <2>1, PacedSetting
    <2> QED
      BY <2>2
  <1> QED
    BY <1>2, <1>3 DEF PaceInv, RequestsUnkeyed, EnqueuedInPast, RowsAreCurrent, HandIsCurrent, Working,
       NextIsSpaced, RunsAreSpaced, NoJob, Actors

LEMMA PaceStep ==
  ASSUME OneScheduler, SettingsStand, Inv, PaceInv, [Next]_vars
  PROVE  PaceInv'
  <1>1. PICK s : Schedulers = {s}
    BY DEF OneScheduler
  <1>2. CASE \E a \in Actors : InsertQueueItem(a)
    BY <1>1, <1>2, PaceInsert
  <1>3. CASE Scan(s) \/ CheckDue(s) \/ UpdateNextRun(s) \/ DeferQueueFull(s)
    BY <1>1, <1>3, PaceScan, PaceCheck, PaceAdvance
  <1> QED
    BY <1>1, <1>2, <1>3, PaceOthers

\* Missed periods are coalesced: with one scheduler, and while users set no schedule
\* anew, two runs of an interval schedule lie an interval apart, however late its
\* ticks, however often it crashes, however long the queue is full, and whatever
\* manual runs, pauses, suspensions and workers do meanwhile.
THEOREM RunsKeepTheirDistance ==
  ASSUME OneScheduler, SettingsStand
  PROVE  Spec => []RunsAreSpaced
  <1>1. Inv /\ PaceInv /\ [Next]_vars => PaceInv'
    BY PaceStep
  <1>2. PaceInv => RunsAreSpaced
    BY DEF PaceInv
  <1> QED
    BY <1>1, <1>2, PaceInit, InvHolds, PTL DEF Spec

-----------------------------------------------------------------------------
(* A run is recorded when it was enqueued.                                 *)

\* The window of campaign c is in the queue, or there was no room for it in the quota.
Accounted(c, key) == Enqueued(c, key) \/ Cardinality(Used(TenantOf[c])) >= ExecutionQuota

\* A scheduler that is about to record a run has its window accounted for.
RecordInv ==
  /\ RequestsUnkeyed
  /\ \A s \in Schedulers :
       /\ pc[s] \in {"execution", "queue"} => job[s].key \in Nat
       /\ pc[s] = "advance" => Accounted(job[s].campaign, job[s].key)

\* Queue items stay, and so do executions.
KeepsCharged ==
  /\ \A i \in Items : IsQueueItem(i) =>
       IsQueueItem(i)' /\ item'[i].campaign = item[i].campaign /\ item'[i].key = item[i].key
  /\ \A i \in Items : IsExecution(i) => IsExecution(i)' /\ item'[i].campaign = item[i].campaign

\* Nothing is charged to the quota without end: only the execution whose queue item
\* was refused goes away.
LEMMA ChargedFrame ==
  ASSUME Inv, [Next]_vars, ~\E a \in Actors : InsertIsDuplicate(a)
  PROVE  KeepsCharged
  <1> USE DEF KeepsCharged, IsExecution, IsQueueItem
  <1>1. ASSUME NEW a \in Actors, InsertExecution(a) PROVE KeepsCharged
    <2>1. PICK i \in Items :
            /\ item[i].state = "absent"
            /\ item' = [item EXCEPT ![i].state = "execution", ![i].campaign = job[a].campaign]
      BY <1>1 DEF InsertExecution
    <2> QED
      BY <2>1 DEF Inv, TypeOK
  <1>2. ASSUME NEW a \in Actors, InsertQueueItem(a) PROVE KeepsCharged
    <2> DEFINE i == job[a].item
    <2>1. i \in Items /\ item[i].state = "execution"
      BY <1>2 DEF InsertQueueItem, Inv, InHand, HoldsItem
    <2>2. /\ item'[i].state = "queued" /\ item'[i].campaign = item[i].campaign
          /\ \A j \in Items \ {i} : item'[j] = item[j]
      BY <1>2, <2>1 DEF InsertQueueItem, Inv, TypeOK, Item
    <2> QED
      BY <2>1, <2>2
  <1>3. CASE QueueStep
    <2>1. PICK i \in Items, to \in {"taken", "retry", "done", "failed"} :
            /\ item[i].state \in {"queued", "retry", "taken"}
            /\ item' = [item EXCEPT ![i].state = to]
      BY <1>3 DEF QueueStep, Claim, Retry, Finish, Cancel, Move
    <2> QED
      BY <2>1 DEF Inv, TypeOK, Item
  <1>4. ASSUME item' = item PROVE KeepsCharged
    BY <1>4
  <1>5. ASSUME NEW s \in Schedulers, SchedulerStep(s), ~Enqueues(s) PROVE item' = item
    BY <1>5 DEF SchedulerStep, Scan, CheckDue, UpdateNextRun, DeferQueueFull, NextRow, TickRaises
  <1>6. ASSUME NEW r \in Requests, RequestStep(r), ~Enqueues(r) PROVE item' = item
    BY <1>6 DEF RequestStep, Request, Respond
  <1>7. CASE UserStep
    BY <1>7, <1>4 DEF UserStep, PutSchedule, DisableSchedule, SetStatus, SetKeywords, SetTenantStatus
  <1>8. CASE Tick \/ (\E a \in Actors : Crash(a)) \/ UNCHANGED vars
    BY <1>8, <1>4 DEF Tick, Crash, vars
  <1> QED
    BY <1>1, <1>2, <1>3, <1>4, <1>5, <1>6, <1>7, <1>8 DEF Next, Enqueues, Actors

\* What is accounted for stays so.
LEMMA AccountedStays ==
  ASSUME Inv, KeepsCharged, NEW c, NEW key, Accounted(c, key)
  PROVE  Accounted(c, key)'
  <1>1. Enqueued(c, key) => Enqueued(c, key)'
    BY DEF Enqueued, KeepsCharged
  <1> DEFINE t == TenantOf[c]
  <1>2. Used(t) \subseteq Used(t)'
    BY DEF Used, OfTenant, KeepsCharged
  <1>3. IsFiniteSet(Used(t)')
    <2>1. IsFiniteSet(Items)
      BY FS_Interval, BoundsAssumption DEF Items
    <2>2. Used(t)' \subseteq Items
      BY DEF Used, OfTenant
    <2> QED
      BY <2>1, <2>2, FS_Subset
  <1>4. /\ Cardinality(Used(t)) <= Cardinality(Used(t)')
        /\ Cardinality(Used(t)) \in Nat /\ Cardinality(Used(t)') \in Nat
    BY <1>2, <1>3, FS_Subset, FS_CardinalityType
  <1>5. Cardinality(Used(t)) >= ExecutionQuota => Cardinality(Used(t)') >= ExecutionQuota
    BY <1>4, BoundsAssumption
  <1> QED
    BY <1>1, <1>5 DEF Accounted

\* The scheduler advances a window that is in the queue, or that the quota refused,
\* and nobody but itself takes an execution off the quota.
LEMMA RecordStep ==
  ASSUME Inv, RecordInv, NEW s, Schedulers = {s}, [Next]_vars
  PROVE  RecordInv'
  <1>0. s \in Actors /\ job[s] \in Job /\ s \notin Requests
    BY ActorsAssumption DEF Inv, TypeOK, Actors
  <1>1. RequestsUnkeyed'
    BY UnkeyedStep DEF RecordInv
  <1> DEFINE Mine == /\ pc[s] \in {"execution", "queue"} => job[s].key \in Nat
                     /\ pc[s] = "advance" => Accounted(job[s].campaign, job[s].key)
  <1> SUFFICES Mine'
    BY <1>1 DEF RecordInv
  <1>2. Mine
    BY DEF RecordInv
  \* What others do keeps what is accounted for.
  <1>3. ASSUME job'[s] = job[s], pc'[s] = pc[s], ~\E a \in Actors : InsertIsDuplicate(a)
        PROVE  Mine'
    <2>1. PICK c, key : c = job[s].campaign /\ key = job[s].key
      OBVIOUS
    <2>2. Accounted(c, key) => Accounted(c, key)'
      BY <1>3, ChargedFrame, AccountedStays
    <2>3. Accounted(job[s].campaign, job[s].key)' <=> Accounted(c, key)'
      BY <1>3, <2>1 DEF Accounted, Enqueued, Used, OfTenant, IsQueueItem, IsExecution
    <2> QED
      BY <1>2, <1>3, <2>1, <2>2, <2>3
  <1>4. CASE CheckDue(s)
    <2>1. PICK d \in Earliest(job[s].batch) :
            /\ job' = [job EXCEPT ![s] = [NoJob EXCEPT !.batch = job[s].batch \ {d},
                         !.campaign = d.campaign, !.setting = d.setting, !.key = d.next]]
            /\ pc' = [pc EXCEPT ![s] = SchedulerAfter[Verdict(d.campaign, d.next)]]
      BY <1>4 DEF CheckDue
    <2>2. /\ d \in Due /\ job'[s].campaign = d.campaign /\ job'[s].key = d.next
          /\ pc'[s] = SchedulerAfter[Verdict(d.campaign, d.next)] /\ item' = item
      BY <1>0, <1>4, <2>1 DEF Earliest, Job, CheckDue, Inv, TypeOK, NoJob
    <2>3. PICK c \in Campaigns, key \in Nat : c = d.campaign /\ key = d.next
      BY <2>2 DEF Due
    <2>4. pc'[s] = "advance" => Verdict(c, key) \in {"already_enqueued", "quota_exceeded"}
      BY <2>2, <2>3, VerdictIsResult DEF Results, SchedulerAfter
    <2>5. Verdict(c, key) = "quota_exceeded" => Cardinality(Used(TenantOf[c])) + 1 > ExecutionQuota
      BY DEF Verdict
    <2>6. Cardinality(Used(TenantOf[c])) \in Nat
      <3>1. IsFiniteSet(Items)
        BY FS_Interval, BoundsAssumption DEF Items
      <3>2. Used(TenantOf[c]) \subseteq Items
        BY DEF Used, OfTenant
      <3> QED
        BY <3>1, <3>2, FS_Subset, FS_CardinalityType
    <2>7. Verdict(c, key) = "already_enqueued" => Enqueued(c, key)
      BY DEF Verdict
    <2>8. pc'[s] = "advance" => Accounted(c, key)
      <3>1. Cardinality(Used(TenantOf[c])) + 1 > ExecutionQuota
              => Cardinality(Used(TenantOf[c])) >= ExecutionQuota
        BY <2>6, BoundsAssumption
      <3> QED
        BY <2>4, <2>5, <2>7, <3>1 DEF Accounted
    <2>9. Accounted(job[s].campaign, job[s].key)' <=> Accounted(c, key)
      BY <2>2, <2>3 DEF Accounted, Enqueued, Used, OfTenant, IsQueueItem, IsExecution
    <2> QED
      BY <2>2, <2>3, <2>8, <2>9
  <1>5. CASE Scan(s) \/ UpdateNextRun(s) \/ DeferQueueFull(s) \/ TickRaises(s) \/ Crash(s)
    <2>1. pc'[s] \in {"idle", "tick"}
      BY <1>0, <1>5 DEF Scan, UpdateNextRun, DeferQueueFull, NextRow, TickRaises, Crash, Inv, TypeOK
    <2> QED
      BY <2>1
  <1>6. CASE InsertExecution(s)
    <2>1. pc[s] = "execution" /\ pc'[s] = "queue" /\ \E i \in Items : job' = [job EXCEPT ![s].item = i]
      BY <1>0, <1>6 DEF InsertExecution, Inv, TypeOK
    <2>2. job'[s].key = job[s].key
      BY <1>0, <2>1 DEF Inv, TypeOK, Job
    <2> QED
      BY <1>2, <2>1, <2>2
  <1>7. CASE InsertQueueItem(s) \/ InsertIsDuplicate(s)
    <2> DEFINE i == job[s].item
    <2>1. /\ pc[s] = "queue" /\ i \in Items /\ item[i].state = "execution"
          /\ item[i].campaign = job[s].campaign /\ job[s].key \in Nat
          /\ job' = job /\ pc'[s] = "advance"
      BY <1>0, <1>2, <1>7 DEF InsertQueueItem, InsertIsDuplicate, Inv, InHand, HoldsItem, TypeOK
    <2>2. PICK c \in Campaigns, key \in Nat : c = job[s].campaign /\ key = job[s].key
      BY <1>0, <2>1 DEF Inv, InHand
    <2>3. key # Never
      BY NullsAssumption
    <2>4. \E j \in Items : IsQueueItem(j)' /\ item'[j].campaign = c /\ item'[j].key = key
      <3>1. CASE InsertQueueItem(s)
        <4>1. item'[i].state = "queued" /\ item'[i].campaign = c /\ item'[i].key = key
          BY <3>1, <2>1, <2>2 DEF InsertQueueItem, Inv, TypeOK, Item
        <4> QED
          BY <2>1, <4>1 DEF IsQueueItem
      <3>2. CASE InsertIsDuplicate(s)
        <4>1. PICK j \in Items : IsQueueItem(j) /\ item[j].campaign = c /\ item[j].key = key
          BY <3>2, <2>2 DEF InsertIsDuplicate, Enqueued
        <4>2. item'[j] = item[j]
          BY <3>2, <2>1, <4>1 DEF InsertIsDuplicate, IsQueueItem, Inv, TypeOK
        <4> QED
          BY <4>1, <4>2 DEF IsQueueItem
      <3> QED
        BY <1>7, <3>1, <3>2
    <2>5. Enqueued(job[s].campaign, job[s].key)'
      BY <2>1, <2>2, <2>3, <2>4 DEF Enqueued
    <2> QED
      BY <2>1, <2>5 DEF Accounted
  <1>8. ASSUME NEW a \in Actors \ {s} PROVE ~InsertIsDuplicate(a)
    BY <1>8, ActorsAssumption DEF InsertIsDuplicate, Enqueued, RecordInv, RequestsUnkeyed, Actors
  <1>9. ASSUME NEW a \in Actors \ {s}, RequestStep(a) \/ Crash(a), a \in Requests PROVE Mine'
    <2>1. job'[s] = job[s] /\ pc'[s] = pc[s]
      BY <1>0, <1>9, ActorStep
    <2>2. ~InsertIsDuplicate(s)
      <3>1. pc'[a] # pc[a]
        BY <1>9 DEF RequestStep, Request, Respond, Enqueues, InsertExecution, InsertQueueItem,
           InsertIsDuplicate, Crash, Inv, TypeOK
      <3>2. InsertIsDuplicate(s) => pc'[s] # pc[s]
        BY <1>0 DEF InsertIsDuplicate, Inv, TypeOK
      <3> QED
        BY <2>1, <3>2
    <2> QED
      BY <1>3, <1>8, <2>1, <2>2
  <1>10. CASE UserStep \/ QueueStep \/ Tick \/ UNCHANGED vars
    <2>1. job' = job /\ pc' = pc
      BY <1>10 DEF UserStep, PutSchedule, DisableSchedule, SetStatus, SetKeywords, SetTenantStatus,
         QueueStep, Claim, Retry, Finish, Cancel, Move, Tick, vars
    <2>2. InsertIsDuplicate(s) => pc'[s] # pc[s]
      BY <1>0 DEF InsertIsDuplicate, Inv, TypeOK
    <2> QED
      BY <1>3, <1>8, <2>1, <2>2
  <1> QED
    BY <1>0, <1>4, <1>5, <1>6, <1>7, <1>9, <1>10 DEF Next, SchedulerStep, Enqueues, Actors

\* Whoever writes last_run_at has its window accounted for.
LEMMA LastIsAccounted ==
  ASSUME Inv, RecordInv, NEW only, Schedulers = {only}, [Next]_vars,
         NEW c \in Campaigns, schedule'[c].last # schedule[c].last
  PROVE  \E s \in Schedulers :
           /\ pc[s] = "advance" /\ job[s].campaign = c
           /\ \/ Enqueued(c, job[s].key)
              \/ Cardinality(Used(TenantOf[c])) >= ExecutionQuota
  <1>1. UpdateNextRun(only)
    BY LastIsKept
  <1>2. pc[only] = "advance" /\ job[only].campaign \in Campaigns
    BY <1>1 DEF UpdateNextRun, Inv, InHand, Actors
  <1>3. job[only].campaign = c
    BY <1>1, <1>2 DEF UpdateNextRun, Inv, TypeOK
  <1>4. Accounted(job[only].campaign, job[only].key)
    BY <1>2 DEF RecordInv
  <1> QED
    BY <1>2, <1>3, <1>4 DEF Accounted

\* With one scheduler a run is recorded only when its window is in the queue or the
\* quota had no room for it: a full queue, a suspended tenant and a crash leave no
\* trace of a run that was not.
THEOREM RecordedRunsAreEnqueued ==
  ASSUME OneScheduler
  PROVE  Spec => RunRecordedIfEnqueued
  <1>1. Init => RecordInv
    BY DEF Init, RecordInv, RequestsUnkeyed, Actors, NoJob
  <1>2. Inv /\ RecordInv /\ [Next]_vars => RecordInv'
    BY RecordStep DEF OneScheduler
  <1>3. Inv /\ RecordInv /\ [Next]_vars =>
          [\A c \in Campaigns : schedule'[c].last # schedule[c].last =>
             \E s \in Schedulers :
               /\ pc[s] = "advance" /\ job[s].campaign = c
               /\ \/ Enqueued(c, job[s].key)
                  \/ Cardinality(Used(TenantOf[c])) >= ExecutionQuota]_vars
    BY LastIsAccounted DEF OneScheduler
  <1> QED
    BY <1>1, <1>2, <1>3, InvHolds, PTL DEF Spec, RunRecordedIfEnqueued

\* Both together: the runs of a schedule follow its setting.
THEOREM RunsAlwaysFollowSchedule ==
  ASSUME OneScheduler, SettingsStand
  PROVE  Spec => RunsFollowSchedule
  <1>1. Spec => []RunsAreSpaced
    BY RunsKeepTheirDistance
  <1>2. Spec => RunRecordedIfEnqueued
    BY RecordedRunsAreEnqueued
  <1> QED
    BY <1>1, <1>2, PTL DEF RunsFollowSchedule

=============================================================================
