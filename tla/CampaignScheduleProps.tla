------------------------ MODULE CampaignScheduleProps ------------------------
(***************************************************************************)
(* What campaign schedules and the queue limit are relied on for.          *)
(***************************************************************************)
EXTENDS CampaignSchedule

Scheduled(i) == IsQueueItem(i) /\ item[i].key # Never

\* A scheduled window of a campaign is enqueued once, though schedulers overlap
\* and crash between the enqueue and the write of next_run_at.
WindowEnqueuedOnce ==
  \A i, j \in Items :
    i # j /\ Scheduled(i) /\ Scheduled(j) /\ item[i].campaign = item[j].campaign
      => item[i].key # item[j].key

\* Missed periods are coalesced: while nobody edits the schedule, one scheduler
\* enqueues an interval schedule at most once per interval, however late its
\* ticks are, however often it crashes and however long the queue was full.
RunsAreSpaced ==
  \A i, j \in Items :
    LET s == schedule[item[i].campaign].setting
    IN  i # j /\ Scheduled(i) /\ Scheduled(j) /\ item[i].campaign = item[j].campaign
          /\ s.kind = "interval" /\ item[i].at <= item[j].at
        => item[j].at >= item[i].at + s.n

\* One scheduler records a run (last_run_at) only when its window is in the queue
\* or the tenant's quota left no room for it; a full queue is no successful run.
RunRecordedIfEnqueued ==
  [][\A c \in Campaigns : schedule'[c].last # schedule[c].last =>
       \E s \in Schedulers :
         /\ pc[s] = "advance" /\ job[s].campaign = c
         /\ \/ Enqueued(c, job[s].key)
            \/ Cardinality(Used(TenantOf[c])) >= ExecutionQuota]_vars

\* Runs of a schedule follow its setting: none comes early and none is recorded
\* that did not come, through crashes, late ticks and a full queue.
RunsFollowSchedule == []RunsAreSpaced /\ RunRecordedIfEnqueued

\* The windows of campaign c that are enqueued or that a scheduler has scanned.
Windows(c) ==
  {item[i].key : i \in {j \in Items : Scheduled(j) /\ item[j].campaign = c}}
    \cup {job[s].key : s \in {x \in Schedulers : job[x].campaign = c}}
    \cup {d.next : d \in {e \in UNION {job[s].batch : s \in Schedulers} : e.campaign = c}}

\* A schedule that a user has disabled runs no window but those the schedulers had
\* scanned before, and only a user's edit enables it again: what the schedulers
\* write late - update_next_run gives the row a next_run_at again - does neither.
DisabledStaysDisabled ==
  [][\A c \in Campaigns : ~schedule[c].enabled =>
       /\ Windows(c)' \subseteq Windows(c)
       /\ schedule'[c].enabled => edits' # edits]_vars

\* What enqueues have added and no worker has claimed yet.
Fresh(t) == {i \in OfTenant(t) : item[i].state = "queued"}

\* The limit of a tenant's queue is counted in one transaction and used in another:
\* enqueues that overlap add no more than one execution each beyond it.  What
\* workers and recovery put back for a retry comes on top, without any bound.
BacklogBounded ==
  \A t \in Tenants : Cardinality(Fresh(t)) < QueueLimit + Cardinality(Actors)

\* While nothing crashes, every execution that counts against the quota is in the
\* queue or about to be put there by who created it: no refused window is charged.
ChargedIsEnqueued ==
  \A i \in Items : item[i].state = "execution" =>
    \E a \in Actors : pc[a] = "queue" /\ job[a].item = i

\* A schedule that is due is dealt with - enqueued, deferred or, without quota,
\* skipped - unless it is itself one that cannot be enqueued.
Unserviceable(c) == TenantOf[c] \in suspended \/ ~campaign[c].keywords

DueIsServed == \A c \in Campaigns : IsDue(c) ~> ~IsDue(c) \/ Unserviceable(c)

\* update_next_run sets a time in the future, in a zone without clock changes.
NextRunIsFuture ==
  [][\A c \in Campaigns : schedule'[c].last # schedule[c].last => schedule'[c].next > now]_vars

=============================================================================
