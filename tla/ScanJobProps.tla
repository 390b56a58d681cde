------------------------------ MODULE ScanJobProps ------------------------------
(***************************************************************************)
(* What the operator of leads jobs relies on.                               *)
(***************************************************************************)
EXTENDS ScanJob

\* JobLock keeps the jobs of a host apart: no two of them drive the browser,
\* except where one job outlived the lock's timeout, or both looked at the lock
\* before either wrote it.
OneJobAtATime ==
  Cardinality({j \in Jobs \ bared : job[j].phase \in Inside}) <= 1

\* What was scanned stays: through crashes, lost logins and rescans the contents
\* and comments of a run's scan file only grow.
ScannedStays ==
  [][\A r \in Runs : /\ ToSet(scan[r].contents) \subseteq ToSet(scan'[r].contents)
                     /\ ToSet(scan[r].comments) \subseteq ToSet(scan'[r].comments)]_vars

\* However often a run is resumed, a content is scanned once and a comment listed once.
NothingTwice ==
  \A r \in Runs : IsInjective(scan[r].contents) /\ IsInjective(scan[r].comments)

\* The comment limit holds, give or take one comment for each attempt after the first.
CommentsBounded ==
  \A r \in Runs : Len(scan[r].comments) <= CommentLimit + (IF scans[r] = 0 THEN 0 ELSE scans[r] - 1)

\* What a run's scan file holds is of the right kind, without repetition, and no
\* more than was asked for, however many attempts wrote it.
ScanInBounds == TypeOK /\ NothingTwice /\ CommentsBounded

\* A reply plan is made from everything the run's scan file holds, unless a crash
\* or a review of an earlier attempt left an old report standing.
PlanIsCurrent ==
  \A r \in Runs \ outdated : plan'[r] # plan[r] => plan'[r].of = scan[r].comments

\* No plan is made from a scan that failed.
FailedScanNotPlanned == \A r \in Runs : plan'[r] # plan[r] => scan[r].status # "failed"

\* A reply plan rests on the scan of its run: on one that succeeded, and on all of it.
PlanRestsOnScan == [][PlanIsCurrent /\ FailedScanNotPlanned]_vars

\* A lead is decided by what the LLM said of that very lead, or by the rules; and
\* by the rules if it was replied to before.
LeadsGetTheirAnswer ==
  \A r \in Runs : \A c \in DOMAIN enriched[r].by :
    enriched[r].by[c] \in {"rule"} \cup (IF c \in RepliedTo THEN {} ELSE {Opinion[c]} \cap {"yes", "no"})

\* The counts of a review, which are taken from its batches, agree with what became
\* of its leads one by one: those the LLM decided, those that fell back, those skipped.
ReviewAddsUp ==
  \A r \in Runs : enriched[r].written =>
    LET counts  == enriched[r].counts
        leads   == DOMAIN enriched[r].by
        decided == {c \in leads : enriched[r].by[c] # "rule"}
    IN /\ counts.success = Cardinality(decided)
       /\ counts.fallback = Cardinality(leads \ (decided \cup RepliedTo))
       /\ counts.requested + counts.skipped = Cardinality(leads)
       /\ counts.calls <= counts.requested /\ (counts.requested > 0 => counts.calls > 0)

\* What the LLM said reaches the lead it was said of, and is counted as such.
AnswersReachTheirLead == LeadsGetTheirAnswer /\ ReviewAddsUp

=============================================================================
