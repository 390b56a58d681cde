------------------------------ MODULE ReplyBatch ------------------------------
(***************************************************************************)
(* Batches of replies (src/facebook_leads/facebook/reply_batch.py, driven  *)
(* by scripts/facebook_reply_batch.py): leads of a report are reviewed, a  *)
(* plan selects some of them and is written to a file, and executing the   *)
(* plan calls reply_to_comment for one selected lead after the other.  A   *)
(* plan may be executed again, also after a crash; each batch process is   *)
(* one of the Senders of CommentReply.                                     *)
(***************************************************************************)
EXTENDS CommentReply, SourcePolicy

CONSTANTS
  Reports,        \* lead reports of one or several keywords
  Policy,         \* the target policy each report's plan is made with
  Leads,          \* their leads, best first
  Scanned,        \* what the scan's review said of each lead
  BatchMax,       \* --max-leads
  AcceptanceMax,  \* --acceptance-max
  DailyLimit,     \* --daily-limit
  MaxBatches      \* bound on plans and batches

Reviews == {"missing", "fallback", "reply", "no_reply"}

ASSUME LeadAssumption ==
  Leads \in Seq([comment : Comments, text : Texts, content : Content, report : Reports])
ASSUME PolicyAssumption ==
  /\ DOMAIN Policy = Reports
  /\ \A r \in Reports : Policy[r] \in TargetPolicy
ASSUME ScannedAssumption == Scanned \in [DOMAIN Leads -> Reviews]
ASSUME LimitAssumption ==
  /\ BatchMax \in Nat \ {0} /\ DailyLimit \in Nat \ {0} /\ MaxBatches \in Nat
  /\ AcceptanceMax \in 1..2

VARIABLES
  review,   \* the reports: what the LLM review says of each lead
  plan,     \* the plan file of each report: per lead why it is blocked, and
            \* whether it is selected
  batch,    \* what each batch process holds
  batches

batchVars == <<review, plan, batch, batches>>
allVars   == <<vars, batchVars>>

Modes   == {"execute", "dry_run", "preflight_only"}
BatchStatus == {"running", "completed", "partial", "daily_limit_reached", "cancelled", "blocked", "failed",
                "stopped_unverified", "stopped_login", "stopped_browser"} \cup Modes
Item    == [blocked : SUBSET {"review", "unverified_previous_attempt", "duplicate_history",
                              "source_not_allowed"},
            selected : BOOLEAN]
Counts  == [verified : Nat, duplicate : Nat, blocked : Nat, unverified : Nat, failed : Nat]
Batch   == [phase : {"idle", "next", "waiting", "interval", "finished"}, mode : Modes,
            test : BOOLEAN, subset : Seq(DOMAIN Leads), lock : BOOLEAN, ready : BOOLEAN,
            todo : Seq(DOMAIN Leads), selected : Nat, remaining : Nat, before : Nat,
            attempted : Nat, passed : Nat, counts : Counts, status : BatchStatus]

NoCounts == [verified |-> 0, duplicate |-> 0, blocked |-> 0, unverified |-> 0, failed |-> 0]
NoBatch  == [phase |-> "idle", mode |-> "dry_run", test |-> FALSE, subset |-> << >>, lock |-> FALSE,
             ready |-> FALSE, todo |-> << >>, selected |-> 0, remaining |-> 0, before |-> 0,
             attempted |-> 0, passed |-> 0, counts |-> NoCounts, status |-> "running"]

BatchTypeOK ==
  /\ TypeOK
  /\ review \in [DOMAIN Leads -> Reviews]
  /\ plan \in [Reports -> {<< >>} \cup [DOMAIN Leads -> Item]]
  /\ batch \in [Senders -> Batch]
  /\ batches \in 0..MaxBatches

BatchInit ==
  /\ Init
  /\ review = Scanned
  /\ plan = [r \in Reports |-> << >>]
  /\ batch = [b \in Senders |-> NoBatch]
  /\ batches = 0

-----------------------------------------------------------------------------
Least(a, b) == IF a < b THEN a ELSE b
\* The limit less count_today_verified_replies.
Remaining == IF today < DailyLimit THEN DailyLimit - today ELSE 0

\* enrich_lead_report_missing_reviews: leads without a successful review are
\* sent to the model, those the history has a verified reply for are not; the
\* model's answer may be unusable (fallback).
Replied(c) == \E t \in Texts : history[c][t].verified

LeadsOf(r) == {i \in DOMAIN Leads : Leads[i].report = r}

ReviewMissing(b, r) ==
  /\ batch[b].phase = "idle" /\ batches < MaxBatches
  /\ LET asked == {i \in LeadsOf(r) : review[i] \in {"missing", "fallback"}
                                       /\ ~Replied(Leads[i].comment)}
     IN  /\ asked # {}
         /\ \E answer \in [asked -> {"fallback", "reply", "no_reply"}] :
              review' = [i \in DOMAIN Leads |-> IF i \in asked THEN answer[i] ELSE review[i]]
  /\ batches' = batches + 1
  /\ UNCHANGED <<vars, plan, batch>>

Allowed == [i \in DOMAIN Leads |-> ReplyAllowed(Policy[Leads[i].report], SourceOf(Leads[i].content))]

\* build_plan_item
BlockingReasons(i) ==
  LET l == Leads[i]
  IN  (IF review[i] = "reply" THEN {} ELSE {"review"})
      \cup (CASE BlockedBy(l.comment, l.text) = "duplicate" -> {"duplicate_history"}
              [] BlockedBy(l.comment, l.text) = "none"      -> {}
              [] OTHER                                      -> {"unverified_previous_attempt"})
      \cup (IF Allowed[i] THEN {} ELSE {"source_not_allowed"})

\* The how manieth of some leads a lead is.
Rank(i, leads) == Cardinality({j \in leads : j <= i})

\* build_batch_plan: the first eligible leads, up to both limits.
BuildPlan(b, r) ==
  /\ batch[b].phase = "idle" /\ batches < MaxBatches
  /\ LET eligible == {i \in LeadsOf(r) : BlockingReasons(i) = {}}
     IN  plan' = [plan EXCEPT ![r] = [i \in DOMAIN Leads |->
                    [blocked  |-> BlockingReasons(i),
                     selected |-> i \in eligible /\ Rank(i, eligible) <= Least(BatchMax, Remaining)]]]
  /\ batches' = batches + 1
  /\ UNCHANGED <<vars, review, batch>>

Selected(r) == {i \in DOMAIN plan[r] : plan[r][i].selected}
SelectedItems(r) ==
  [n \in 1..Cardinality(Selected(r)) |-> CHOOSE i \in Selected(r) : Rank(i, Selected(r)) = n]
UnverifiedLock(r) ==
  \E i \in LeadsOf(r) : "unverified_previous_attempt" \in plan[r][i].blocked

\* build_batch_acceptance_preconditions: an acceptance test starts only with
\* something to send, today's limit not reached and no attempt left unverified.
AcceptanceMayStart(r) == SelectedItems(r) # << >> /\ Remaining > 0 /\ ~UnverifiedLock(r)

ModeLimit(test) == IF test THEN AcceptanceMax ELSE BatchMax

\* Mutant of AttemptsAllowed: the daily limit is left to the plan.
AttemptsOfPlan(r, test) == Least(Len(SelectedItems(r)), ModeLimit(test))

\* Mutant of AttemptsAllowed: the limit of acceptance tests is forgotten.
AttemptsOfBatch(r, test) == Least(Least(Len(SelectedItems(r)), BatchMax), Remaining)

AttemptsAllowed(r, test) ==
  Least(Least(Len(SelectedItems(r)), ModeLimit(test)), Remaining)

\* What the result is given at the start.
Loaded(r, mode, test) ==
  [NoBatch EXCEPT !.mode = mode, !.test = test,
                  !.subset = IF test THEN SubSeq(SelectedItems(r), 1, Least(AcceptanceMax, Len(SelectedItems(r))))
                             ELSE << >>,
                  !.lock = UnverifiedLock(r),
                  !.selected = Len(SelectedItems(r)),
                  !.remaining = Remaining,
                  !.before = today]

Free(b, r) == batch[b].phase = "idle" /\ batches < MaxBatches /\ plan[r] # << >>

\* A result that says why nothing was done: the execution was not confirmed, or
\* an acceptance test must not start.
RefuseBatch(b, r, mode, test) ==
  /\ Free(b, r)
  /\ mode = "execute" \/ (test /\ ~AcceptanceMayStart(r))
  /\ batch' = [batch EXCEPT ![b] =
       [Loaded(r, mode, test) EXCEPT !.phase = "finished",
                                     !.status = IF mode = "execute" THEN "cancelled" ELSE "blocked"]]
  /\ batches' = batches + 1
  /\ UNCHANGED <<vars, review, plan>>

\* execute_batch_plan up to its loop.
StartBatch(b, r, mode, test) ==
  /\ Free(b, r)
  /\ test => AcceptanceMayStart(r)
  /\ batch' = [batch EXCEPT ![b] =
       [Loaded(r, mode, test) EXCEPT
          !.phase = IF Remaining = 0 THEN "finished" ELSE "next",
          !.todo = SubSeq(SelectedItems(r), 1, AttemptsAllowed(r, test)),
          !.status = IF Remaining = 0 THEN "daily_limit_reached"
                     ELSE IF mode = "execute" THEN "completed" ELSE mode]]
  /\ batches' = batches + 1
  /\ UNCHANGED <<vars, review, plan>>

Sends(mode) == mode = "execute"

RequestFor(i, mode) ==
  [comment |-> Leads[i].comment, text |-> Leads[i].text, confirm |-> Sends(mode),
   yes |-> Sends(mode), allowed |-> Allowed[i], override |-> FALSE,
   preview |-> FALSE, keep |-> FALSE]

ASSUME CallAssumption == \A i \in DOMAIN Leads, mode \in Modes : RequestFor(i, mode) \in Requests

\* Mutant of StopStatus: an unverified reply does not stop the batch.
StopStatusLax(r) ==
  IF r.reason = "draft" THEN "failed"
  ELSE IF r.reason = "login" THEN "stopped_login"
  ELSE IF r.reason = "disconnected" THEN "stopped_browser"
  ELSE "none"

\* _batch_stop_status
StopStatus(r) ==
  IF r.status = "unverified" THEN "stopped_unverified"
  ELSE IF r.reason = "draft" THEN "failed"
  ELSE IF r.reason = "login" THEN "stopped_login"
  ELSE IF r.reason = "disconnected" THEN "stopped_browser"
  ELSE "none"

\* Mutant of Counted: whatever was clicked counts as verified.
CountedClicks(counts, r) ==
  IF r.performed THEN [counts EXCEPT !.verified = @ + 1] ELSE counts

\* _increment_result_counts; blocked_unverified_previous_attempt is not counted.
Counted(counts, r) ==
  CASE r.status = "verified"    -> [counts EXCEPT !.verified = @ + 1]
    [] r.status = "duplicate"   -> [counts EXCEPT !.duplicate = @ + 1]
    [] r.status = "blocked"     -> [counts EXCEPT !.blocked = @ + 1]
    [] r.status = "unverified"  -> [counts EXCEPT !.unverified = @ + 1]
    [] r.status = "send_failed" -> [counts EXCEPT !.failed = @ + 1]
    [] OTHER                    -> counts

\* In preflight-only mode an entry is "preflight_passed" or "preflight_failed"
\* and enters none of the counts but that of duplicates.
CountedIn(x, r) ==
  IF x.mode = "preflight_only" /\ r.status # "duplicate" THEN x.counts ELSE Counted(x.counts, r)

\* _preflight_diagnostics, _batch_item_status: a dry run that located the comment
\* and typed the text passes, all else fails.
Passes(x, r) == x.mode = "preflight_only" /\ r.status = "dry_run"

\* Mutant of Ready: an entry that did not fail has passed, a duplicate too.
ReadyUnlessFailed(x) ==
  /\ x.test /\ x.mode = "preflight_only"
  /\ x.subset # << >> /\ x.attempted = Len(x.subset)
  /\ x.passed + x.counts.duplicate = x.attempted
  /\ ~x.lock /\ x.remaining > 0

\* _refresh_acceptance_readiness: the rehearsal of an acceptance test says whether
\* it may be started.
Ready(x) ==
  /\ x.test /\ x.mode = "preflight_only"
  /\ x.subset # << >> /\ x.attempted = Len(x.subset)
  /\ x.passed = x.attempted
  /\ ~x.lock /\ x.remaining > 0

\* The statuses given after the loop.
FinalStatus(x) ==
  LET bad == x.counts.blocked + x.counts.duplicate + x.counts.failed
  IN  IF x.status # "completed" THEN x.status
      ELSE IF x.attempted < x.selected /\ x.attempted >= x.remaining THEN "daily_limit_reached"
      ELSE IF bad > 0 THEN "partial" ELSE "completed"

Finished(x) == [x EXCEPT !.phase = "finished", !.status = FinalStatus(x), !.todo = << >>]

\* The entry of an item is added to the result; the loop stops or goes on,
\* after the interval when it sends.
After(x, r) ==
  LET z == [x EXCEPT !.attempted = @ + 1, !.counts = CountedIn(x, r), !.todo = Tail(@),
                     !.passed = IF Passes(x, r) THEN @ + 1 ELSE @]
      y == [z EXCEPT !.ready = Ready(z)]
  IN  IF StopStatus(r) # "none" THEN Finished([y EXCEPT !.status = StopStatus(r)])
      ELSE IF y.todo = << >> THEN Finished(y)
      ELSE [y EXCEPT !.phase = IF Sends(x.mode) THEN "interval" ELSE "next"]

\* _source_not_allowed_payload
NotAllowed == Done("blocked", "none")

\* Items that the plan marks as not allowed, and in preflight-only mode those
\* the history blocks, get an entry without a call.
WithoutCall(b) ==
  LET i == Head(batch[b].todo)
      l == Leads[i]
  IN  IF ~Allowed[i] THEN {NotAllowed}
      ELSE IF batch[b].mode = "preflight_only" /\ BlockedBy(l.comment, l.text) # "none"
      THEN {Done(BlockedBy(l.comment, l.text), "none")}
      ELSE {}

NextItem(b) ==
  /\ batch[b].phase = "next" /\ batch[b].todo # << >>
  /\ \/ \E r \in WithoutCall(b) :
          batch' = [batch EXCEPT ![b] = After(@, r)] /\ UNCHANGED vars
     \/ /\ WithoutCall(b) = {}
        /\ Call(b, RequestFor(Head(batch[b].todo), batch[b].mode))
        /\ batch' = [batch EXCEPT ![b].phase = "waiting"]
  /\ UNCHANGED <<review, plan, batches>>

NothingSelected(b) ==
  /\ batch[b].phase = "next" /\ batch[b].todo = << >>
  /\ batch' = [batch EXCEPT ![b] = Finished(@)]
  /\ UNCHANGED <<vars, review, plan, batches>>

CallReturns(b) ==
  /\ batch[b].phase = "waiting" /\ Take(b)
  /\ batch' = [batch EXCEPT ![b] = After(@, result[b])]
  /\ UNCHANGED <<review, plan, batches>>

IntervalOver(b) ==
  /\ batch[b].phase = "interval"
  /\ batch' = [batch EXCEPT ![b].phase = "next"]
  /\ UNCHANGED <<vars, review, plan, batches>>

\* The result has been written; the process ends.
EndBatch(b) ==
  /\ batch[b].phase = "finished"
  /\ batch' = [batch EXCEPT ![b] = NoBatch]
  /\ UNCHANGED <<vars, review, plan, batches>>

\* The batch process dies within a call or in the interval between two.
BatchCrash(b) ==
  /\ \/ batch[b].phase = "waiting" /\ Crash(b)
     \/ /\ batch[b].phase \in {"next", "interval"} /\ faults < MaxFaults
        /\ faults' = faults + 1
        /\ UNCHANGED <<pc, req, result, page, history, today, posted, excused, calls>>
  /\ batch' = [batch EXCEPT ![b] = NoBatch]
  /\ UNCHANGED <<review, plan, batches>>

\* Midnight (UTC).
NewDay ==
  /\ faults < MaxFaults
  /\ faults' = faults + 1
  /\ today' = 0
  /\ UNCHANGED <<pc, req, result, page, history, posted, excused, calls, batchVars>>

BatchNext ==
  \/ \E b \in Senders :
       \/ \E r \in Reports :
            \/ ReviewMissing(b, r) \/ BuildPlan(b, r)
            \/ \E mode \in Modes, test \in BOOLEAN :
                 StartBatch(b, r, mode, test) \/ RefuseBatch(b, r, mode, test)
       \/ NextItem(b) \/ NothingSelected(b) \/ CallReturns(b) \/ IntervalOver(b)
       \/ EndBatch(b) \/ BatchCrash(b)
       \/ (ReplyStep(b) /\ UNCHANGED batchVars)
  \/ \E p \in Pages : (Rerender(p) /\ UNCHANGED batchVars)
  \/ NewDay

BatchSpec == BatchInit /\ [][BatchNext]_allVars

=============================================================================
