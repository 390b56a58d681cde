------------------------------- MODULE ReplyPlan -------------------------------
(***************************************************************************)
(* One reply plan with its candidates (src/facebook_leads/saas/service.py, *)
(* reply_automation.py): a worker generates it after a scan, users approve, *)
(* edit, reject and cancel through API threads, and executions send it from *)
(* the event loop.  No row is locked: each of them reads, checks and later  *)
(* writes, so all of them interleave between any two steps.                 *)
(***************************************************************************)
EXTENDS ReplyRules

CONSTANTS
  Candidates, Texts,
  Readings,     \* how the reports of the execution's scans list the comments
  Rendered,     \* the texts that templates render to
  NoText,       \* a candidate without template has no text
  Handlers,     \* API threads
  Executors,    \* requests that execute the plan
  Operations,   \* what users may ask: [kind, cand, text]
  InitialRules, \* the rules that exist and are enabled in the beginning
  Edited,       \* the rules that users create, switch on and off, or delete
  MaxOps, MaxRuns, MaxGenerations, MaxCrashes,
  MaxBusy       \* bound on processes at work at the same time

ASSUME EditableAssumption == {InitialRules, Edited} \subseteq SUBSET DOMAIN Rules
ASSUME OperationAssumption ==
  Operations \subseteq
    [kind : {"approve", "reject", "cancel", "edit", "approve_plan", "cancel_plan"},
     cand : Candidates, text : Texts]
ASSUME ReadingAssumption ==
  Readings \in Seq([cand : Candidates, source : STRING, allowed : BOOLEAN, noise : Nat,
                    comment : Comment])
ASSUME PlanAssumption == "plan" \notin Candidates
ASSUME TextAssumption == NoText \notin Texts /\ Rendered \subseteq Texts
ASSUME BoundAssumption ==
  {MaxOps, MaxRuns, MaxGenerations, MaxCrashes, MaxBusy} \subseteq Nat

VARIABLES
  rules,        \* reply_match_rules: those that are enabled
  plan,         \* reply_plans: status, whether approved_by is set, reply_mode "automatic"
  cand,         \* reply_candidates: status, text, whether blocked_reason is set
  record,       \* reply_records with the key "<candidate>:send"
  history,      \* reply_history.jsonl (module CommentReply)
  posted,       \* replies on Facebook
  worker,       \* generate_reply_plan_for_execution: readings left, or "off"
  hand, exec,   \* handlers and executions
  approved,     \* the texts that users approved, or that an automatic plan proposed
  raced,        \* candidates on which two handlers, or two executions, overlapped
  settled,      \* candidates and plan ("plan") closed while nobody else was at work
  ops, runs, generations, crashes

vars == <<rules, plan, cand, record, history, posted, worker, hand, exec, approved, raced, settled,
          ops, runs, generations, crashes>>
bounds == <<ops, runs, generations, crashes>>
outside == <<history, posted, rules>>

PlanStatus  == {"none", "pending_approval", "approved", "blocked", "cancelled", "executed",
                "partial", "failed"}
CandStatus  == {"none", "pending_approval", "approved", "blocked", "rejected", "cancelled",
                "sent", "failed"}
\* "blocked", "unverified", "failed" and "duplicate" are treated alike everywhere.
RecordStatus == {"none", "sent", "not_sent"}
Payload     == {"empty", "keep", "none", "approve", "pend"}
NoOperation == [kind |-> "idle"]

Off        == [left |-> {}, pc |-> "off", payload |-> "keep", rules |-> {}]
IdleThread == [pc |-> "idle", op |-> NoOperation, payload |-> "keep"]
IdleRun    == [pc |-> "idle", payload |-> "keep", listed |-> {}, todo |-> {}, sent |-> {},
               text |-> [c \in Candidates |-> NoText], now |-> {}, existing |-> "none",
               outcome |-> "none"]

TypeOK ==
  /\ plan \in [status : PlanStatus, approver : BOOLEAN, automatic : BOOLEAN]
  /\ cand \in [Candidates -> [status : CandStatus, text : Texts \cup {NoText}, reason : BOOLEAN]]
  /\ record \in [Candidates -> RecordStatus]
  /\ history \in [Candidates -> [Texts -> {"none", "performed", "verified"}]]
  /\ posted \in [Candidates -> [Texts -> Nat]]
  /\ worker \in [left : SUBSET DOMAIN Readings, pc : {"off", "on", "apply"}, payload : Payload,
                rules : SUBSET DOMAIN Rules]
  /\ rules \subseteq DOMAIN Rules
  /\ hand \in [Handlers -> [pc : {"idle", "write", "sync", "apply", "seal"},
                            op : Operations \cup {NoOperation}, payload : Payload]]
  /\ exec \in [Executors -> [pc : {"idle", "apply", "list", "resync", "look", "gate", "click",
                                   "landed", "persist", "mark", "close"},
                             payload : Payload, listed : SUBSET Candidates,
                             todo : SUBSET Candidates, sent : SUBSET Candidates,
                             text : [Candidates -> Texts \cup {NoText}],
                             now : SUBSET Candidates, existing : RecordStatus,
                             outcome : RecordStatus]]
  /\ approved \in [Candidates -> SUBSET Texts]
  /\ raced \subseteq Candidates \X {"handlers", "executions"} /\ settled \subseteq Candidates \cup {"plan"}
  /\ ops \in 0..MaxOps /\ runs \in 0..MaxRuns /\ generations \in 0..MaxGenerations
  /\ crashes \in 0..MaxCrashes

Init ==
  /\ rules = InitialRules
  /\ plan = [status |-> "none", approver |-> FALSE, automatic |-> FALSE]
  /\ cand = [c \in Candidates |-> [status |-> "none", text |-> NoText, reason |-> FALSE]]
  /\ record = [c \in Candidates |-> "none"]
  /\ history = [c \in Candidates |-> [t \in Texts |-> "none"]]
  /\ posted = [c \in Candidates |-> [t \in Texts |-> 0]]
  /\ worker = Off
  /\ hand = [h \in Handlers |-> IdleThread]
  /\ exec = [e \in Executors |-> IdleRun]
  /\ approved = [c \in Candidates |-> {}]
  /\ raced = {} /\ settled = {}
  /\ ops = 0 /\ runs = 0 /\ generations = 0 /\ crashes = 0

-----------------------------------------------------------------------------
(* Helpers.                                                                *)

Present  == {c \in Candidates : cand[c].status # "none"}
Approved == {c \in Candidates : cand[c].status = "approved"}

\* Mutant of SyncPayload: the sum of its candidates decides on a cancelled plan too.
SyncPayloadReopens ==
  IF Present = {} THEN "empty"
  ELSE IF plan.status = "executed" THEN "keep"
  ELSE IF Approved = {} THEN "none"
  ELSE IF plan.approver \/ plan.automatic THEN "approve" ELSE "pend"

\* _sync_reply_plan, its reads: which columns it is going to write.
SyncPayload ==
  IF Present = {} THEN "empty"
  ELSE IF plan.status \in {"executed", "cancelled"} THEN "keep"
  ELSE IF Approved = {} THEN "none"
  ELSE IF plan.approver \/ plan.automatic THEN "approve" ELSE "pend"

\* Its write; columns that are not in the payload keep what they hold by now.
Synced(payload) ==
  CASE payload = "empty"   -> [plan EXCEPT !.status = "blocked", !.approver = FALSE]
    [] payload = "none"    -> [plan EXCEPT !.status = "pending_approval", !.approver = FALSE]
    [] payload = "approve" -> [plan EXCEPT !.status = "approved"]
    [] payload = "pend"    -> [plan EXCEPT !.status = "pending_approval"]
    [] payload = "keep"    -> plan

\* Candidates a handler has read and is going to write, an execution has listed
\* and not yet finished.
Writing(h) == IF hand[h].pc = "write" /\ hand[h].op.kind # "cancel_plan"
              THEN {hand[h].op.cand} ELSE {}
Sending(e) == exec[e].todo \cup exec[e].now

Room ==
  Cardinality({h \in Handlers : hand[h].pc # "idle"})
    + Cardinality({e \in Executors : exec[e].pc # "idle"})
    + (IF worker = Off THEN 0 ELSE 1) < MaxBusy

Alone(h) ==
  /\ worker = Off
  /\ \A g \in Handlers \ {h} : hand[g].pc = "idle"
  /\ \A e \in Executors : exec[e].pc = "idle"

-----------------------------------------------------------------------------
(* The worker: generate_reply_plan_for_execution.                          *)

\* Mutant of ScannedComments: what the target policy forbids to answer is taken too.
ScannedAll == {S \in SUBSET DOMAIN Readings : S # {}}

\* comments_from_scan_artifacts: of the readings the reports have by then, those that
\* may be answered, each comment of a source once: the least noisy, the first of equals.
ScannedComments ==
  LET Same(i, k)   == Readings[i].cand = Readings[k].cand /\ Readings[i].source = Readings[k].source
      Better(i, k) == \/ Readings[i].noise < Readings[k].noise
                      \/ Readings[i].noise = Readings[k].noise /\ i < k
      Kept(S)      == LET allowed == {i \in S : Readings[i].allowed}
                      IN {i \in allowed : \A k \in allowed \ {i} : Same(i, k) => Better(i, k)}
  IN {Kept(S) : S \in SUBSET DOMAIN Readings}

\* It runs again when the execution is recovered and completes once more.
Generate ==
  /\ worker = Off /\ generations < MaxGenerations /\ Room
  /\ generations' = generations + 1
  /\ \E automatic \in BOOLEAN :
       plan' = IF plan.status # "none" THEN plan
               ELSE [status |-> IF automatic THEN "approved" ELSE "pending_approval",
                     approver |-> FALSE, automatic |-> automatic]
  /\ \E is \in ScannedComments : worker' = [Off EXCEPT !.pc = "on", !.left = is, !.rules = rules]
  /\ UNCHANGED <<cand, record, outside, hand, exec, approved, raced, settled, ops, runs, crashes>>

\* Mutant of Wanted: the rules are read again for each comment.
WantedNow(i) == cand[Readings[i].cand].status = "none" /\ Matches(Readings[i].comment, rules)

\* The candidate's key tells no sources apart: one reading of a comment is enough.
Wanted(i) == cand[Readings[i].cand].status = "none" /\ Matches(Readings[i].comment, worker.rules)

\* _select_reply_template finds no template that is enabled.
BlockCandidate(c) ==
  /\ cand' = [cand EXCEPT ![c] = [status |-> "blocked", text |-> NoText, reason |-> TRUE]]
  /\ UNCHANGED approved

\* render_template; what an automatic plan proposes counts as approved.
RenderCandidate(c) ==
  \E t \in Rendered :
       /\ cand' = [cand EXCEPT ![c].status = IF plan.automatic THEN "approved"
                                             ELSE "pending_approval",
                               ![c].text = t]
       /\ approved' = IF plan.automatic THEN [approved EXCEPT ![c] = @ \cup {t}] ELSE approved

Propose(i) ==
  /\ worker.pc = "on" /\ i \in worker.left
  /\ worker' = [worker EXCEPT !.left = @ \ {i}]
  /\ LET c == Readings[i].cand
     IN IF Wanted(i) THEN BlockCandidate(c) \/ RenderCandidate(c) ELSE UNCHANGED <<cand, approved>>
  /\ UNCHANGED <<plan, record, outside, hand, exec, raced, settled, bounds>>

\* A variable without value, or another worker's candidate with the same key,
\* ends the generation without synchronising the plan.
GenerationRaises ==
  /\ worker.pc = "on" /\ worker.left # {}
  /\ worker' = Off
  /\ UNCHANGED <<plan, cand, record, outside, hand, exec, approved, raced, settled, bounds>>

GenerationSync ==
  /\ \/ /\ worker.pc = "on" /\ worker.left = {}
        /\ worker' = [worker EXCEPT !.pc = "apply", !.payload = SyncPayload]
        /\ UNCHANGED plan
     \/ /\ worker.pc = "apply"
        /\ plan' = Synced(worker.payload)
        /\ worker' = Off
  /\ UNCHANGED <<cand, record, outside, hand, exec, approved, raced, settled, bounds>>

-----------------------------------------------------------------------------
(* The handlers.                                                           *)

\* A rule is created, switched on, switched off or deleted; its copy is made switched
\* off.  What it demands stays: a changed rule is another one.
EditRule(k) ==
  /\ ops < MaxOps /\ ops' = ops + 1
  /\ rules' = IF k \in rules THEN rules \ {k} ELSE rules \cup {k}
  /\ UNCHANGED <<plan, cand, record, history, posted, worker, hand, exec, approved, raced, settled,
                 runs, generations, crashes>>

Thread(h, pc) == hand' = [hand EXCEPT ![h].pc = pc]
Finish(h)     == hand' = [hand EXCEPT ![h] = IdleThread]

\* Mutant of MayWrite: only a candidate that was sent is locked against editing.
MayWriteUnlocked(op) ==
  CASE op.kind = "approve"     -> /\ cand[op.cand].status \in {"pending_approval", "blocked"}
                                  /\ ~cand[op.cand].reason /\ cand[op.cand].text # NoText
    [] op.kind \in {"reject", "cancel"}
                               -> cand[op.cand].status \in {"pending_approval", "blocked", "approved"}
    [] op.kind = "edit"        -> cand[op.cand].status \notin {"none", "sent"}
    [] op.kind = "cancel_plan" -> plan.status \in {"pending_approval", "approved", "blocked"}
    [] OTHER                   -> FALSE

\* The check of each handler on the row it has just read.
MayWrite(op) ==
  CASE op.kind = "approve"     -> /\ cand[op.cand].status \in {"pending_approval", "blocked"}
                                  /\ ~cand[op.cand].reason /\ cand[op.cand].text # NoText
    [] op.kind \in {"reject", "cancel"}
                               -> cand[op.cand].status \in {"pending_approval", "blocked", "approved"}
    [] op.kind = "edit"        -> cand[op.cand].status \notin {"none", "sent", "rejected", "cancelled"}
    [] op.kind = "cancel_plan" -> plan.status \in {"pending_approval", "approved", "blocked"}
    [] OTHER                   -> FALSE

\* Approving what is approved or sent only synchronises; approve_reply_plan
\* synchronises first; every other refusal is a conflict.
Request(h, op) ==
  /\ hand[h].pc = "idle" /\ ops < MaxOps /\ Room
  /\ ops' = ops + 1
  /\ IF MayWrite(op) THEN hand' = [hand EXCEPT ![h].pc = "write", ![h].op = op]
     ELSE IF \/ op.kind = "approve" /\ cand[op.cand].status \in {"approved", "sent"}
             \/ op.kind = "approve_plan" /\ plan.status # "none"
          THEN hand' = [hand EXCEPT ![h].pc = "sync", ![h].op = op]
     ELSE UNCHANGED hand
  \* what a user approves is the text the candidate has now
  /\ approved' = IF op.kind = "approve" /\ MayWrite(op)
                 THEN [approved EXCEPT ![op.cand] = @ \cup {cand[op.cand].text}] ELSE approved
  /\ UNCHANGED <<plan, cand, record, outside, worker, exec, raced, settled,
                 runs, generations, crashes>>

\* Mutant of Written: an edit leaves the approval in place.
WrittenKeepsApproval(row, op) ==
  CASE op.kind = "approve" -> [row EXCEPT !.status = "approved", !.reason = FALSE]
    [] op.kind = "edit"    -> [row EXCEPT !.text = op.text, !.reason = FALSE]
    [] op.kind = "reject"  -> [row EXCEPT !.status = "rejected", !.reason = TRUE]
    [] op.kind = "cancel"  -> [row EXCEPT !.status = "cancelled", !.reason = TRUE]

Written(row, op) ==
  CASE op.kind = "approve" -> [row EXCEPT !.status = "approved", !.reason = FALSE]
    [] op.kind = "edit"    -> [status |-> "pending_approval", text |-> op.text, reason |-> FALSE]
    [] op.kind = "reject"  -> [row EXCEPT !.status = "rejected", !.reason = TRUE]
    [] op.kind = "cancel"  -> [row EXCEPT !.status = "cancelled", !.reason = TRUE]

WriteCandidate(h) ==
  LET op == hand[h].op IN
  /\ hand[h].pc = "write" /\ op.kind # "cancel_plan"
  /\ cand' = [cand EXCEPT ![op.cand] = Written(@, op)]
  /\ raced' = IF \E g \in Handlers \ {h} : op.cand \in Writing(g)
              THEN raced \cup {<<op.cand, "handlers">>} ELSE raced
  /\ settled' = IF op.kind \in {"reject", "cancel"} /\ Alone(h)
                THEN settled \cup {op.cand} ELSE settled
  /\ Thread(h, "sync")
  /\ UNCHANGED <<plan, record, outside, worker, exec, approved, bounds>>

\* cancel_reply_plan writes the status and nothing else.
CancelPlan(h) ==
  /\ hand[h].pc = "write" /\ hand[h].op.kind = "cancel_plan"
  /\ plan' = [plan EXCEPT !.status = "cancelled"]
  /\ settled' = IF Alone(h) /\ Present # {} THEN settled \cup {"plan"} ELSE settled
  /\ Finish(h)
  /\ UNCHANGED <<cand, record, outside, worker, exec, approved, raced, bounds>>

SyncRead(h) ==
  /\ hand[h].pc = "sync"
  /\ hand' = [hand EXCEPT ![h].pc = "apply", ![h].payload = SyncPayload]
  /\ UNCHANGED <<plan, cand, record, outside, worker, exec, approved, raced, settled, bounds>>

\* approve_reply_plan goes on if the plan has approved candidates.
SyncWrite(h) ==
  /\ hand[h].pc = "apply"
  /\ plan' = Synced(hand[h].payload)
  /\ IF hand[h].op.kind = "approve_plan" /\ hand[h].payload \in {"approve", "pend"}
     THEN Thread(h, "seal") ELSE Finish(h)
  /\ UNCHANGED <<cand, record, outside, worker, exec, approved, raced, settled, bounds>>

ApprovePlan(h) ==
  /\ hand[h].pc = "seal"
  /\ plan' = [plan EXCEPT !.status = "approved", !.approver = TRUE]
  /\ Finish(h)
  /\ UNCHANGED <<cand, record, outside, worker, exec, approved, raced, settled, bounds>>

-----------------------------------------------------------------------------
(* execute_reply_plan.                                                     *)

rest == <<worker, hand, approved, settled, bounds>>
Run(e, pc) == exec' = [exec EXCEPT ![e].pc = pc]
End(e)     == exec' = [exec EXCEPT ![e] = IdleRun]

Execute(e) ==
  /\ exec[e].pc = "idle" /\ runs < MaxRuns /\ plan.status # "none" /\ Room
  /\ exec' = [exec EXCEPT ![e].pc = "apply", ![e].payload = SyncPayload]
  /\ runs' = runs + 1
  /\ UNCHANGED <<plan, cand, record, outside, worker, hand, approved, raced, settled,
                 ops, generations, crashes>>

\* The status of the row as the synchronisation left it decides.
ExecuteSync(e) ==
  /\ exec[e].pc \in {"apply", "resync"}
  /\ plan' = Synced(exec[e].payload)
  /\ IF exec[e].pc = "apply" /\ plan'.status = "approved" THEN Run(e, "list") ELSE End(e)
  /\ UNCHANGED <<cand, record, outside, raced, rest>>

\* _reply_send_guard: send switches, runtime, login and the daily limit, read once
\* for the whole plan.
Guarded(e) ==
  /\ plan' = [plan EXCEPT !.status = "blocked"]
  /\ End(e)
  /\ UNCHANGED raced

\* The approved candidates are read once, with their texts.
ListApproved(e) ==
  /\ exec[e].pc = "list"
  /\ \/ /\ Approved = {}
        /\ exec' = [exec EXCEPT ![e].pc = "resync", ![e].payload = SyncPayload]
        /\ UNCHANGED <<plan, raced>>
     \/ Approved # {} /\ Guarded(e)
     \/ /\ Approved # {}
        /\ exec' = [exec EXCEPT ![e].pc = "look", ![e].listed = Approved, ![e].todo = Approved,
                                ![e].text = [c \in Candidates |-> IF c \in Approved
                                                                  THEN cand[c].text ELSE NoText]]
        /\ raced' = raced \cup {<<c, "executions">> :
                               c \in Approved \cap UNION {Sending(d) : d \in Executors \ {e}}}
        /\ UNCHANGED plan
  /\ UNCHANGED <<cand, record, outside, rest>>

\* Mutant of AlreadySent: any earlier record counts as sent.
AlreadySentOnAny(c) == record[c] # "none"
\* Mutant of AlreadySent: the history file alone guards against a second reply.
AlreadySentNever(c) == FALSE

AlreadySent(c) == record[c] = "sent"

LookUp(e) ==
  /\ exec[e].pc = "look"
  /\ \/ \E c \in exec[e].todo :
          IF AlreadySent(c)
          THEN exec' = [exec EXCEPT ![e].todo = @ \ {c}, ![e].sent = @ \cup {c}]
          ELSE exec' = [exec EXCEPT ![e].pc = "gate", ![e].todo = @ \ {c}, ![e].now = {c},
                                    ![e].existing = record[c]]
     \/ exec[e].todo = {} /\ Run(e, "close")
  /\ UNCHANGED <<plan, cand, record, outside, raced, rest>>

\* Mutant of Outcome: the sender's own word is taken for the status of the record.
OutcomeRaw(e, status) ==
  exec' = [exec EXCEPT ![e].pc = "persist",
                       ![e].outcome = IF status = "sent" THEN "verified" ELSE status]

Outcome(e, status) == exec' = [exec EXCEPT ![e].pc = "persist", ![e].outcome = status]

\* reply_to_comment up to the click (module CommentReply): the history refuses a
\* second attempt, and no runtime, page or input may end it.
Gate(e) ==
  /\ exec[e].pc = "gate"
  /\ \E c \in exec[e].now :
       \/ history[c][exec[e].text[c]] = "none" /\ Run(e, "click")
       \/ Outcome(e, "not_sent")
  /\ UNCHANGED <<plan, cand, record, outside, raced, rest>>

ClickSend(e) ==
  /\ exec[e].pc = "click"
  /\ \E c \in exec[e].now, delivered \in BOOLEAN :
       posted' = IF delivered THEN [posted EXCEPT ![c][exec[e].text[c]] = @ + 1] ELSE posted
  /\ Run(e, "landed")
  /\ UNCHANGED <<rules, plan, cand, record, history, raced, rest>>

\* The click's line in the history, and the verdict; or the click raised.
Verdict(e) ==
  /\ exec[e].pc = "landed"
  /\ \E c \in exec[e].now :
       \/ history' = [history EXCEPT ![c][exec[e].text[c]] = "verified"] /\ Outcome(e, "sent")
       \/ /\ history' = [history EXCEPT ![c][exec[e].text[c]] = IF @ = "none" THEN "performed" ELSE @]
          /\ Outcome(e, "not_sent")
       \/ UNCHANGED history /\ Outcome(e, "not_sent")
  /\ UNCHANGED <<rules, plan, cand, record, posted, raced, rest>>

\* _persist_reply_record updates the record it found before the await, or inserts
\* one unless there is one by now.
PersistRecord(e) ==
  /\ exec[e].pc = "persist"
  /\ \E c \in exec[e].now :
       record' = IF exec[e].existing = "none" /\ record[c] # "none" THEN record
                 ELSE [record EXCEPT ![c] = exec[e].outcome]
  /\ Run(e, "mark")
  /\ UNCHANGED <<plan, cand, outside, raced, rest>>

MarkCandidate(e) ==
  /\ exec[e].pc = "mark"
  /\ \E c \in exec[e].now :
       /\ cand' = [cand EXCEPT ![c].status = IF exec[e].outcome = "sent" THEN "sent" ELSE "failed"]
       /\ exec' = [exec EXCEPT ![e].pc = "look", ![e].now = {}, ![e].existing = "none",
                               ![e].outcome = "none",
                               ![e].sent = IF exec[e].outcome = "sent" THEN @ \cup {c} ELSE @]
  /\ UNCHANGED <<plan, record, outside, raced, rest>>

\* The final status is written whatever the plan's status is by now.
ClosePlan(e) ==
  /\ exec[e].pc = "close"
  /\ plan' = [plan EXCEPT !.status = IF exec[e].sent = exec[e].listed THEN "executed"
                                     ELSE IF exec[e].sent # {} THEN "partial" ELSE "failed"]
  /\ End(e)
  /\ UNCHANGED <<cand, record, outside, raced, rest>>

\* The API process dies: with it all requests under way.
ApiCrash ==
  /\ crashes < MaxCrashes
  /\ crashes' = crashes + 1
  /\ hand' = [h \in Handlers |-> IdleThread]
  /\ exec' = [e \in Executors |-> IdleRun]
  /\ UNCHANGED <<plan, cand, record, outside, worker, approved, raced, settled,
                 ops, runs, generations>>

Worker == Generate \/ (\E i \in DOMAIN Readings : Propose(i)) \/ GenerationRaises \/ GenerationSync
Handle(h) ==
  WriteCandidate(h) \/ CancelPlan(h) \/ SyncRead(h) \/ SyncWrite(h) \/ ApprovePlan(h)
ExecStep(e) ==
  \/ ExecuteSync(e) \/ ListApproved(e) \/ LookUp(e) \/ Gate(e) \/ ClickSend(e) \/ Verdict(e)
  \/ PersistRecord(e) \/ MarkCandidate(e) \/ ClosePlan(e)

Next ==
  \/ Worker
  \/ \E h \in Handlers : Handle(h) \/ (\E op \in Operations : Request(h, op))
  \/ \E e \in Executors : Execute(e) \/ ExecStep(e)
  \/ \E k \in Edited : EditRule(k)
  \/ ApiCrash

Spec == Init /\ [][Next]_vars

=============================================================================
