# A verification project for the Facebook-lead SaaS

The repository is a multi-tenant service that searches Facebook with the keywords of a
campaign, rates the comments it finds, and prepares (and, where switched on, sends) replies.
Users work through a FastAPI backend and a React dashboard; a scheduler enqueues campaigns
that are due; worker processes claim queued executions and drive one Chromium per platform
account over CDP; everything else meets in PostgreSQL. Beside the service the same pipeline
can be run by an operator from the command line, with files in the place of tables. This
directory holds TLA+ models of the parts whose correctness depends on the order in which
those processes act, and of the decisions they take on what they read.

Paths below are relative to `src/facebook_leads/saas/` of the repository, those of the
Facebook pipelines to `src/facebook_leads/facebook/`, unless they start with another directory.

## 1. Inventory

### Execution queue and worker pool - `service.py`, `storage.py`, `worker.py`, `scripts/saas_worker.py`

* State: `executions` (status, cancel_requested), `execution_queue_items` (status,
  attempt_count, claimed_by, run_after, started_at), `worker_heartbeats`, the process-local
  set `SaaSService._runtime_locks`, one PostgreSQL advisory lock per browser runtime, the
  locals of `tick` and `run_queue_item`.
* Operations: `enqueue_campaign_execution` (two inserts), `claim_queue_item`,
  `fail_stale_queue_items`, `run_queue_item` with its tails `_retry_queue_item`,
  `_finish_queue_error`, `_finish_queue_failure`, `_cancel_queue_item`, `cancel_execution`,
  the heartbeat task, SIGTERM.
* Hard: several worker processes with several coroutines each; every update is a
  transaction of its own by primary key, without looking at the old value; processes die
  between any two of them; recovery guesses from ages that a worker is lost; a user cancels
  at any time.
* Correct when: one account's browser is driven by one run; no item is run by two workers;
  attempts are bounded; locks are given back; both tables tell the same result; everything
  enqueued or cancelled ends.

### Schedules, scheduler, enqueue guards - `scheduler.py`, `service.py:1350-1424,1578-1643`

* State: `campaign_schedules` (enabled, next_run_at, last_run_at), the unique
  `schedule_trigger_key` of queue items, the count of waiting items of a tenant.
* Operations: `tick`, `enqueue_execution`, `update_next_run`, `defer_queue_full`; a user's
  `put_campaign_schedule` and `disable_campaign_schedule`; manual enqueue and `retry_execution`.
* Hard: the schedule row read by a tick is written back after the user has changed it; a
  crash between enqueue and `update_next_run`; the queue limit is counted and then used.
* Correct when: a window is enqueued once; missed periods lead to one run; a disabled schedule
  stays disabled; a schedule that is due is dealt with; nothing refused is charged; what
  enqueues add to the backlog of a tenant is bounded.

### Reply plans and candidates - `service.py:884-1218, 2166-2245`, `reply_automation.py`

* State: `reply_plans.status`, `reply_candidates.status`, `reply_records` with their
  idempotency keys; templates and rules of a campaign.
* Operations: approve, reject, cancel and edit a candidate; approve, cancel and execute a
  plan; `generate_reply_plan_for_execution` with `match_comment`; `_sync_reply_plan` after
  most of them.
* Hard: sending awaits the browser between reading the approved candidates and writing their
  results; another request approves, edits, cancels or executes the same plan meanwhile.
* Correct when: what is sent was approved, in the text that was approved; a recorded send is
  final; a cancelled or rejected reply is not sent and does not come back; candidates are
  those the rules ask for.

### Browser runtime registry - `runtime.py`, `browser_runtime_api.py`, `service.py:240-350`

* State: `browser_runtimes` (status, cdp_port, pid), profile directories and saved login
  states on disk, the processes, pids and forwarders of the runtime's control process.
* Operations: reserve, start, stop, restart, reset profile, delete the account, health check,
  login check, preflight.
* Hard: requests of users and of a running worker on the same runtime; a port counted as
  free by two creators; process ids known only to the process that started the browser.
* Correct when: one browser per profile; a port is answered by the account it is recorded
  for; a stopped or deleted account has no browser; a reset forgets the login.

### Sessions, members, invitations - `service.py:165-262`, `services/auth.py`, `productization.py`

* State: `sessions` (expires_at, last_seen_at, revoked_at, of which user), `tenant_members`,
  `tenant_invitations`, password hashes, limits of the plan.
* Operations: login, logout, authenticate and touch, switch of tenant (a new session),
  ending one's sessions, password change, add, change, transfer and remove members, invite,
  send again, accept, revoke.
* Hard: a role or a limit is read in one transaction and acted on in another; a password
  changes while a login with the old one is under way.
* Correct when: a changed password ends old sessions; a session in use does not expire early;
  a tenant keeps an owner; admins stay off admins; an invitation admits once.

### Leads, token usage and result persistence - `persist.py`, `storage.py:224-300, 474-511`

* State: `leads` (unique by fingerprint), `lead_evidence`, `token_usage`, the status of an
  execution's keyword.
* Hard: users edit a lead while a worker merges into it; deadlocks between the two; an
  attempt that starts over saves and bills again.
* Correct when: what a user decided stays; discoveries add up; a completed keyword is saved;
  usage of a reviewed keyword is counted once.

### Scan job - `orchestrator.py`, `scanner.py`, `search.py`, `comments.py`, `comment_links.py`, `content.py`, `login_state.py`, `report.py`, `intent.py`, `llm_review.py`

* State: the lock file of the host, and per run the job state, the comment snapshot, the
  report, the reviewed report and the reply plan, all files.
* Operations: take and release the lock, check the login, search, open a content, expand
  and read its comments, snapshot, report, review, plan; resume.
* Hard: a job dies anywhere and is resumed from files of different ages; the DOM grows while
  it is read; answers of the LLM come by index, late or not at all.
* Correct when: one job drives the browser; what was scanned stays and is not scanned twice;
  limits hold; a plan rests on the scan; an answer reaches the lead it is about.

### Replies - `reply.py`, `reply_batch.py`, `target_policy.py`, `ownership.py`

* State: the history file (one line per attempt), the page with its drafts, plan files, the
  report of a batch; Facebook itself.
* Operations: one reply with its gates, typing, click and verification; planning, dry run,
  rehearsal, acceptance test and execution of a batch.
* Hard: the process dies between the click and its line; verification fails though the reply
  is there; a plan is executed again; midnight passes; what a page says about its owner.
* Correct when: a comment gets a text once; what was posted was asked for; the daily limit
  holds; an unverified reply stops the batch; only sources of the policy are answered.

### The rest

HTTP translation (`api.py`), artifact files and S3 (`artifact_bundle.py`), configuration,
migrations, seed data, adapters (`src/controller`, `src/utils`, `src/browser`), the first
standalone workflow (`src/facebook_leads/*.py`) and the dashboard keep no protocol of their
own; the browser agents and the Gradio UI (`src/agent`, `src/webui`) come from the project
this one was forked from. `PROJECT.json` lists each with the reason.

### How they interact

User or scheduler -> enqueue -> queue rows -> worker -> provider (scan job) -> persisted
leads and usage -> reply plan -> user approves -> plan is executed through the browser. The
only shared state between processes is the database and its advisory locks, the host's lock
file and the browser of an account; between the coroutines of a worker process also the
event loop and `_runtime_locks`.

## 2. Modules

A component is a module with its state and actions, a `...Props` module with its properties
and an `MC...` module with instances for TLC. Definitions that start with "Mutant of" change a
definition the way a bug would; no specification uses them.

| module | what it is |
| --- | --- |
| `ExecutionQueue`, `...Props` | the queue, its workers, cancel requests, faults |
| `JobLifecycle` | the abstract promise: a job is submitted once, tried a bounded number of times, finished once |
| `ExecutionQueueProofs` | proofs: types, locks, claims; the queue implements `JobLifecycle`; the two tables agree |
| `CampaignSchedule`, `...Props` | schedules, the scheduler, enqueue guards and inserts, requests, edits, crashes, the clock |
| `CampaignScheduleProofs` | proofs: types, windows, charges, the backlog, disabled schedules and next runs, the distance and the recording of runs |
| `ReplyRules` | which comments a campaign answers: `match_comment` as operators |
| `ReplyPlan`, `...Props` | extends `ReplyRules`: one plan, its generation, users, executions |
| `ReplyPlanProofs` | proofs: approved texts, records of sends, withdrawals, candidates asked for |
| `ContentFacts` | who a content belongs to, from its URL, links and titles |
| `SourcePolicy` | extends `ContentFacts`: whether the target policy lets a source be answered |
| `CommentReply`, `...Props` | one reply to one comment |
| `ReplyBatch`, `...Props` | extends `CommentReply` and `SourcePolicy`: batches are its senders |
| `ReplyProofs` | proofs about both: the history protects, what is posted was asked for and covered, a batch's counts, its stop and its rehearsal |
| `BrowserRuntime`, `...Props` | rows, processes, ports, forwarders and logins of browsers |
| `BrowserRuntimeProofs` | proofs: browsers stay apart, a reset forgets, a stop ends, nothing stays behind |
| `TenantAccess`, `...Props` | sessions, passwords, members, invitations |
| `TenantAccessProofs` | proofs: sessions, membership, who may change what |
| `PageReading` | what a scan brings up and reads of a page's comments |
| `ContentSearch` | extends `PageReading`: search results, opening a content, the login state |
| `LeadRules` | extends `PageReading`: rating of comments, the report's order, the LLM review |
| `ScanJob`, `...Props` | extends `ContentSearch` and `LeadRules`: the job, its lock, files and resumption |
| `ScanJobProofs` | proofs: one job at a time, what a plan rests on |
| `LeadTable`, `...Props` | leads of a campaign, the worker that saves them, users who edit them |
| `LeadTableProofs` | proofs: results are kept, leads keep their history |

Composition is by EXTENDS where the code calls: a batch calls `reply_to_comment`, so
`BatchNext` has the steps of `CommentReply`; a job calls the search, the readers and the
review. Components that meet only in the database meet in the models through the actions
each allows the other: `CampaignSchedule` has a worker that takes and ends items,
`ExecutionQueue` users who cancel, `LeadTable` a worker with attempts that start over.

A property that holds only while requests do not overlap excuses exactly the entity they
overlapped on, with a history variable that nothing else reads: `excused` (replies), `raced`
(plans, leads), `mixed` (accounts), `late`, `entangled`, `crowded` (tenants), `bared` and
`outdated` (jobs). Its comment says what the code does in the excused case; section 3 lists
what that means for users.

### How ExecutionQueue corresponds to the code

An *item* is an execution with its queue row. A worker is a coroutine of `ExecutionWorker`;
`pc[w]` names the next database call or decision of `tick` / `run_queue_item`, `run[w]` holds
the locals that outlive a step. One action is one transaction (or one read that a later
step uses). Writes by `update_by_id` do not look at the row, and neither do the actions: what
another process wrote in between is overwritten, as in the code.

* *Event loop.* The coroutines of one process interleave only where the code awaits: between
  ticks, in `check_login`, in the provider, and when joining the heartbeat task. `Turn` says
  so; workers of different processes interleave between any two steps.
* *Time* is abstracted to three flags. `due`: run_after has passed. `aged`: started_at is older
  than `queue_stale_seconds`. `fresh`: last_seen_at is younger than `heartbeat_stale_seconds`.
  A claim ages only after the heartbeat that follows it at once (six hours against
  milliseconds). The heartbeat of a live worker expires only under the fault
  `late_heartbeat`; that of a dead one always may.
* *Faults* are a constant, so that each run says which ones it allows: `crash` (a worker
  process dies and loses its locks), `late_heartbeat`, `post_run` (report upload or reply
  planning raises), `api_crash` (a cancel request dies between its two writes).
* *Retry delays, messages, progress, aggregates and notifications* are left out. A keyword
  ends in one of three ways: completed, failed, failed with a retryable error.
* *Merged steps.* The polling heartbeat and recovery (nobody else reads the heartbeat in
  between with another result); the pre-flight reads that lead to the same failure; the two
  looks at `_runtime_locks` (no await in between).
* *Counting.* `run_queue_item` counts a keyword as completed before it is saved
  (`service.py:1757`), and as failed too if the save raises; here a keyword has one result. The
  count decides only whether the item is tried again, which `LeadTable` has as it is.
* *Not modelled.* Loss of the advisory-lock connection while its process lives; a database
  error in the middle of a run (in `tick` it ends the process, which is `Crash`; inside the
  `try` it is one more way to `_finish_queue_error`); the SQLite mode (no advisory locks);
  worker ids shared by several containers; ties in priority order.

### How CampaignSchedule corresponds to the code

An actor is a scheduler process or an API request that enqueues; `pc[a]` names its next
database call, `job[a]` holds its local variables: the rows of the scan it has not looked at,
the row it works on, the trigger key, the execution it has inserted.

* *Steps.* A scan is one query and one action. The guards of `enqueue_campaign_execution` are
  reads that lead to one verdict and are one action; the insert of the execution, the insert
  of its queue item (or the delete of an execution whose item the unique key refused) and the
  write of `next_run_at` are transactions of their own, and so actions of their own. Anything
  may happen between two of them.
* *Time* is a counter of minutes, the precision of a trigger key; it advances between any two
  steps. The zone is ahead of UTC by `Fold` minutes until `FoldAt` and equal to it from then
  on, so that a day on which the clocks go back is one choice of constants and a zone without
  clock changes another (`Fold = 0`). Clocks going forward are not modelled.
* *The queue* is seen from the enqueuing side: an item waits, is taken, comes back for a retry,
  ends or is cancelled. Any number of items may be taken at once: what a dead worker has
  claimed stays so until recovery, while the restarted one claims more. Which worker does what
  is `ExecutionQueue`.
* *The quota* counts the executions of one period, within which the horizon lies. Other guards
  (platform account, runtimes, tokens, roles) only refuse and are left out; heartbeat rows,
  audit and notifications too.
* *Edits* are whole requests: one action each, allowed between any two steps of the others.
  `put_campaign_schedule` sets type, times and `enabled` in one update by id, as in the code.

### How ReplyPlan corresponds to the code

* Every read and every write of a handler, of an execution and of a generation is a step;
  `hand[h]`, `exec[e]` and `worker` hold the local variables in between. No row is locked and
  no update looks at the old value, as in `service.py`. The reads of `_sync_reply_plan` are
  one step.
* Rules are created, switched on and off and deleted while a plan is generated; the generation
  keeps those it read at its start (`worker.rules`).
* The role checks leave the state alone and are left out; records of a blocked execution
  too. The wording of a template is not modelled: a text is a model value.
* A comment comes as one or several *readings*; candidates get a key that ignores the
  source, and the merge of readings is `_merge`'s. A text is the set of phrases rules look for
  in it.
* "cancel" of a candidate behaves as "reject" and the run asks for the latter. With one
  candidate the status "partial" is not reached; everything said is about single candidates
  or about all that were listed.
* Whether a plan is automatic is decided when it is made; an edit renders by the campaign's
  reply mode of that moment (`service.py:1191`), which the model takes from the plan.

### How CommentReply, ReplyBatch, SourcePolicy and ContentFacts correspond

* A call of `reply_to_comment` suspends at every await of the page; each stretch between two
  awaits is an action, in the order of the code: gates on the request, login, history,
  finding the comment, reading its replies, opening the input, typing, click, history line,
  verification, its line. A click may raise although it posted.
* The page keeps the drafts of calls that died; Facebook may fill an input with the name of
  the author. `page_has_existing_reply` always says no on real pages, and is modelled as
  that; verification looks for the text anywhere on the page.
* A history line is a record of the pair of comment and text; only what later calls ask of
  it is kept: whether a send was performed and verified, and on which day.
* A plan is a selection of leads with their texts, made once and executed any number of
  times; the policy is decided when it is made and written in the plan, as in the code. The
  limits of a day count the verified lines of that day when the batch starts.
* A batch's `counts` are those of its report. `blocked_unverified_previous_attempt` is not
  among them, so such a batch reports "completed". Left out: the preview of missing dry runs
  (`--review-missing-dry-run`), which sends nothing, the printed safety summary, the reason
  `reply_batch.py:227` adds to a lead that is blocked anyway, and the payload of a runner that
  raises (`reply_batch.py:588`).
* Of failures inside a call the model keeps what they leave on the page and in the history. Left
  out: the exception's class as the reason of a failing click, which may stop the browser
  (`reply.py:617-638`); text that was typed wrong and stays in the input (`reply.py:395-416`),
  where the model empties it; a history line after the verification that cannot be written
  (`reply.py:699`).
* An allowed URL is a sequence of segments. The code compares strings up to the next "/"
  (`target_policy.py:221`), which is the same on URLs that are split at "/".
* What a page shows is a record of links and titles (`ContentFacts`); owner and author are
  found by the rules of `ownership.py` in their order. A policy is `allowlist`, `owned_only` or
  `discovery_only`.

### How BrowserRuntime corresponds

* Requests run on threads and are split at every call that changes something: the row, the
  signal to a process, the start of one, the wait for its port, the forwarder, the wipe of a
  profile. `Operations` are the public methods of the registry, with `delete` of an account
  (`service.py:326`), which stops its browser first.
* `chromes` are the processes of the host, also those nobody remembers; `known` is the
  control process's dictionary of pids and is empty after its restart. A browser dies at any
  time. A port is taken by a row, and whether something listens on it is asked of `chromes`.
* The API process and the worker each have a registry of their own; the model has one
  control process (`browser_runtime_api.py`), to which the service sends its requests.
* A login is two facts: the profile's cookies and the saved login state that the next start
  restores. `since` remembers whether a user has logged in since the last reset.
* A reset of an account without a row returns before the wipe (`runtime.py:187-199`), so its
  cookies stay. The model does as the code does, and `ResetForgetsLogin`, which speaks of
  resets that forget, does not tell this case.
* Left out: hosts without a browser executable, where a start attaches to what listens on the
  port (`runtime.py:149, 393-398`); `connection_status`, always written together with `login_status` (so the
  reconciliation of `list_platform_accounts` never finds a difference); the guard that an
  account in use by a campaign is not deleted; the bytes a forwarder passes on.

### How TenantAccess corresponds

* A request is two steps: what it reads (role, password, session, member, invitation, limit)
  and what it writes; the process may die in between, or in the middle of ending the sessions of
  a changed password (`late` are those it leaves). A session names the password *version* it was opened with; a clock
  drives expiry, the idle timeout and the touch interval. A login first deletes the session
  its cookie names; ending one's own sessions and sending an invitation again are done by
  the API itself (`api.py:376, 442-470, 1273`).
* One tenant is modelled; a switch of tenant (`rotate_session`) is a new session of the user and the end of the
  old one. Platform administration, the clean-up script, notifications and subscriptions
  only refuse or delete what is dead already, and are left out.
* Any number of invitations may be pending, for one e-mail no more than one at the time of the
  look (two requests that overlap make two). A tenant may begin with one that is pending.
  Accepting carries the token of an invitation, no session, and is not counted by `MaxRequests`.
* Left out: the write of a new hash by a login whose hash is outdated (`service.py:174-179`).
* Which roles may give and change which is `MayGive` and `MayChange`; of the other permissions
  nothing depends on order.

### How ScanJob, ContentSearch, PageReading and LeadRules correspond

* A job is a process; its phases are those of `run_facebook_leads_job`, its steps the writes
  of files. A run's files outlive it. A job that resumes reads which of them exist, in the
  order of the code.
* Scanning a content is one step after its outcome: opening it (two attempts), expanding the
  comments (`Expanded`: every number of comments that clicks and scrolls may leave in the
  DOM) and reading their nodes. What a search finds depends on which links had loaded.
* `PageReading` keeps the decisions about a node: which link is the permalink, where the id
  comes from, who the author is, which lines are the comment, when two nodes are one comment.
* `LeadRules` keeps the rating (keywords, those inside others, false positives, weights,
  levels), the order of the report, the split into batches by size and length, and the
  matching of answers by index. An answer may be unreadable (asked again), late or an error
  (the attempts end). Leads with a verified reply are not reviewed, and the counts of a review
  are taken from its batches.
* An answer that names an index twice, of which the parser takes the last
  (`llm_review.py:405-411`), is not among the answers of the model.
* Left out: `current_page_only`, the kind and the preview of a content, HTML of reports,
  prices of tokens. Runs of one id by two jobs are not modelled; the history is fixed while
  jobs run (`RepliedTo`), it changes in `ReplyBatch`.

### How LeadTable corresponds

* The persistence of a keyword is one transaction: per lead an insert or a merge that locks
  its row, in the order of the report, then usage, then commit. Rows locked by another party
  are waited for, and a cycle of waits is a deadlock, after which the database aborts one
  party. A user's edit reads, checks and writes in two transactions; a bulk edit locks its
  rows in the order it was given.
* `reviewed` is the execution's snapshot of `llm_enabled`: only then has a result a review, and
  a save a usage row (`persist.py:74`).
* An attempt that starts over runs all keywords again, those that are completed too: after a
  crash, or when no keyword was run well. A keyword counts as run well before it is saved.
* `ReportOf` gives the leads of a report in the order `_iter_report_leads` goes through them;
  which they are depends on the contents that were scanned.
* Evidence rows follow their lead and are left out.

## 3. Runs

Several properties of the runs are conjunctions of named parts (`LocksHold` of `RuntimeExclusive`
and `LocksNotLeaked`, `HistoryProtects` of `RepliedOnce`, `PostedIsRecorded` and the types, and so
on): each part is defined and explained in its Props module, and the text below names the parts.

| run | instance | shows |
| --- | --- | --- |
| `eq_crash` | 1 item, 2 keywords, 2 processes, up to 2 stops (crash or SIGTERM), post-run errors | no item is run twice at once, attempts are bounded, running executions can be recovered, refinement of `JobLifecycle`, every enqueued item ends (fair) |
| `eq_late` | 1 item that may be cancelled, 2 processes, late heartbeats, cancel requests that die half-way | the browser is driven by one run although items are recovered while they run; locks are given back |
| `eq_cancel` | 2 items of one account, 1 worker; one may be cancelled, the other replies by itself | the two tables agree; a requested cancellation leads to an end (fair) |
| `cs_spacing` | 1 campaign, every 2 minutes or daily, 1 scheduler and 1 request with 2 crashes, queue of 1, quota 2, 5 minutes (days of 4) | missed periods are coalesced, a full queue is no run, how far enqueues pass the limit, the next run is in the future, what is due is dealt with (fair) |
| `cs_edits` | 1 campaign, 2 schedulers, 2 edits of any kind, queue of 1, quota 2, 3 minutes | a window is enqueued once, nothing refused is charged, a disabled schedule stays disabled |
| `rp_plan` | 1 candidate in 3 readings, 2 handlers, 2 executions, 2 generations, 3 operations or edits of a rule, 1 crash of the API | only approved texts are posted, sent, cancelled and rejected are final, "executed" means sent, candidates are those the rules ask for |
| `cr_resend` | 2 callers on pages of their own, 1 comment, 2 texts, 3 calls, 1 fault | a comment gets a text once, what is posted is recorded, nothing is posted that was not asked for |
| `rb_batches` | 6 leads on 4 comments in 2 reports, daily limit 2, 4 batches of at most 2, 9 calls, 1 fault, midnight | the daily limit, the stop at an unverified reply, the acceptance bound, the batch's report, rehearsals, sources of the policy |
| `br_requests` | 2 accounts, 2 threads, 2 ports, 3 requests of any kind, 1 fault | one browser per profile, ports answered by their own account, stop, reset and delete leave nothing behind |
| `ta_requests` | 3 users (1 newcomer), 2 sessions, 2 threads that may die, 2 invitations, 3 requests and any acceptances, 3 ticks, a plan of 2 users | sessions and passwords, owners and admins, invitations, the limit of users |
| `sj_jobs` | 2 jobs, 2 runs, 2 contents, 3 starts, 2 faults, 2 comments at most | the lock, what is kept and what is scanned twice, limits, the plan, the LLM's answers |
| `lt_edits` | 2 users, 2 keywords, 3 leads in 2 contents, 2 rounds with or without review, 2 edits, 1 fault | decisions stay, discoveries add up, completed is saved, reviewed is billed once |

*Bounds.* Every instance has two of whatever may race and one fault more than none. Queue:
two attempts for a retry and for the exhaustion of retries, two workers for every race
between a run, its recovery and its second run, two stops for a crash during the recovery of
a crash. Schedules: two crashes for the loss of a second enqueue of one window, two
schedulers for every race of check and insert, two edits for one that disables and one that
enables again, a queue of one so that it is full after one enqueue, five minutes for two runs or
for one that was deferred and the next. Reply plans: two handlers
for every lost update, two executions for every double send, two generations for one that
meets a plan already edited. Replies: three calls for a reply, its repetition and one after
a crash. Batches: four for a dry run, a rehearsal, an execution and one after a crash or
midnight; leads that share a comment, sources inside and outside of each policy. Runtimes:
two ports so that one is given to another account; three requests for a start, a stop and
what comes after. Access: three requests that name a session for an invitation or addition, a
change and a removal; acceptances come on top, and the invitation that is there at the start
leaves room for a second one to be pending with it. Jobs: three starts for a run and two resumptions; pages and searches were chosen
so that every way of reading a node occurs. Leads: a bulk edit against the report's order
for a deadlock; two rounds for a lead found again.

The runs have between a hundred thousand and a few million distinct states. All but the
queue's end at a bound (of the clock, of requests, of calls) and do not check for deadlock;
those of the queue do.

*Fairness.* In the queue (`FairSpec`): a coroutine that can run again and again does run (`SF`:
asyncio serves ready coroutines in turn, so a coroutine is blocked by `Turn` only for a while,
and awaited provider calls have timeouts and return); containers restart (`restart:
unless-stopped`); time passes (delays elapse, claims age, heartbeats of dead workers expire);
the writes of a request that was started are carried out. Nobody has to enqueue, to cancel,
to crash or to stop. In `CampaignSchedule` time passes and each scheduler takes its next step
(`WF`: `main` polls for ever and catches what a tick raises, the container restarts); requests,
edits, workers and crashes have no fairness. The other modules state no liveness: their
operations are requests of users or operators, which nothing in the code repeats until
they succeed.

### What the models say beside their properties

What follows was met while modelling. It is behaviour the models contain (or leave out on
purpose, where said), found by reading or by TLC when a property was first stated without
its exception.

Queue and schedules:

* A cancelled execution is run when the worker has claimed it already: it writes `running`
  (`service.py:1709`) without looking. `OneRunPerItem` and the refinement are stated so that
  they hold for such items too; `TablesAgree` names those it does not speak of.
* Automatic mode fails completed executions: the worker executes the plan with its own role,
  which `execute_reply_plan` refuses before it looks at any guard (`service.py:1806`).
* An exception of the report upload after the final status is handled like a failed run: the
  completed execution becomes failed or is run again (`service.py:1802, 1809`). A crash in
  the same window has the same effect; `repair_terminal_execution_queue_items`, written for
  it, is called from nowhere.
* A request that dies between its two writes leaves an execution `queued` for ever
  (`service.py:1273, 1611`); so does a crash between the last claim and the write of
  `running` (`storage.py:462`).
* A due schedule of a suspended tenant or without enabled keyword raises in
  `enqueue_execution` (`scheduler.py:59`) and ends the tick; it stays the earliest, so every
  tick ends there. `DueIsServed` is about a campaign whose own enqueue does not raise.
* `retry_execution` enqueues and then fails: it reads `execution_id` of an `executions` row,
  which has none (`service.py:1290`).
* A daily schedule can get a next run in the past in the hour the clocks go back
  (`service.py:2298`); `Fold` of the model is that hour, and `NextRunIsFuture` is checked and
  proved for zones without one.
* A campaign paused after a tick's scan is enqueued (`scheduler.py:84`), and a schedule disabled
  then gets a next run again, which nobody runs. The queue limit is counted and used in two
  transactions; `BacklogBounded` says by how much enqueues can exceed it. Retries are put back
  without a look at the limit, and since a crashed worker's items are still "running" while others
  are claimed, there is no bound on how many come back.
* `RunsAreSpaced` and `RunRecordedIfEnqueued` are about one scheduler, which is what the
  compose file runs. With two, one defers the window as its queue is full while the other has
  just enqueued it.
* Worker containers without `--worker-id` share their ids (`scripts/saas_worker.py:74`); the
  models give each worker its own.

Reply plans:

* Two executions of a plan that overlap on a candidate send it twice, and the second writes
  "duplicate" over the first's record. The final status of an execution overwrites a plan
  that was cancelled meanwhile; a plan blocked by a guard is put back to "approved" by
  `_sync_reply_plan` (`service.py:2217`). `reply_daily_limit` is looked at once per plan
  (`service.py:2243`).
* The exclusion of comments already replied to (`docs/reply-automation.md:65`) has no code.
* An author a rule excludes is out only if no rule before it matched.
* Two plans of one account share its page; the models of replies give each sender its own.

Replies and batches:

* The service's sender always says that replies are allowed; the policy is the batch's and
  the generation's.
* A rehearsal checks neither the login nor the send action and may say "ready" while logged
  out. The policy recorded in a plan may have changed when the plan is executed. Under
  `owned_only` the first visible name of a link or title that passes is the author; a URL of
  the form `groups/...` gives the owner "groups".
* An allowed URL that is only a host covers every source of that host (`target_policy.py:221`).

Browser runtimes:

* Worker and API keep pids of their own, so that either may leave a browser the other started.
* Start, stop and reset do not ask for the advisory lock of a running worker
  (`runtime.py:189`), and a health check may write over a status set meanwhile
  (`runtime.py:210`); overlapping requests make an account `mixed`.
* A crash between the wipe of a profile and the update of its row leaves it "logged in"; a
  start that fails late leaves its process and forwarder to the next request; a row of
  another configuration is discarded without ending its browser; a runtime of a remote
  address is created without looking at the port.
* A reservation does not look whether anybody listens on a port (`runtime.py:294`): a row that
  is merely reserved can get the port on which another account's browser outlived a restart,
  and its login check sees that browser's login. Both accounts count as `mixed` then.
* Deleting an account leaves its `browser_runtimes` row, whose port stays reserved for ever.

Access:

* A login that rehashes can write the password it read back over a changed one. Two removals
  or transfers that overlap can leave a tenant without owner (`entangled`), two additions pass
  the limit (`crowded`). Two rotations of one session that overlap leave two.
* `max_users` is looked at when an invitation is made and when a member is added, not when it
  is accepted, and invitations that are pending do not count: several of them take the tenant
  past its plan by as many. `MembersBounded` is about the other members.
* Revoking an invitation does not look at its status. One that is accepted twice at once, or
  revoked meanwhile, admits all the same (`InvitationIsSpent` excuses the overlap).
* A password change that dies before it has ended all sessions leaves the rest valid.

Scan jobs:

* A crash while a run is scanned again leaves a "completed" snapshot beside a report of the
  earlier attempt, which is reused; so is the reviewed report of a partial scan that was
  resumed (`outdated`). A resumption that is refused (lock, login) overwrites the job's state,
  and the next one scans everything again; what was scanned stays (`ScannedStays`).
* A content that failed in an earlier attempt keeps the run "partial", unless an early stop
  forgets it. Each resumption may pass the comment limit by one (`CommentsBounded`). A scan
  skips by URL, a search by identity.
* The lock is checked and then written; a crash in between leaves an empty file that refuses
  every later job. Workers of one host share the default lock, so a second job is "blocked".
  Run ids of one second collide.
* A story's id in a permalink counts as a comment's, so that comments without one of their
  own collapse into one; a link to another site that looks like a comment's hides the
  comment's own; records are read from the whole document, whichever dialog was counted.

Leads:

* Contents of a keyword whose save failed are excluded from the next keyword all the same. A
  keyword that is run again replaces the token usage of its first run.
* An update may blank the reason of an invalid lead, and a bulk update makes leads invalid
  without one (`docs/saas-backend-api-contract.md:281` asks for one). A "blocked" lead has no way out.
* The worker writes back the status it read: a user's change in between is lost (`raced`).

## 4. Proofs

What TLC checks on the instances above is proved for all values of the constants that satisfy
the assumptions of the modules (the `ASSUME`s, which TLC evaluates on every run): any number of
processes, users, items, leads and so on, and any bounds. What a theorem assumes beyond them is
in the last column, as named operators.

| theorem | statement | assumes |
| --- | --- | --- |
| **`ExecutionQueueProofs`** | | |
| `TypeCorrect` | `Spec => []TypeOK` | - |
| `LocksAlwaysHold` | `Spec => []LocksHold` | - |
| `RunsAreBounded` | `Spec => []RunsBounded` | heartbeats timely |
| `RunningStaysRecoverable` | `Spec => []RunningIsRecoverable` | heartbeats timely |
| `QueueImplementsJobLifecycle` | `Spec => ImplementsJobLifecycle` | heartbeats timely |
| `TablesTellTheSame` | `Spec => []TablesAgree` | heartbeats timely, no process dies |
| **`CampaignScheduleProofs`** | | |
| `SchedulesTypeCorrect` | `Spec => []TypeOK` | - |
| `WindowsAreEnqueuedOnce` | `Spec => []WindowEnqueuedOnce` | - |
| `ChargedExecutionsAreEnqueued` | `Spec => []ChargedIsEnqueued` | `MaxCrashes = 0` |
| `DisabledSchedulesStayDisabled` | `Spec => DisabledStaysDisabled` | - |
| `NextRunsAreFuture` | `Spec => NextRunIsFuture` | `Fold = 0` |
| `BacklogStaysBounded` | `Spec => []BacklogBounded` | - |
| `RunsAlwaysFollowSchedule` | `Spec => RunsFollowSchedule` | `OneScheduler`, `SettingsStand` |
| **`ReplyPlanProofs`** | | |
| `OnlyApprovedIsPosted` | `Spec => []ApprovedTextOnly` | - |
| `SentStaysSent` | `Spec => SentIsFinal` | - |
| `WithdrawnStaysWithdrawn` | `Spec => WithdrawnIsFinal` | - |
| `CandidatesAreAskedFor` | `Spec => ProposedByRule` | - |
| **`ReplyProofs`** | | |
| `HistoryAlwaysProtects` | `Spec => []HistoryProtects` | `PagesAreOwn` |
| `OnlyAskedIsPosted` | `Spec => PostsWhatWasAsked` | `PagesAreOwn` |
| `CoveredSourcesAlways` | `BatchSpec => []OnlyCoveredSources` | `PagesAreOwn` |
| `CountsAlwaysKept` | `BatchSpec => []CountsAreKept` | `OneAtATime` |
| `UnverifiedAlwaysLast` | `BatchSpec => UnverifiedIsLast` | `OneAtATime` |
| `ReadyIsAlwaysSafe` | `BatchSpec => ReadyIsSafe` | `OneAtATime` |
| **`BrowserRuntimeProofs`** | | |
| `BrowsersStayApart` | `Spec => []OwnBrowserOnly` | - |
| `ResetAlwaysForgets` | `Spec => []ResetForgetsLogin` | - |
| `NothingStaysBehind` | `Spec => []NothingLeftBehind` | - |
| `StopAlwaysEnds` | `Spec => StopEndsBrowser` | - |
| **`TenantAccessProofs`** | | |
| `SessionsLiveAsTheyShould` | `Spec => []SessionsLive` | - |
| `MembershipAlwaysHolds` | `Spec => []MembershipHolds` | - |
| `OnlyTheEntitledChange` | `Spec => EntitledChanges` | - |
| **`ScanJobProofs`** | | |
| `OneJobAlways` | `Spec => []OneJobAtATime` | - |
| `PlansRestOnScans` | `Spec => PlanRestsOnScan` | - |
| `ScansAreKept` | `Spec => ScannedStays` | - |
| `ScansAreBounded` | `Spec => []ScanInBounds` | - |
| `AnswersArrive` | `Spec => []AnswersReachTheirLead` | - |
| **`LeadTableProofs`** | | |
| `ResultsAlwaysKept` | `Spec => []ResultsAreKept` | - |
| `LeadsAlwaysKeepHistory` | `Spec => LeadsKeepHistory` | - |

"Heartbeats timely" is `"late_heartbeat" \notin Faults`, "no process dies" is `"crash" \notin
Faults`. `PagesAreOwn`: calls that overlap are on pages of their own, which holds of the browsers
of different accounts and of a batch, which makes its calls one after the other. `OneAtATime`:
batches do not overlap; the limits of a day are counted when a batch starts, and two batches at
once would each spend what is left. `OneScheduler`: one process runs the scheduler, as in the
compose file. `SettingsStand`: no schedule is set anew; a row read by a tick and then
overwritten by `put_campaign_schedule` is run and written back all the same. Disabling, pausing,
keywords, suspensions, requests and crashes are allowed. Without the first two TLC finds
counterexamples.

### The queue

`TypeInv` adds to `TypeOK` that a coroutine at work has an item. `LockInv` adds
that whoever drives a browser holds its advisory lock; the lock has one holder, so two
drivers of one runtime are the same coroutine. `ClaimInv` adds `HoldsClaim`: the queue row of
an active worker still carries its claim, and either the claim is young or the worker's
heartbeat is fresh and names the item - so recovery passes it by, and a second claim of
the item would need a row that is not running. From `HoldsClaim` the attempt count of the row
is the one the run remembers, which makes the run's retry decision one about the row and
bounds the attempts. `TableInv` adds that between its two last writes a run's execution row
has the status its queue row is about to tell; `AgreeInv` adds, without crashes, that every
running row is run by a live worker. Worker steps are handled through frames (`ClaimFrame`,
`TableFrame`): what any step but polling and claiming may do to the tables, proved once per
step and used for every invariant.

### Schedules

`Inv` adds two conjuncts to `TypeOK`. `InHand`: an actor about to insert a queue
item holds an execution that has none. `ItemsApart`: two actors hold different executions.
Without them the insert of one actor could overwrite the item of another, and the check of
the trigger key, which the insert repeats, would say nothing about the item it replaces.
`ChargedIsEnqueued` needs the same two: an execution leaves an actor's hand only as a queue
item or deleted. `NextRunsAreFuture` rests on `SettingsInv`: what a scheduler holds is a setting
some user asked for (a positive interval, or a minute of the day), never "manual", which has
no next run.

The backlog: an actor is *committed* between its look at the queue limit and its insert. Waiting
items that no worker has claimed yet, and committed actors, together stay below the limit plus the
number of actors (`Backlog`): whoever passes the look finds less than the limit waiting, and from
then on an insert only turns a committed actor into an item. A claim takes items out of the count
for good, since a retry is not fresh any more.

A disabled schedule is handled from two sides. Which windows are enqueued, scanned or in a
scheduler's hand (`Windows`) can only grow by a scan, which is of enabled schedules: proved with
`WindowsFrame`, `WindowsInHand`, `WindowsInsert` for all other steps, and `RequestsUnkeyed`, since a
request's item has no window. And the steps that write schedules are listed by `ScheduleWriters`:
those of a scheduler leave `enabled` as it is, whatever they had read, the others are edits.

Runs keep their distance by `PaceInv`. The rows a tick has read and the row in its hand are
what the table says (nobody else writes next runs then); every window that was enqueued is
either the one whose next run is still to be written, or an interval before the next run; a
window that is deferred is not in the queue. A crash between the two writes leaves the first
case, and the next tick finds the window's key in use. `RecordInv` says that a window about to be
recorded as run is accounted for: it was enqueued, or the quota has no room. The count of the
quota shrinks only when an insert is refused, which leaves its own window enqueued.

### Reply plans

`TypeInv` gives types to rows and to what handlers, executions and the generation hold; every
candidate that reads "approved" has a text. `ApprovedTexts`: a text in the hand of an execution
was approved, unless handlers overlapped on the candidate (`raced`). `SentRecords`: an execution
that has clicked and not yet recorded is the only one at its candidate (`SendingApart`), and once a
record is written no execution is before its click. `Withdrawn`: a closed plan or candidate
(`PlanClosed`, `CandidateClosed`) is in nobody's hand in a form that could be sent or written back.

### Replies and batches

A call past its gates has passed them (`PassedGates`): confirmed, allowed, not in the history for
its pair of comment and text, logged in. From then on its page is at its comment, the draft below
the comment is its own text or none (`DraftKept`) and its pair stays unrecorded
(`StillUnrecorded`), because pages are own and a second call for the pair makes it excused. With
`PostedIsRecorded`, what is on Facebook is in the history unless a call died between its click and
its line, so that the gate of the history keeps a second reply away.

For batches, `HandInv` says that the call a batch makes is about the lead it is at, with the plan's
text and the policy's answer, and that everything posted was allowed by the policy of some plan;
`AllowedIsCovered` says what `SourcePolicy` makes of that. `CountOK` relates the batch's
counts to the history, with `Pending` for the line that is written and not yet counted; after
midnight the day's lines are fewer than the batch counts, never more. `RehearsalOK`:
what a rehearsal has called ready so far passed the history, the policy and the room left. The
order of a plan is a choice of ranks; that it exists is proved by well-founded induction on
finite sets (`RankExists`).

### Browser runtimes

`Types`: ids of rows and ports are given once, and no request holds the id of another account's row.
For every account that is not `mixed` (`Unmixed`): at most one request does more than look
(`Apart`), its copy of the row is the row (`HandOK`), every browser and forwarder belongs to the row
that is there now (`BrowsersOwned`, `ForwardersOwned`), and what is logged in was logged in since
the last reset (`SinceReset`). The last one has to speak of four places at once: the cookies, the
saved login state, the row and the copy in a request's hand.

### Access

`SessionInv`: a session that is not revoked names the current password version, or its end is the
business of a password change under way, or of one that died (`late`); its last use lies less than
a touch interval after the time written as last seen. `Checked` and `OwnerInv`: what a request has
read of roles still holds when it writes, unless changes overlapped. `RoomInv` counts the members
whom no invitation let in: one more of them than was counted is under way at most, unless
additions overlapped, and an acceptance adds none. `SpentInv`: an invitation that was accepted or
revoked is not pending and in nobody's hand. The plan is assumed to have room for the founders.

### Scan jobs

The lock is that of the job at work, unless it was taken from it (`LockOK`, `bared`). A run is in
one job's hands (`RunsApart`). The paths named in a run's state file stand for what was made of its
scan, unless a job is scanning it or a crash left it `outdated` (`FilesOK`), and what a job knows
of the files is what the state file says (`HandOK`).

`KeepInv`, inductive together with `Inv`, is about what is in the files. A job past its search has
a result that covers the run's scan file (`Covers`), so writing it loses nothing; a job before its
search either resumes the run or the run has no scan file. The comment limit is `Cap`: it
counts attempts, and `HasRoom` says that an attempt merges a content only while its list is below
the limit, or is as long as the attempts before could make it. Every review file is
`Enriching` of the leads of some report that lists nothing twice (`Reviews`).

What the steps write are results of folds. The library's induction theorems cannot be used
here, so induction over the naturals is itself derived (`NatsIn`) from inclusion being
well-founded on finite sets; from it follow the existence of a fold and that a fold keeps
what each of its steps keeps (`FoldGives`, `FoldThrough`), which is then applied to the reading
of pages (`ExtractIs`, `ExpandedIs`), the search (`DiscoverIs`), the merge (`MergeIs`), the order
of the report (`ScoreIs`, `RanksAre`, `ReportLeadsIs`), the choice of the leads to ask about
(`RequestedIs`) and their batches (`BatchesIs`: every lead is in one place of one batch). With
`ReviewIs`, a lead's decision is taken from its own place, and places that were decided
correspond one to one to decided leads, so that counts by batch are counts by lead
(`ReviewAgrees`). The keywords found in a comment are assumed to be finitely many.

### Leads

An open transaction knows three things: the rows it has locked grow out of the committed ones, with
users' decisions kept (`WriteOK`, `DecisionKept`); what it read last still holds (`ReadOK`); and, for
the worker, every lead it has gone through is saved with its keyword, in the table or in its own
writes (`LoopOK`); what is saved has a usage row if it was reviewed, and none otherwise (`Paid`).
Commit makes the writes the rows; an abort drops them, and the worker starts over.

### Only model-checked

Liveness (`QueueDrains`, `CancelLeadsToEnd`, `DueIsServed`) is out of the prover's reach. All
other properties of the runs are proved.

## 5. Plan

An abstract promise of a reply (asked, sent at most once, told) and the refinement of
`ReplyPlan`, with `CommentReply` in the place of its send.

## 6. Not modelled

Artifacts and S3, the rest of the HTTP API (translation), configuration, logging, seed data,
migrations, adapters and
the dashboard have no behaviour over time that the models could get wrong: files are written
once, requests are translated to the operations above. The first standalone lead workflow is
one sequential process that the service does not use. The browser agents and the Gradio UI
(`src/agent`, `src/webui`) are a general-purpose agent the lead service does not call; their
control flow lies for the most part in a third-party library. Of the modelled components the
parts left out are named in section 2; most are guards that only refuse, plain row updates
(templates, rules, plans of the platform) or wording.
