-------------------------------- MODULE ScanJob --------------------------------
(***************************************************************************)
(* A Facebook leads job (run_facebook_leads_job, src/facebook_leads/facebook/ *)
(* orchestrator.py): lock, login check, read-only scan (scanner.py), lead     *)
(* report, LLM review (llm_review.py) and reply plan.  A run keeps its files  *)
(* in a directory of its own, and may be resumed from them; one lock file     *)
(* serves every run of the host.  A job is a process and may die anywhere.    *)
(***************************************************************************)
EXTENDS ContentSearch, LeadRules

CONSTANTS
  Jobs,                 \* processes; each new job takes a fresh run
  MaxStarts, MaxFaults

ASSUME BoundAssumption == {MaxStarts, MaxFaults} \subseteq Nat
ASSUME RunAssumption   == {"free", "torn", "none"} \cap Runs = {}

VARIABLES
  lock,      \* .orchestrator.lock: whose run wrote it, and is it older than the timeout
  state,     \* job_state.json of each run
  scan,      \* scan_result.json
  report,    \* lead_report.json: the comments it was built from
  enriched,  \* lead_report_enriched.json: who decided on each of its leads
  plan,      \* batch_reply_plan.json: the comments it was built from
  job,       \* the processes
  bared,     \* jobs whose lock was taken from them, or that took one that was there
  outdated,  \* runs whose report or review was left standing by a newer scan
  scans, starts, faults

files  == <<state, scan, report, enriched, plan>>
ghosts == <<bared, outdated>>
vars   == <<lock, files, job, ghosts, scans, starts, faults>>

Free == [run |-> "free", stale |-> FALSE]
Torn == [run |-> "torn", stale |-> FALSE]   \* created and not yet written
Path == {"scan", "report", "enriched", "plan"}
Absent   == [status |-> "none", contents |-> <<>>, comments |-> <<>>, failed |-> FALSE]
NoReport == [written |-> FALSE, of |-> <<>>]
NoReview == [written |-> FALSE, by |-> <<>>, counts |-> <<>>, of |-> <<>>]
NoJob    == [phase |-> "idle", run |-> "none", resumes |-> FALSE, llm |-> FALSE,
             sawFree |-> FALSE, known |-> {}, paths |-> {}, todo |-> <<>>, at |-> Absent]

Phases == {"idle", "look", "unlink", "take", "health", "scan", "content", "end", "report", "review", "plan"}
\* Between a job's acquire and release.
Inside == {"health", "scan", "content", "end", "report", "review", "plan"}
ScanStatus == {"none", "completed", "partial", "failed"}
JobStatus  == {"none", "running", "blocked", "failed", "completed", "partial"}
ScanFile   == [status : ScanStatus, contents : Seq(Contents), comments : Seq(Comments), failed : BOOLEAN]

TypeOK ==
  /\ lock \in [run : Runs \cup {"free", "torn"}, stale : BOOLEAN]
  /\ state \in [Runs -> [status : JobStatus, paths : SUBSET Path]]
  /\ scan \in [Runs -> ScanFile]
  /\ report \in [Runs -> [written : BOOLEAN, of : Seq(Comments)]]
  /\ plan \in [Runs -> [written : BOOLEAN, of : Seq(Comments)]]
  /\ \A r \in Runs : /\ enriched[r].of \in Seq(Comments)
                     /\ DOMAIN enriched[r].by = {c \in ToSet(enriched[r].of) : IsLead(c)}
  /\ \A j \in Jobs : /\ job[j].phase \in Phases /\ job[j].run \in Runs \cup {"none"}
                     /\ job[j].known \subseteq Path /\ job[j].paths \subseteq Path
                     /\ job[j].at \in ScanFile
  /\ bared \subseteq Jobs /\ outdated \subseteq Runs
  /\ scans \in [Runs -> 0..MaxStarts] /\ starts \in 0..MaxStarts /\ faults \in 0..MaxFaults

Init ==
  /\ lock = Free
  /\ state = [r \in Runs |-> [status |-> "none", paths |-> {}]]
  /\ scan = [r \in Runs |-> Absent]
  /\ report = [r \in Runs |-> NoReport] /\ plan = [r \in Runs |-> NoReport]
  /\ enriched = [r \in Runs |-> NoReview]
  /\ job = [j \in Jobs |-> NoJob]
  /\ bared = {} /\ outdated = {}
  /\ scans = [r \in Runs |-> 0] /\ starts = 0 /\ faults = 0

-----------------------------------------------------------------------------
(* The scanner's merge.                                                   *)

\* Of what is read of a page, the comments the scan has not seen.
Fresh(comments, extracted) ==
  FoldLeft(LAMBDA new, n : IF n.fp \in ToSet(comments) \cup ToSet(new) THEN new ELSE Append(new, n.fp),
           <<>>, extracted)

\* Mutant of Room: the list is not looked at while one content is merged.
RoomAlways(comments) == Len(comments) + CommentLimit

\* The limit is looked at after a comment was appended.
Room(comments) == IF Len(comments) < CommentLimit THEN CommentLimit - Len(comments) ELSE 1

Merge(comments, extracted) ==
  LET new == Fresh(comments, extracted)
  IN comments \o SubSeq(new, 1, IF Len(new) < Room(comments) THEN Len(new) ELSE Room(comments))

\* Mutant of ScanStatusOf: contents that failed are reported by their own word.
ScanStatusOfWord(s) == IF s.contents = <<>> THEN "failed" ELSE IF s.failed THEN "skipped" ELSE "completed"

ScanStatusOf(s) == IF s.contents = <<>> THEN "failed" ELSE IF s.failed THEN "partial" ELSE "completed"

-----------------------------------------------------------------------------
At(j, phase)   == job[j].phase = phase
Run(j)         == job[j].run
Goto(j, phase) == job' = [job EXCEPT ![j].phase = phase]
Others(j)      == {k \in Jobs \ {j} : job[k].phase \in Inside}

Fault == faults < MaxFaults /\ faults' = faults + 1
Quiet == UNCHANGED <<scans, starts, faults>>

\* A resumed run continues from its job_state.json; a new one begins one.  A run is
\* resumed when the job that worked on it has ended.
Start(j, r, llm) ==
  /\ \A k \in Jobs : Run(k) # r
  /\ At(j, "idle") /\ starts < MaxStarts /\ starts' = starts + 1
  /\ LET fresh == state[r].status = "none"
     IN /\ state' = IF fresh THEN [state EXCEPT ![r].status = "running"] ELSE state
        /\ job' = [job EXCEPT ![j] = [NoJob EXCEPT !.phase = "look", !.run = r, !.llm = llm,
                                        !.resumes = ~fresh, !.known = state[r].paths]]
  /\ bared' = bared \ {j}
  /\ UNCHANGED <<lock, scan, report, enriched, plan, outdated, scans, faults>>

\* The state file of a run that ends early keeps no more than the given paths.
Ends(j, status, paths) ==
  /\ state' = [state EXCEPT ![Run(j)] = [status |-> status, paths |-> paths]]
  /\ job' = [job EXCEPT ![j] = NoJob]

HeldElsewhere == lock # Free /\ ~lock.stale

\* JobLock.acquire: look, remove what is too old, write.  sawFree, what the look
\* made of the lock, is no part of the code: it tells "bared" whose fault a lost lock is.
Look(j) ==
  /\ At(j, "look")
  /\ IF HeldElsewhere
     THEN Ends(j, "blocked", {})
     ELSE /\ job' = [job EXCEPT ![j].phase = IF lock = Free THEN "take" ELSE "unlink",
                                ![j].sawFree = lock = Free \/ lock.stale]
          /\ UNCHANGED state
  /\ UNCHANGED <<lock, scan, report, enriched, plan, ghosts>> /\ Quiet

\* Whatever is there goes, though another job may have replaced it meanwhile.
Unlink(j) ==
  /\ At(j, "unlink")
  /\ lock' = Free
  /\ bared' = IF job[j].sawFree THEN bared \cup Others(j) ELSE bared
  /\ Goto(j, "take")
  /\ UNCHANGED <<files, outdated>> /\ Quiet

\* The write neither fails nor tells when the file has appeared since the look.
Take(j) ==
  /\ At(j, "take")
  /\ lock' = [run |-> Run(j), stale |-> FALSE]
  /\ bared' = IF lock # Free /\ job[j].sawFree THEN bared \cup Others(j) \cup {j} ELSE bared
  /\ Goto(j, "health")
  /\ UNCHANGED <<files, outdated>> /\ Quiet

\* The lock is older than FACEBOOK_LEADS_JOB_LOCK_TIMEOUT_MINUTES.
Expire ==
  /\ lock.run \in Runs /\ ~lock.stale
  /\ lock' = [lock EXCEPT !.stale = TRUE]
  /\ UNCHANGED <<files, job, ghosts>> /\ Quiet

\* Mutant of Releases: the lock is removed whoever wrote it.
ReleasesAny(j) == lock # Free

\* JobLock.release compares run ids.
Releases(j) == lock.run = Run(j)

\* The end of a job that had the lock.
Release(j) == lock' = IF Releases(j) THEN Free ELSE lock

-----------------------------------------------------------------------------
(* default_health_check and the decision whether to scan again.            *)

\* _failed_result knows the paths of this attempt alone.
FailedPaths(j) == job[j].paths

Fails(j) == Ends(j, "failed", FailedPaths(j)) /\ Release(j)

Reusable(j) == {"scan", "report"} \subseteq job[j].known /\ scan[Run(j)].status = "completed"

\* default_health_check: the login the browser's page shows, or no browser.
HealthChecks == LoginStates \cup {"unreachable"}

\* Who is logged in; or no browser, after one retry; or a dry run, which leaves the
\* state file as it is.
Health(j) ==
  /\ At(j, "health")
  /\ \/ /\ "logged_in" \in HealthChecks
        /\ job' = [job EXCEPT ![j].phase = IF Reusable(j) THEN "review" ELSE "scan",
                              ![j].paths = IF Reusable(j) THEN job[j].known ELSE {},
                              ![j].at = IF Reusable(j) THEN scan[Run(j)] ELSE Absent]
        /\ UNCHANGED <<lock, state, faults>>
     \/ /\ HealthChecks \ {"logged_in", "unreachable"} # {} /\ Fault
        /\ Ends(j, "blocked", {}) /\ Release(j)
     \/ "unreachable" \in HealthChecks /\ Fault /\ Fails(j)
     \/ Fault /\ job' = [job EXCEPT ![j] = NoJob] /\ UNCHANGED state /\ Release(j)
  /\ UNCHANGED <<scan, report, enriched, plan, ghosts, scans, starts>>

-----------------------------------------------------------------------------
(* run_readonly_scan.                                                      *)

\* Mutant of Resumed: the results of the attempts before are left behind.
ResumedEmpty(j) == Absent

\* The result so far, taken over from the scan file when a run is resumed.
Resumed(j) == IF job[j].resumes THEN scan[Run(j)] ELSE Absent

WriteScan(j, s, status) == scan' = [scan EXCEPT ![Run(j)] = [s EXCEPT !.status = status]]

\* A scan that stops early says nothing of the contents that failed.
Stopped(s) == [s EXCEPT !.status = "failed", !.failed = FALSE]

\* Logins a scan does not start with.  One it cannot tell will do.
NoScan == {"logged_out", "checkpoint", "captcha"}

\* The browser, then the login, then the search: a snapshot is written once
\* contents are found, and its status reads "completed" from then on.
Search(j) ==
  /\ At(j, "scan")
  /\ scans' = [scans EXCEPT ![Run(j)] = @ + 1]
  /\ outdated' = IF "enriched" \in job[j].known THEN outdated \cup {Run(j)} ELSE outdated
  /\ \/ /\ LoginStates \ NoScan # {}
        /\ \E found \in Discoveries[Run(j)] :
             job' = [job EXCEPT ![j].phase = "content", ![j].todo = found, ![j].at = Resumed(j)]
        /\ WriteScan(j, Resumed(j), "completed")
        /\ UNCHANGED <<lock, state, faults>>
     \/ /\ Fault   \* not logged in, or no search page
        /\ job' = [job EXCEPT ![j].phase = "end", ![j].at = Stopped(Resumed(j))]
        /\ UNCHANGED <<lock, state, scan>>
     \/ Fault /\ Fails(j) /\ UNCHANGED scan   \* no browser
  /\ UNCHANGED <<report, enriched, plan, bared, starts>>

\* Mutant of Known: contents of an earlier attempt are opened again.
KnownNot(j, c) == FALSE

\* By its URL, though the search tells contents apart by what they are.
Known(j, c) == c \in ToSet(job[j].at.contents)

\* How many comments of a content may be there when they are read.
Shown == [c \in Contents |-> Expanded(Len(Page[c]))]

\* One content: opened, its comments expanded as far as the page gives them, read
\* and merged; or it fails and is skipped; or the browser or the login is lost.
ScanContent(j) ==
  /\ At(j, "content") /\ job[j].todo # <<>>
  /\ LET c    == Head(job[j].todo)
         now  == job[j].at
         next(s) == job' = [job EXCEPT ![j].at = s,
                                       ![j].todo = IF Len(s.comments) >= CommentLimit THEN <<>> ELSE Tail(@)]
                    /\ WriteScan(j, s, "completed")
     IN IF Known(j, c)
        THEN job' = [job EXCEPT ![j].todo = Tail(@)] /\ UNCHANGED <<scan, faults>>
        ELSE \/ /\ TRUE \in Openings
                /\ \E n \in Shown[c] :
                     next([now EXCEPT !.contents = Append(@, c),
                                      !.comments = Merge(@, Extract(c, SubSeq(Page[c], 1, n)))])
                /\ UNCHANGED faults
             \/ FALSE \in Openings /\ Fault /\ next([now EXCEPT !.failed = TRUE])
             \/ /\ Fault
                /\ job' = [job EXCEPT ![j].phase = "end", ![j].todo = <<>>, ![j].at = Stopped(now)]
                /\ UNCHANGED scan
  /\ UNCHANGED <<lock, state, report, enriched, plan, ghosts, scans, starts>>

\* The end of the scan; run_cli_scan writes its result, whatever became of it.
WriteResult(j) ==
  /\ job[j].todo = <<>> /\ job[j].phase \in {"content", "end"}
  /\ LET result == IF At(j, "end") THEN job[j].at
                   ELSE [job[j].at EXCEPT !.status = ScanStatusOf(job[j].at)]
     IN /\ scan' = [scan EXCEPT ![Run(j)] = result]
        /\ job' = [job EXCEPT ![j].phase = "report", ![j].at = result]
  /\ UNCHANGED <<lock, state, report, enriched, plan, ghosts>> /\ Quiet

-----------------------------------------------------------------------------
\* Mutant of ScanSucceeded: the report is planned whatever it was made from.
ScanSucceededAlways(j) == TRUE

ScanSucceeded(j) == job[j].at.status # "failed"

\* The lead report, which a failed scan has too; the job goes on if it succeeded.
WriteReport(j) ==
  /\ At(j, "report")
  /\ report' = [report EXCEPT ![Run(j)] = [written |-> TRUE, of |-> job[j].at.comments]]
  /\ LET paths == {"scan", "report"}
     IN IF ScanSucceeded(j)
        THEN /\ state' = [state EXCEPT ![Run(j)].paths = job[j].known \cup paths]
             /\ job' = [job EXCEPT ![j].phase = "review", ![j].paths = paths, ![j].known = @ \cup paths]
             /\ UNCHANGED lock
        ELSE Ends(j, "failed", paths) /\ Release(j)
  /\ UNCHANGED <<scan, enriched, plan, ghosts>> /\ Quiet

\* Mutant of Enriched: the file of an earlier attempt is found by its name.
EnrichedOnDisk(j) == enriched[Run(j)].written

\* The review of an earlier attempt stands if the state names it.
Enriched(j) == "enriched" \in job[j].known

\* default_enrich: the leads of the report, who decided on each of them, and the counts.
Enrichment(r, statuses) ==
  LET reviewed == Enriching(ReportLeads(report[r].of), statuses)
  IN [written |-> TRUE, of |-> report[r].of, by |-> reviewed.by, counts |-> reviewed.counts]

\* Any of the batches may time out or stay unreadable through all retries.
ReviewLeads(j) ==
  /\ At(j, "review")
  /\ LET r     == Run(j)
         asked == Requested(ReportLeads(report[r].of))
     IN IF ~job[j].llm \/ Enriched(j)
        THEN /\ job' = [job EXCEPT ![j].phase = "plan",
                                   ![j].paths = IF job[j].llm THEN @ \cup {"enriched"} ELSE @]
             /\ UNCHANGED <<lock, state, enriched, faults>>
        ELSE \/ /\ \E statuses \in Outcomes(Batches(asked)) :
                     enriched' = [enriched EXCEPT ![r] = Enrichment(r, statuses)]
                /\ state' = [state EXCEPT ![r].paths = job[j].known \cup {"enriched"}]
                /\ job' = [job EXCEPT ![j].phase = "plan", ![j].paths = @ \cup {"enriched"},
                                      ![j].known = @ \cup {"enriched"}]
                /\ UNCHANGED <<lock, faults>>
             \/ /\ asked # <<>> /\ Fault   \* no client for the model
                /\ Fails(j) /\ UNCHANGED enriched
  /\ UNCHANGED <<scan, report, plan, ghosts, scans, starts>>

\* default_build_plan: from the review if there is one.
Planned(r, llm) == [written |-> TRUE, of |-> IF llm THEN enriched[r].of ELSE report[r].of]

\* A job is as complete as its scan.
Ending(s) == IF s.status = "partial" THEN "partial" ELSE "completed"

\* The plan and the end of the job.
BuildPlan(j) ==
  /\ At(j, "plan")
  /\ plan' = [plan EXCEPT ![Run(j)] = Planned(Run(j), job[j].llm)]
  /\ Ends(j, Ending(job[j].at), job[j].paths \cup {"plan"})
  /\ Release(j)
  /\ UNCHANGED <<scan, report, enriched, ghosts>> /\ Quiet

\* The process dies.  A lock that was just created may have been left empty.
Crash(j) ==
  /\ ~At(j, "idle") /\ Fault
  /\ job' = [job EXCEPT ![j] = NoJob]
  /\ lock' \in IF At(j, "take") THEN {lock, Torn} ELSE {lock}
  /\ bared' = IF lock' # lock THEN bared \cup Others(j) ELSE bared
  /\ outdated' = IF job[j].phase \in {"content", "end", "report"} /\ "report" \in state[Run(j)].paths
                 THEN outdated \cup {Run(j)} ELSE outdated
  /\ UNCHANGED <<files, scans, starts>>

Next ==
  \/ Expire
  \/ \E j \in Jobs :
       \/ \E r \in Runs, llm \in BOOLEAN : Start(j, r, llm)
       \/ Look(j) \/ Unlink(j) \/ Take(j) \/ Health(j)
       \/ Search(j) \/ ScanContent(j) \/ WriteResult(j)
       \/ WriteReport(j) \/ ReviewLeads(j) \/ BuildPlan(j) \/ Crash(j)

Spec == Init /\ [][Next]_vars

=============================================================================
