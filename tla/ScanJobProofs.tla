------------------------------ MODULE ScanJobProofs ------------------------------
(***************************************************************************)
(* Proofs about leads jobs for all values of the constants.  Inv follows the *)
(* lock, the paths a state file names and the files they stand for, and     *)
(* says nothing of what is in them; KeepInv follows the contents.  What a    *)
(* scan reads and what the review says are results of folds over pages and  *)
(* leads: lemmas say what each fold keeps, by induction over the length of   *)
(* the sequence, which rests on the finite sets of naturals being            *)
(* well-founded under inclusion.                                             *)
(***************************************************************************)
EXTENDS ScanJobProps, FiniteSetTheorems, WellFoundedInduction, SequenceTheorems, TLAPS

\* Phases in which a job's result is not the one its report was made from.
Scanning == {"content", "end", "report"}

\* A job's locals; nothing is said of the contents it has to do and of what it has read.
JobRec(todo, at) ==
  [phase : Phases, run : Runs \cup {"none"}, resumes : BOOLEAN, llm : BOOLEAN, sawFree : BOOLEAN,
   known : SUBSET Path, paths : SUBSET Path, todo : {todo}, at : {at}]

JobOK(j) ==
  /\ job[j] \in JobRec(job[j].todo, job[j].at)
  /\ At(j, "idle") <=> Run(j) = "none"

Shapes ==
  /\ lock \in [run : Runs \cup {"free", "torn"}, stale : BOOLEAN]
  /\ state \in [Runs -> [status : JobStatus, paths : SUBSET Path]]
  /\ scan \in [Runs -> {scan[r] : r \in Runs}]
  /\ report \in [Runs -> {report[r] : r \in Runs}]
  /\ enriched \in [Runs -> {enriched[r] : r \in Runs}]
  /\ plan \in [Runs -> {plan[r] : r \in Runs}]
  /\ job \in [Jobs -> {job[j] : j \in Jobs}] /\ \A j \in Jobs : JobOK(j)
  /\ bared \subseteq Jobs /\ outdated \subseteq Runs

\* A run is in the hands of one job.
RunsApart == \A j, k \in Jobs : j # k /\ Run(j) = Run(k) => Run(j) = "none"

\* A job at work has the lock, unless it was taken from it.
LockOK ==
  /\ \A j \in Jobs \ bared : job[j].phase \in Inside => lock.run = Run(j)
  /\ \A j \in Jobs : job[j].phase \in {"unlink", "take"} => job[j].sawFree

\* The paths in a state file stand for what was made of the run's scan, unless a job is
\* scanning the run.
FilesOK(r) ==
  /\ "enriched" \in state[r].paths => "report" \in state[r].paths
  /\ r \notin outdated /\ (\A j \in Jobs : Run(j) = r => job[j].phase \notin Scanning) =>
       /\ "report" \in state[r].paths => report[r].of = scan[r].comments
       /\ "enriched" \in state[r].paths => enriched[r].of = scan[r].comments

\* What a job knows of the files of its run.
HandOK(j) ==
  ~At(j, "idle") =>
    /\ job[j].known = state[Run(j)].paths /\ job[j].paths \subseteq job[j].known
    /\ job[j].phase \notin {"review", "plan"} => job[j].paths = {}
    /\ job[j].phase \in Scanning /\ "enriched" \in job[j].known => Run(j) \in outdated
    /\ At(j, "report") => scan[Run(j)] = job[j].at
    /\ job[j].phase \in {"review", "plan"} =>
         {"scan", "report"} \subseteq job[j].paths /\ scan[Run(j)].status # "failed"
    /\ At(j, "plan") /\ job[j].llm => "enriched" \in job[j].known

Inv ==
  /\ Shapes /\ RunsApart /\ LockOK
  /\ \A r \in Runs : FilesOK(r)
  /\ \A j \in Jobs : HandOK(j)

-----------------------------------------------------------------------------
(* Frames.                                                                 *)

LEMMA NoJobType ==
  /\ NoJob \in JobRec(NoJob.todo, NoJob.at) /\ NoJob.phase = "idle" /\ NoJob.run = "none"
  /\ NoJob.known = {} /\ NoJob.paths = {}
  BY DEF NoJob, JobRec, Phases

\* The locals of one job change.
LEMMA JobChanges ==
  ASSUME Shapes, NEW j \in Jobs, NEW todo, NEW at, NEW w \in JobRec(todo, at),
         w.phase = "idle" <=> w.run = "none", job' = [job EXCEPT ![j] = w]
  PROVE  /\ job' \in [Jobs -> {job'[k] : k \in Jobs}] /\ \A k \in Jobs : JobOK(k)'
         /\ job'[j] = w /\ \A k \in Jobs \ {j} : job'[k] = job[k]
  <1>1. job'[j] = w /\ \A k \in Jobs \ {j} : job'[k] = job[k]
    BY DEF Shapes
  <1>2. job' \in [Jobs -> {job'[k] : k \in Jobs}]
    BY DEF Shapes
  <1>3. w.todo = todo /\ w.at = at
    BY DEF JobRec
  <1>4. ASSUME NEW k \in Jobs
        PROVE  JobOK(k)'
    <2>1. CASE k = j
      BY <1>1, <1>3, <2>1 DEF JobOK, At, Run
    <2>2. CASE k # j
      BY <1>1, <2>2 DEF JobOK, At, Run, Shapes
    <2> QED  BY <2>1, <2>2
  <1> QED
    BY <1>1, <1>2, <1>4

\* One job and the run it has in hand change.
LEMMA OneRun ==
  ASSUME Inv, NEW j \in Jobs, NEW r \in Runs, Shapes',
         \A k \in Jobs \ {j} : job'[k] = job[k] /\ Run(k) # r,
         job'[j].run \in {r, "none"}, job[j].run \in {r, "none"},
         \A s \in Runs \ {r} : /\ state'[s] = state[s] /\ scan'[s] = scan[s]
                               /\ report'[s] = report[s] /\ enriched'[s] = enriched[s],
         outdated \subseteq outdated', outdated' \subseteq outdated \cup {r},
         LockOK', FilesOK(r)', HandOK(j)'
  PROVE  Inv'
  <1>1. RunsApart'
    BY RunAssumption DEF Inv, RunsApart, Run
  <1>2. ASSUME NEW k \in Jobs
        PROVE  HandOK(k)'
    <2>1. CASE k # j
      <3>1. job'[k] = job[k] /\ HandOK(k) /\ (~At(k, "idle") => Run(k) \in Runs \ {r})
        BY <2>1 DEF Inv, Shapes, JobOK, JobRec, At, Run
      <3> QED
        BY <3>1 DEF HandOK, At, Run
    <2> QED  BY <2>1
  <1>3. ASSUME NEW s \in Runs
        PROVE  FilesOK(s)'
    <2>1. CASE s # r
      <3>1. FilesOK(s) /\ (s \notin outdated' => s \notin outdated)
        BY DEF Inv
      <3>2. (\A k \in Jobs : job'[k].run = s => job'[k].phase \notin Scanning)
              => \A k \in Jobs : job[k].run = s => job[k].phase \notin Scanning
        BY <2>1, RunAssumption
      <3> QED
        BY <2>1, <3>1, <3>2 DEF FilesOK, Run
    <2> QED  BY <2>1
  <1> QED
    BY <1>1, <1>2, <1>3 DEF Inv

\* A job at work has a run that nobody else has.
LEMMA OwnRun ==
  ASSUME Inv, NEW j \in Jobs, ~At(j, "idle")
  PROVE  Run(j) \in Runs /\ \A k \in Jobs \ {j} : Run(k) # Run(j)
  BY RunAssumption DEF Inv, Shapes, JobOK, JobRec, RunsApart, At, Run

\* A job goes on, or ends, and leaves the lock alone.
LEMMA LockAside ==
  ASSUME Inv, NEW j \in Jobs, UNCHANGED <<lock, bared>>,
         \A k \in Jobs \ {j} : job'[k] = job[k],
         job'[j].phase \in Inside => job[j].phase \in Inside /\ job'[j].run = job[j].run,
         job'[j].phase \in {"unlink", "take"} => job'[j].sawFree
  PROVE  LockOK'
  BY DEF Inv, LockOK, Run

\* A job ends and gives the lock back.
LEMMA LockReleased ==
  ASSUME Inv, NEW j \in Jobs, job[j].phase \in Inside, Release(j), UNCHANGED bared,
         \A k \in Jobs \ {j} : job'[k] = job[k], job'[j].phase = "idle"
  PROVE  LockOK' /\ lock' \in [run : Runs \cup {"free", "torn"}, stale : BOOLEAN]
  <1>1. ~At(j, "idle")
    BY DEF At, Inside
  <1>2. \A k \in Jobs \ {j} : Run(k) # Run(j)
    BY <1>1, OwnRun
  <1>3. lock' \in [run : Runs \cup {"free", "torn"}, stale : BOOLEAN]
    BY DEF Release, Free, Inv, Shapes
  <1> QED
    BY <1>2, <1>3 DEF Release, Releases, Inv, LockOK, Run, Inside

\* A job ends, and its state file keeps some paths: each must stand for its file.
LEMMA EndedInv ==
  ASSUME Inv, NEW j \in Jobs, ~At(j, "idle"), NEW r \in Runs, r = Run(j),
         NEW status \in JobStatus, NEW paths \in SUBSET Path, Ends(j, status, paths),
         lock' \in [run : Runs \cup {"free", "torn"}, stale : BOOLEAN], LockOK',
         UNCHANGED <<scan, enriched, bared>>, outdated' = outdated \/ outdated' = outdated \cup {r},
         report' \in [Runs -> {report'[s] : s \in Runs}], \A s \in Runs \ {r} : report'[s] = report[s],
         plan' \in [Runs -> {plan'[s] : s \in Runs}],
         "enriched" \in paths => "report" \in paths,
         r \notin outdated /\ "report" \in paths => report'[r].of = scan[r].comments,
         r \notin outdated /\ "enriched" \in paths => enriched[r].of = scan[r].comments
  PROVE  Inv'
  <1>1. /\ job' \in [Jobs -> {job'[k] : k \in Jobs}] /\ \A k \in Jobs : JobOK(k)'
        /\ job'[j] = NoJob /\ \A k \in Jobs \ {j} : job'[k] = job[k]
    <2>1. job' = [job EXCEPT ![j] = NoJob]
      BY DEF Ends
    <2> QED
      BY <2>1, NoJobType, JobChanges DEF Inv
  <1>2. /\ state' \in [Runs -> [status : JobStatus, paths : SUBSET Path]]
        /\ state'[r].paths = paths /\ \A s \in Runs \ {r} : state'[s] = state[s]
    BY DEF Ends, Inv, Shapes
  <1>3. Shapes'
    <2>1. outdated' \subseteq Runs
      BY DEF Inv, Shapes
    <2> QED
      BY <1>1, <1>2, <2>1 DEF Inv, Shapes
  <1>4. HandOK(j)'
    BY <1>1, NoJobType DEF HandOK, At
  <1>5. FilesOK(r)'
    <2>1. r \notin outdated' => r \notin outdated
      OBVIOUS
    <2> QED
      BY <1>2, <2>1 DEF FilesOK
  <1>6. /\ \A k \in Jobs \ {j} : Run(k) # r
        /\ outdated \subseteq outdated' /\ outdated' \subseteq outdated \cup {r}
    BY OwnRun
  <1> QED
    BY <1>1, <1>2, <1>3, <1>4, <1>5, <1>6, NoJobType, OneRun DEF Run

\* A job goes on to another phase without touching the files it has in hand.
LEMMA GoesOnInv ==
  ASSUME Inv, NEW j \in Jobs, ~At(j, "idle"), NEW todo, NEW at, NEW w \in JobRec(todo, at),
         w.phase # "idle", w.run = Run(j), job' = [job EXCEPT ![j] = w],
         lock' \in [run : Runs \cup {"free", "torn"}, stale : BOOLEAN], LockOK', bared' \subseteq Jobs,
         UNCHANGED <<files, outdated>>,
         w.phase \in Scanning <=> job[j].phase \in Scanning,
         HandOK(j)'
  PROVE  Inv'
  <1>1. PICK r \in Runs : r = Run(j) /\ \A k \in Jobs \ {j} : Run(k) # r
    BY OwnRun
  <1>2. /\ job' \in [Jobs -> {job'[k] : k \in Jobs}] /\ \A k \in Jobs : JobOK(k)'
        /\ job'[j] = w /\ \A k \in Jobs \ {j} : job'[k] = job[k]
    BY <1>1, JobChanges, RunAssumption DEF Inv
  <1>3. Shapes'
    BY <1>2 DEF Inv, Shapes, files
  <1>4. FilesOK(r)'
    BY <1>1, <1>2 DEF Inv, FilesOK, files, Run
  <1> QED
    BY <1>1, <1>2, <1>3, <1>4, OneRun DEF files, Run

-----------------------------------------------------------------------------
(* The lock.                                                               *)

LEMMA StartInv ==
  ASSUME Inv, NEW j \in Jobs, NEW r \in Runs, NEW llm \in BOOLEAN, Start(j, r, llm)
  PROVE  Inv'
  <1>1. /\ \A k \in Jobs : Run(k) # r
        /\ At(j, "idle") /\ Run(j) = "none"
        /\ UNCHANGED <<lock, scan, report, enriched, plan, outdated>> /\ bared' = bared \ {j}
    BY DEF Start, Inv, Shapes, JobOK
  <1>2. /\ state' \in [Runs -> [status : JobStatus, paths : SUBSET Path]]
        /\ state'[r].paths = state[r].paths /\ \A s \in Runs \ {r} : state'[s] = state[s]
    <2>1. state' = state \/ state' = [state EXCEPT ![r].status = "running"]
      BY DEF Start
    <2>2. state[r] \in [status : JobStatus, paths : SUBSET Path]
      BY DEF Inv, Shapes
    <2>3. PICK new \in [status : JobStatus, paths : SUBSET Path] :
             new = [state[r] EXCEPT !.status = "running"]
      BY <2>2 DEF JobStatus
    <2>4. new.paths = state[r].paths
      BY <2>2, <2>3
    <2>5. state' = state \/ state' = [state EXCEPT ![r] = new]
      BY <2>1, <2>3 DEF Inv, Shapes
    <2>6. state \in [Runs -> [status : JobStatus, paths : SUBSET Path]]
      BY DEF Inv, Shapes
    <2>7. CASE state' = state
      BY <2>6, <2>7
    <2>8. CASE state' = [state EXCEPT ![r] = new]
      BY <2>3, <2>4, <2>6, <2>8
    <2> QED
      BY <2>5, <2>7, <2>8
  <1>3. PICK resumes \in BOOLEAN : resumes = (state[r].status # "none")
    <2>1. CASE state[r].status = "none"
      BY <2>1
    <2>2. CASE state[r].status # "none"
      BY <2>2
    <2> QED  BY <2>1, <2>2
  <1>4. job' = [job EXCEPT ![j] = [NoJob EXCEPT !.phase = "look", !.run = r, !.llm = llm,
                                                !.resumes = resumes, !.known = state[r].paths]]
    <2>1. (~(state[r].status = "none")) = resumes
      BY <1>3
    <2> QED
      BY <2>1 DEF Start
  <1>5. PICK w \in JobRec(NoJob.todo, NoJob.at) :
           w = [NoJob EXCEPT !.phase = "look", !.run = r, !.llm = llm, !.resumes = resumes,
                             !.known = state[r].paths]
    BY NoJobType DEF JobRec, Phases, Inv, Shapes
  <1>6. w.phase = "look" /\ w.run = r /\ w.known = state[r].paths /\ w.paths = {}
    BY <1>5, NoJobType DEF JobRec
  <1>7. /\ job' \in [Jobs -> {job'[k] : k \in Jobs}] /\ \A k \in Jobs : JobOK(k)'
        /\ job'[j] = w /\ \A k \in Jobs \ {j} : job'[k] = job[k]
    BY <1>4, <1>5, <1>6, JobChanges, RunAssumption DEF Inv
  <1>8. Shapes'
    BY <1>1, <1>2, <1>7 DEF Inv, Shapes
  <1>9. LockOK'
    BY <1>1, <1>6, <1>7 DEF Inv, LockOK, Run, Inside
  <1>10. HandOK(j)'
    BY <1>2, <1>6, <1>7 DEF HandOK, At, Run, Scanning
  <1>11. FilesOK(r)'
    BY <1>1, <1>2 DEF Inv, FilesOK, Run
  <1> QED
    BY <1>1, <1>2, <1>6, <1>7, <1>8, <1>9, <1>10, <1>11, OneRun DEF Run

LEMMA LookInv ==
  ASSUME Inv, NEW j \in Jobs, Look(j)
  PROVE  Inv'
  <1>1. At(j, "look") /\ UNCHANGED <<lock, scan, report, enriched, plan, ghosts>>
    BY DEF Look
  <1>2. PICK r \in Runs : r = Run(j)
    BY <1>1, OwnRun DEF At
  <1>3. CASE HeldElsewhere
    <2>1. Ends(j, "blocked", {})
      BY <1>3 DEF Look
    <2>2. job'[j] = NoJob /\ \A k \in Jobs \ {j} : job'[k] = job[k]
      BY <2>1 DEF Ends, Inv, Shapes
    <2>3. LockOK'
      BY <1>1, <2>2, NoJobType, LockAside DEF ghosts, Inside
    <2>4. /\ lock' \in [run : Runs \cup {"free", "torn"}, stale : BOOLEAN]
          /\ report' \in [Runs -> {report'[s] : s \in Runs}]
          /\ plan' \in [Runs -> {plan'[s] : s \in Runs}]
          /\ UNCHANGED <<scan, enriched, ghosts>> /\ \A s \in Runs \ {r} : report'[s] = report[s]
      BY <1>1 DEF Inv, Shapes, ghosts
    <2>5. ~At(j, "idle") /\ "blocked" \in JobStatus /\ {} \in SUBSET Path
      BY <1>1 DEF At, JobStatus
    <2> QED
      BY <1>2, <2>1, <2>3, <2>4, <2>5, EndedInv DEF ghosts
  <1>4. CASE ~HeldElsewhere
    <2>1. job[j] \in JobRec(job[j].todo, job[j].at) /\ (lock = Free \/ lock.stale)
      BY <1>4 DEF Inv, Shapes, JobOK, HeldElsewhere
    <2>2. PICK phase \in {"take", "unlink"} : phase = IF lock = Free THEN "take" ELSE "unlink"
      OBVIOUS
    <2>3. (lock = Free \/ lock.stale) = TRUE
      BY <2>1
    <2>4. job' = [job EXCEPT ![j].phase = phase, ![j].sawFree = TRUE] /\ UNCHANGED state
      BY <1>4, <2>2, <2>3 DEF Look
    <2>5. PICK w \in JobRec(job[j].todo, job[j].at) : w = [job[j] EXCEPT !.phase = phase, !.sawFree = TRUE]
      BY <2>1 DEF JobRec, Phases
    <2>6. /\ w.phase = phase /\ w.sawFree = TRUE /\ w.run = r /\ w.known = job[j].known
          /\ w.paths = job[j].paths
      BY <1>2, <2>1, <2>5 DEF JobRec, Run
    <2>7. job' = [job EXCEPT ![j] = w]
      BY <2>4, <2>5 DEF Inv, Shapes
    <2>8. job'[j] = w /\ \A k \in Jobs \ {j} : job'[k] = job[k]
      BY <2>7 DEF Inv, Shapes
    <2>9. LockOK'
      BY <1>1, <2>6, <2>8, LockAside DEF ghosts, Inside
    <2>10. HandOK(j)'
      BY <1>1, <2>4, <2>6, <2>8, <1>2 DEF Inv, HandOK, At, Run, Scanning
    <2> QED
      BY <1>1, <1>2, <2>4, <2>6, <2>7, <2>9, <2>10, GoesOnInv DEF At, Scanning, files, ghosts, Inv, Shapes
  <1> QED  BY <1>3, <1>4

\* A step that changes no more of a job than its phase.
LEMMA NextPhase ==
  ASSUME Inv, NEW j \in Jobs, NEW from \in Phases, At(j, from), from \notin {"idle", "report"} \cup Scanning,
         NEW to \in Phases \ ({"idle", "review", "plan"} \cup Scanning), from \notin {"review", "plan"},
         Goto(j, to), lock' \in [run : Runs \cup {"free", "torn"}, stale : BOOLEAN], LockOK',
         bared' \subseteq Jobs, UNCHANGED <<files, outdated>>
  PROVE  Inv'
  <1>1. ~At(j, "idle") /\ job[j] \in JobRec(job[j].todo, job[j].at)
    BY DEF At, Inv, Shapes, JobOK
  <1>2. PICK w \in JobRec(job[j].todo, job[j].at) : w = [job[j] EXCEPT !.phase = to]
    BY <1>1 DEF JobRec
  <1>3. /\ w.phase = to /\ w.run = Run(j) /\ w.known = job[j].known /\ w.paths = job[j].paths
    BY <1>1, <1>2 DEF JobRec, Run
  <1>4. job' = [job EXCEPT ![j] = w] /\ job'[j] = w
    BY <1>2 DEF Goto, Inv, Shapes
  <1>5. HandOK(j)'
    BY <1>1, <1>3, <1>4 DEF Inv, HandOK, At, Run, files, Scanning
  <1> QED
    BY <1>1, <1>3, <1>4, <1>5, GoesOnInv DEF At

LEMMA GotoOthers ==
  ASSUME Inv, NEW j \in Jobs, NEW to \in Phases, Goto(j, to)
  PROVE  /\ job'[j].phase = to /\ job'[j].run = Run(j) /\ job'[j].sawFree = job[j].sawFree
         /\ \A k \in Jobs \ {j} : job'[k] = job[k]
  <1>1. job[j] \in JobRec(job[j].todo, job[j].at)
    BY DEF Inv, Shapes, JobOK
  <1>2. PICK w : w = [job[j] EXCEPT !.phase = to]
    OBVIOUS
  <1>3. w.phase = to /\ w.run = Run(j) /\ w.sawFree = job[j].sawFree
    BY <1>1, <1>2 DEF JobRec, Run
  <1>4. job' = [job EXCEPT ![j] = w]
    BY <1>2 DEF Goto, Inv, Shapes
  <1> QED
    BY <1>3, <1>4 DEF Inv, Shapes

LEMMA UnlinkInv ==
  ASSUME Inv, NEW j \in Jobs, Unlink(j)
  PROVE  Inv'
  <1>1. /\ At(j, "unlink") /\ Goto(j, "take") /\ lock' = Free /\ UNCHANGED <<files, outdated>>
        /\ "take" \in Phases /\ "unlink" \in Phases
    BY DEF Unlink, Phases
  <1>2. job[j].sawFree /\ bared' = bared \cup Others(j)
    BY <1>1 DEF Unlink, Inv, LockOK, At
  <1>3. lock' \in [run : Runs \cup {"free", "torn"}, stale : BOOLEAN] /\ bared' \subseteq Jobs
    BY <1>1, <1>2 DEF Free, Others, Inv, Shapes
  <1>4. LockOK'
    BY <1>1, <1>2, GotoOthers DEF Inv, LockOK, Others, Inside
  <1> QED
    BY <1>1, <1>3, <1>4, NextPhase DEF Scanning

LEMMA TakeInv ==
  ASSUME Inv, NEW j \in Jobs, Take(j)
  PROVE  Inv'
  <1>1. /\ At(j, "take") /\ Goto(j, "health") /\ lock' = [run |-> Run(j), stale |-> FALSE]
        /\ UNCHANGED <<files, outdated>> /\ "take" \in Phases /\ "health" \in Phases
    BY DEF Take, Phases
  <1>2. job[j].sawFree /\ Run(j) \in Runs
    BY <1>1, OwnRun DEF Inv, LockOK, At
  <1>3. bared' = IF lock # Free THEN bared \cup Others(j) \cup {j} ELSE bared
    BY <1>2 DEF Take
  <1>4. lock' \in [run : Runs \cup {"free", "torn"}, stale : BOOLEAN] /\ bared' \subseteq Jobs
    BY <1>1, <1>2, <1>3 DEF Others, Inv, Shapes
  <1>5. LockOK'
    <2>1. \A k \in Jobs \ {j} : k \notin bared' => job[k].phase \notin Inside
      <3>1. CASE lock # Free
        BY <1>3, <3>1 DEF Others
      <3>2. CASE lock = Free
        <4>1. \A k \in Jobs \ bared : job[k].phase \in Inside => Run(k) = "free"
          BY <3>2 DEF Inv, LockOK, Free
        <4>2. \A k \in Jobs : job[k].phase \in Inside => Run(k) \in Runs
          BY OwnRun DEF At, Inside
        <4> QED
          BY <1>3, <3>2, <4>1, <4>2, RunAssumption
      <3> QED  BY <3>1, <3>2
    <2>2. /\ job'[j].phase = "health" /\ job'[j].run = Run(j) /\ lock'.run = Run(j)
          /\ \A k \in Jobs \ {j} : job'[k] = job[k]
      BY <1>1, GotoOthers
    <2> QED
      BY <2>1, <2>2 DEF Inv, LockOK, Run
  <1> QED
    BY <1>1, <1>4, <1>5, NextPhase DEF Scanning

LEMMA ExpireInv ==
  ASSUME Inv, Expire
  PROVE  Inv'
  <1>1. lock' = [lock EXCEPT !.stale = TRUE] /\ lock \in [run : Runs \cup {"free", "torn"}, stale : BOOLEAN]
    BY DEF Expire, Inv, Shapes
  <1>2. lock' \in [run : Runs \cup {"free", "torn"}, stale : BOOLEAN] /\ lock'.run = lock.run
    BY <1>1
  <1>3. UNCHANGED <<files, job, ghosts>>
    BY DEF Expire
  <1>4. Shapes'
    BY <1>2, <1>3 DEF Inv, Shapes, JobOK, At, Run, files, ghosts
  <1>5. RunsApart' /\ LockOK'
    BY <1>2, <1>3 DEF Inv, RunsApart, LockOK, Run, ghosts
  <1>6. \A r \in Runs : FilesOK(r)'
    BY <1>3 DEF Inv, FilesOK, Run, files, ghosts
  <1>7. \A j \in Jobs : HandOK(j)'
    BY <1>3 DEF Inv, HandOK, At, Run, files, ghosts
  <1> QED
    BY <1>4, <1>5, <1>6, <1>7 DEF Inv

-----------------------------------------------------------------------------
(* The login check and the scan.                                           *)

\* A job that fails before it has scanned, or at the review, keeps the paths it has.
LEMMA FailsInv ==
  ASSUME Inv, NEW j \in Jobs, job[j].phase \in {"health", "scan", "review"}, Fails(j),
         UNCHANGED <<scan, report, enriched, plan, bared>>,
         outdated' = outdated \/ outdated' = outdated \cup {Run(j)}
  PROVE  Inv'
  <1>1. ~At(j, "idle") /\ job[j].phase \in Inside
    BY DEF At, Inside
  <1>2. PICK r \in Runs : r = Run(j) /\ \A k \in Jobs \ {j} : Run(k) # r
    BY <1>1, OwnRun
  <1>3. Ends(j, "failed", job[j].paths) /\ Release(j)
    BY DEF Fails, FailedPaths
  <1>4. job'[j].phase = "idle" /\ \A k \in Jobs \ {j} : job'[k] = job[k]
    BY <1>3, NoJobType DEF Ends, Inv, Shapes
  <1>5. LockOK' /\ lock' \in [run : Runs \cup {"free", "torn"}, stale : BOOLEAN]
    BY <1>1, <1>3, <1>4, LockReleased
  <1>6. FilesOK(r) /\ HandOK(j) /\ \A k \in Jobs : Run(k) = r => job[k].phase \notin Scanning
    BY <1>2 DEF Inv, Scanning
  <1>7. /\ "enriched" \in job[j].paths => "report" \in job[j].paths
        /\ r \notin outdated /\ "report" \in job[j].paths => report[r].of = scan[r].comments
        /\ r \notin outdated /\ "enriched" \in job[j].paths => enriched[r].of = scan[r].comments
    BY <1>1, <1>2, <1>6 DEF FilesOK, HandOK
  <1>8. job[j].paths \in SUBSET Path /\ "failed" \in JobStatus
    BY DEF Inv, Shapes, JobOK, JobRec, JobStatus
  <1>9. /\ report' \in [Runs -> {report'[s] : s \in Runs}] /\ \A s \in Runs : report'[s] = report[s]
        /\ plan' \in [Runs -> {plan'[s] : s \in Runs}]
        /\ UNCHANGED <<scan, enriched, bared>> /\ (outdated' = outdated \/ outdated' = outdated \cup {r})
    BY <1>2 DEF Inv, Shapes
  <1> QED
    BY <1>1, <1>2, <1>3, <1>5, <1>7, <1>8, <1>9, EndedInv

\* A job ends with no state file of its own.
LEMMA DroppedInv ==
  ASSUME Inv, NEW j \in Jobs, ~At(j, "idle"), job' = [job EXCEPT ![j] = NoJob],
         lock' \in [run : Runs \cup {"free", "torn"}, stale : BOOLEAN], LockOK', bared' \subseteq Jobs,
         UNCHANGED files,
         outdated' = outdated \/ outdated' = outdated \cup {Run(j)},
         job[j].phase \in Scanning /\ "report" \in state[Run(j)].paths => Run(j) \in outdated'
  PROVE  Inv'
  <1>1. PICK r \in Runs : r = Run(j) /\ \A k \in Jobs \ {j} : Run(k) # r
    BY OwnRun
  <1>2. /\ job' \in [Jobs -> {job'[k] : k \in Jobs}] /\ \A k \in Jobs : JobOK(k)'
        /\ job'[j] = NoJob /\ \A k \in Jobs \ {j} : job'[k] = job[k]
    BY NoJobType, JobChanges DEF Inv
  <1>3. Shapes'
    <2>1. outdated' \subseteq Runs
      BY <1>1 DEF Inv, Shapes
    <2> QED
      BY <1>2, <2>1 DEF Inv, Shapes, files
  <1>4. HandOK(j)'
    BY <1>2, NoJobType DEF HandOK, At
  <1>5. FilesOK(r)'
    <2>1. FilesOK(r) /\ UNCHANGED <<state, scan, report, enriched>>
      BY DEF Inv, files
    <2>2. CASE job[j].phase \in Scanning
      BY <1>1, <2>1, <2>2 DEF FilesOK
    <2>3. CASE job[j].phase \notin Scanning
      BY <1>1, <2>1, <2>3 DEF FilesOK
    <2> QED  BY <2>2, <2>3
  <1>6. outdated \subseteq outdated' /\ outdated' \subseteq outdated \cup {r}
    BY <1>1
  <1> QED
    BY <1>1, <1>2, <1>3, <1>4, <1>5, <1>6, NoJobType, OneRun DEF files, Run

\* A job that scans goes on with the scan, and may write the scan file.
LEMMA ScansInv ==
  ASSUME Inv, NEW j \in Jobs, job[j].phase \in {"scan", "content", "end"},
         NEW todo, NEW at, NEW w \in JobRec(todo, at), w.phase \in Scanning,
         w.run = Run(j), w.known = job[j].known, w.paths = job[j].paths, job' = [job EXCEPT ![j] = w],
         UNCHANGED <<lock, state, report, enriched, plan, bared>>,
         outdated' = outdated \/ outdated' = outdated \cup {Run(j)},
         "enriched" \in job[j].known => Run(j) \in outdated',
         scan' \in [Runs -> {scan'[s] : s \in Runs}], \A s \in Runs \ {Run(j)} : scan'[s] = scan[s],
         w.phase = "report" => scan'[Run(j)] = at
  PROVE  Inv'
  <1>1. ~At(j, "idle") /\ job[j].phase \in Inside
    BY DEF At, Inside
  <1>2. PICK r \in Runs : r = Run(j) /\ \A k \in Jobs \ {j} : Run(k) # r
    BY <1>1, OwnRun
  <1>3. /\ job' \in [Jobs -> {job'[k] : k \in Jobs}] /\ \A k \in Jobs : JobOK(k)'
        /\ job'[j] = w /\ \A k \in Jobs \ {j} : job'[k] = job[k]
    BY <1>2, JobChanges, RunAssumption DEF Inv, Scanning
  <1>4. outdated' \subseteq Runs /\ outdated \subseteq outdated' /\ outdated' \subseteq outdated \cup {r}
    BY <1>2 DEF Inv, Shapes
  <1>5. Shapes'
    BY <1>3, <1>4 DEF Inv, Shapes
  <1>6. LockOK'
    BY <1>1, <1>3, LockAside DEF Scanning, Run
  <1>7. HandOK(j)'
    BY <1>1, <1>2, <1>3 DEF Inv, HandOK, At, Run, Scanning, JobRec
  <1>8. FilesOK(r)'
    BY <1>2, <1>3 DEF Inv, FilesOK, Run
  <1> QED
    BY <1>2, <1>3, <1>4, <1>5, <1>6, <1>7, <1>8, OneRun DEF Run

LEMMA HealthInv ==
  ASSUME Inv, NEW j \in Jobs, Health(j)
  PROVE  Inv'
  <1>1. /\ At(j, "health") /\ UNCHANGED <<scan, report, enriched, plan, ghosts>>
        /\ ~At(j, "idle") /\ job[j].phase \in Inside
    BY DEF Health, At, Inside
  <1>2. PICK r \in Runs : r = Run(j)
    BY <1>1, OwnRun
  <1>3. job[j] \in JobRec(job[j].todo, job[j].at) /\ HandOK(j)
    BY DEF Inv, Shapes, JobOK
  <1>4. ASSUME UNCHANGED <<lock, state>>,
               job' = [job EXCEPT ![j].phase = IF Reusable(j) THEN "review" ELSE "scan",
                                  ![j].paths = IF Reusable(j) THEN job[j].known ELSE {},
                                  ![j].at = IF Reusable(j) THEN scan[Run(j)] ELSE Absent]
        PROVE  Inv'
    <2>1. PICK phase : phase = IF Reusable(j) THEN "review" ELSE "scan"
      OBVIOUS
    <2>2. PICK paths : paths = IF Reusable(j) THEN job[j].known ELSE {}
      OBVIOUS
    <2>3. PICK at : at = IF Reusable(j) THEN scan[Run(j)] ELSE Absent
      OBVIOUS
    <2>4. phase \in Phases /\ paths \in SUBSET Path
      BY <1>3, <2>1, <2>2 DEF JobRec, Phases
    <2>5. PICK w \in JobRec(job[j].todo, at) : w = [job[j] EXCEPT !.phase = phase, !.paths = paths, !.at = at]
      BY <1>3, <2>4 DEF JobRec
    <2>6. w.phase = phase /\ w.paths = paths /\ w.run = r /\ w.known = job[j].known
      BY <1>2, <1>3, <2>5 DEF JobRec, Run
    <2>7. job' = [job EXCEPT ![j] = w] /\ job'[j] = w /\ \A k \in Jobs \ {j} : job'[k] = job[k]
      <3>1. job' = [job EXCEPT ![j].phase = phase, ![j].paths = paths, ![j].at = at]
        BY <1>4, <2>1, <2>2, <2>3
      <3> QED
        BY <2>5, <3>1 DEF Inv, Shapes
    <2>8. LockOK'
      BY <1>1, <1>2, <1>4, <2>1, <2>6, <2>7, LockAside DEF ghosts, Run
    <2>9. HandOK(j)'
      BY <1>1, <1>2, <1>3, <1>4, <2>1, <2>2, <2>6, <2>7 DEF HandOK, At, Run, Scanning, Reusable
    <2>10. phase # "idle" /\ (phase \in Scanning <=> job[j].phase \in Scanning)
      BY <1>1, <2>1 DEF At, Scanning
    <2>11. /\ lock' \in [run : Runs \cup {"free", "torn"}, stale : BOOLEAN] /\ bared' \subseteq Jobs
           /\ UNCHANGED <<files, outdated>>
      BY <1>1, <1>4 DEF files, ghosts, Inv, Shapes
    <2> QED
      BY <1>1, <1>2, <2>6, <2>7, <2>8, <2>9, <2>10, <2>11, GoesOnInv
  <1>5. ASSUME Ends(j, "blocked", {}), Release(j)
        PROVE  Inv'
    <2>1. job'[j].phase = "idle" /\ \A k \in Jobs \ {j} : job'[k] = job[k]
      BY <1>5, NoJobType DEF Ends, Inv, Shapes
    <2>2. LockOK' /\ lock' \in [run : Runs \cup {"free", "torn"}, stale : BOOLEAN]
      BY <1>1, <1>5, <2>1, LockReleased DEF ghosts
    <2>3. /\ report' \in [Runs -> {report'[s] : s \in Runs}] /\ \A s \in Runs : report'[s] = report[s]
          /\ plan' \in [Runs -> {plan'[s] : s \in Runs}]
          /\ UNCHANGED <<scan, enriched, bared>> /\ outdated' = outdated
      BY <1>1 DEF Inv, Shapes, ghosts
    <2>4. "blocked" \in JobStatus /\ {} \in SUBSET Path
      BY DEF JobStatus
    <2> QED
      BY <1>1, <1>2, <1>5, <2>2, <2>3, <2>4, EndedInv
  <1>6. ASSUME Fails(j)
        PROVE  Inv'
    BY <1>1, <1>6, FailsInv DEF At, ghosts
  <1>7. ASSUME job' = [job EXCEPT ![j] = NoJob], UNCHANGED state, Release(j)
        PROVE  Inv'
    <2>1. job'[j].phase = "idle" /\ \A k \in Jobs \ {j} : job'[k] = job[k]
      BY <1>7, NoJobType DEF Inv, Shapes
    <2>2. LockOK' /\ lock' \in [run : Runs \cup {"free", "torn"}, stale : BOOLEAN]
      BY <1>1, <1>7, <2>1, LockReleased DEF ghosts
    <2>3. UNCHANGED files /\ bared' \subseteq Jobs /\ outdated' = outdated /\ job[j].phase \notin Scanning
      BY <1>1, <1>7 DEF files, ghosts, Inv, Shapes, At, Scanning
    <2> QED
      BY <1>1, <1>7, <2>2, <2>3, DroppedInv
  <1> QED
    BY <1>4, <1>5, <1>6, <1>7 DEF Health

LEMMA SearchInv ==
  ASSUME Inv, NEW j \in Jobs, Search(j)
  PROVE  Inv'
  <1>1. /\ At(j, "scan") /\ UNCHANGED <<report, enriched, plan, bared>>
        /\ ~At(j, "idle") /\ job[j].phase = "scan"
    BY DEF Search, At
  <1>2. Run(j) \in Runs /\ job[j] \in JobRec(job[j].todo, job[j].at)
    BY <1>1, OwnRun DEF Inv, Shapes, JobOK
  <1>3. /\ outdated' = outdated \/ outdated' = outdated \cup {Run(j)}
        /\ "enriched" \in job[j].known => Run(j) \in outdated'
    BY DEF Search
  <1>4. ASSUME NEW found, WriteScan(j, Resumed(j), "completed"), UNCHANGED <<lock, state>>,
               job' = [job EXCEPT ![j].phase = "content", ![j].todo = found, ![j].at = Resumed(j)]
        PROVE  Inv'
    <2>1. PICK at : at = Resumed(j)
      OBVIOUS
    <2>2. PICK w \in JobRec(found, at) : w = [job[j] EXCEPT !.phase = "content", !.todo = found, !.at = at]
      BY <1>2 DEF JobRec, Phases
    <2>3. w.phase = "content" /\ w.run = Run(j) /\ w.known = job[j].known /\ w.paths = job[j].paths
      BY <1>2, <2>2 DEF JobRec, Run
    <2>4. job' = [job EXCEPT ![j] = w]
      BY <1>4, <2>1, <2>2 DEF Inv, Shapes
    <2>5. scan' \in [Runs -> {scan'[s] : s \in Runs}] /\ \A s \in Runs \ {Run(j)} : scan'[s] = scan[s]
      BY <1>2, <1>4 DEF WriteScan, Inv, Shapes
    <2> QED
      BY <1>1, <1>3, <1>4, <2>3, <2>4, <2>5, ScansInv DEF Scanning
  <1>5. ASSUME UNCHANGED <<lock, state, scan>>,
               job' = [job EXCEPT ![j].phase = "end", ![j].at = Stopped(Resumed(j))]
        PROVE  Inv'
    <2>1. PICK at : at = Stopped(Resumed(j))
      OBVIOUS
    <2>2. PICK w \in JobRec(job[j].todo, at) : w = [job[j] EXCEPT !.phase = "end", !.at = at]
      BY <1>2 DEF JobRec, Phases
    <2>3. w.phase = "end" /\ w.run = Run(j) /\ w.known = job[j].known /\ w.paths = job[j].paths
      BY <1>2, <2>2 DEF JobRec, Run
    <2>4. job' = [job EXCEPT ![j] = w]
      BY <1>5, <2>1, <2>2 DEF Inv, Shapes
    <2>5. scan' \in [Runs -> {scan'[s] : s \in Runs}] /\ \A s \in Runs \ {Run(j)} : scan'[s] = scan[s]
      BY <1>5 DEF Inv, Shapes
    <2> QED
      BY <1>1, <1>3, <1>5, <2>3, <2>4, <2>5, ScansInv DEF Scanning
  <1>6. ASSUME Fails(j), UNCHANGED scan
        PROVE  Inv'
    BY <1>1, <1>3, <1>6, FailsInv
  <1> QED
    BY <1>4, <1>5, <1>6 DEF Search

LEMMA ScanContentInv ==
  ASSUME Inv, NEW j \in Jobs, ScanContent(j)
  PROVE  Inv'
  <1>1. /\ At(j, "content") /\ UNCHANGED <<lock, state, report, enriched, plan, ghosts>>
        /\ ~At(j, "idle") /\ job[j].phase = "content"
    BY DEF ScanContent, At
  <1>2. Run(j) \in Runs /\ job[j] \in JobRec(job[j].todo, job[j].at)
    BY <1>1, OwnRun DEF Inv, Shapes, JobOK
  <1>3. /\ outdated' = outdated /\ UNCHANGED bared
        /\ "enriched" \in job[j].known => Run(j) \in outdated'
    BY <1>1 DEF ghosts, Inv, HandOK, Scanning
  <1>4. ASSUME NEW phase \in {"content", "end"}, NEW todo, NEW at,
               scan' = scan \/ \E s : WriteScan(j, s, "completed"),
               job' = [job EXCEPT ![j].phase = phase, ![j].todo = todo, ![j].at = at]
        PROVE  Inv'
    <2>1. PICK w \in JobRec(todo, at) : w = [job[j] EXCEPT !.phase = phase, !.todo = todo, !.at = at]
      BY <1>2 DEF JobRec, Phases
    <2>2. w.phase = phase /\ w.run = Run(j) /\ w.known = job[j].known /\ w.paths = job[j].paths
      BY <1>2, <2>1 DEF JobRec, Run
    <2>3. job' = [job EXCEPT ![j] = w]
      BY <1>4, <2>1 DEF Inv, Shapes
    <2>4. scan' \in [Runs -> {scan'[s] : s \in Runs}] /\ \A s \in Runs \ {Run(j)} : scan'[s] = scan[s]
      BY <1>2, <1>4 DEF WriteScan, Inv, Shapes
    <2> QED
      BY <1>1, <1>3, <2>2, <2>3, <2>4, ScansInv DEF Scanning
  <1>5. CASE Known(j, Head(job[j].todo))
    <2>1. job' = [job EXCEPT ![j].todo = Tail(@)] /\ UNCHANGED scan
      BY <1>5 DEF ScanContent
    <2>2. PICK todo : todo = Tail(job[j].todo)
      OBVIOUS
    <2>3. PICK w \in JobRec(todo, job[j].at) : w = [job[j] EXCEPT !.todo = todo]
      BY <1>2 DEF JobRec
    <2>4. w.phase = "content" /\ w.run = Run(j) /\ w.known = job[j].known /\ w.paths = job[j].paths
      BY <1>1, <1>2, <2>3 DEF JobRec, Run
    <2>5. job' = [job EXCEPT ![j] = w]
      BY <2>1, <2>2, <2>3 DEF Inv, Shapes
    <2>6. scan' \in [Runs -> {scan'[s] : s \in Runs}] /\ \A s \in Runs \ {Run(j)} : scan'[s] = scan[s]
      BY <2>1 DEF Inv, Shapes
    <2> QED
      BY <1>1, <1>3, <2>4, <2>5, <2>6, ScansInv DEF Scanning
  <1>6. ASSUME NEW s, WriteScan(j, s, "completed"),
               job' = [job EXCEPT ![j].at = s,
                                  ![j].todo = IF Len(s.comments) >= CommentLimit THEN <<>> ELSE Tail(@)]
        PROVE  Inv'
    <2>1. PICK todo : todo = IF Len(s.comments) >= CommentLimit THEN <<>> ELSE Tail(job[j].todo)
      OBVIOUS
    <2>2. PICK w \in JobRec(todo, s) : w = [job[j] EXCEPT !.at = s, !.todo = todo]
      BY <1>2 DEF JobRec
    <2>3. w.phase = "content" /\ w.run = Run(j) /\ w.known = job[j].known /\ w.paths = job[j].paths
      BY <1>1, <1>2, <2>2 DEF JobRec, Run
    <2>4. job' = [job EXCEPT ![j] = w]
      <3>1. job' = [job EXCEPT ![j].at = s, ![j].todo = todo]
        BY <1>6, <2>1, <1>2 DEF Inv, Shapes, JobRec
      <3> QED
        BY <2>2, <3>1 DEF Inv, Shapes
    <2>5. scan' \in [Runs -> {scan'[t] : t \in Runs}] /\ \A t \in Runs \ {Run(j)} : scan'[t] = scan[t]
      BY <1>2, <1>6 DEF WriteScan, Inv, Shapes
    <2> QED
      BY <1>1, <1>3, <2>3, <2>4, <2>5, ScansInv DEF Scanning
  <1>7. CASE ~Known(j, Head(job[j].todo))
    <2>1. \/ \E s : /\ WriteScan(j, s, "completed")
                    /\ job' = [job EXCEPT ![j].at = s,
                                  ![j].todo = IF Len(s.comments) >= CommentLimit THEN <<>> ELSE Tail(@)]
          \/ /\ job' = [job EXCEPT ![j].phase = "end", ![j].todo = <<>>, ![j].at = Stopped(job[j].at)]
             /\ UNCHANGED scan
      BY <1>7 DEF ScanContent
    <2> QED
      BY <2>1, <1>4, <1>6
  <1> QED  BY <1>5, <1>7

LEMMA WriteResultInv ==
  ASSUME Inv, NEW j \in Jobs, WriteResult(j)
  PROVE  Inv'
  <1>1. /\ job[j].phase \in {"content", "end"} /\ ~At(j, "idle")
        /\ UNCHANGED <<lock, state, report, enriched, plan, ghosts>>
    BY DEF WriteResult, At
  <1>2. Run(j) \in Runs /\ job[j] \in JobRec(job[j].todo, job[j].at)
    BY <1>1, OwnRun DEF Inv, Shapes, JobOK
  <1>3. /\ outdated' = outdated /\ UNCHANGED bared
        /\ "enriched" \in job[j].known => Run(j) \in outdated'
    BY <1>1 DEF ghosts, Inv, HandOK, Scanning
  <1>4. PICK result : /\ scan' = [scan EXCEPT ![Run(j)] = result]
                      /\ job' = [job EXCEPT ![j].phase = "report", ![j].at = result]
    BY DEF WriteResult
  <1>5. PICK w \in JobRec(job[j].todo, result) : w = [job[j] EXCEPT !.phase = "report", !.at = result]
    BY <1>2 DEF JobRec, Phases
  <1>6. w.phase = "report" /\ w.run = Run(j) /\ w.known = job[j].known /\ w.paths = job[j].paths
    BY <1>2, <1>5 DEF JobRec, Run
  <1>7. job' = [job EXCEPT ![j] = w]
    BY <1>4, <1>5 DEF Inv, Shapes
  <1>8. /\ scan' \in [Runs -> {scan'[s] : s \in Runs}] /\ \A s \in Runs \ {Run(j)} : scan'[s] = scan[s]
        /\ scan'[Run(j)] = result
    BY <1>2, <1>4 DEF Inv, Shapes
  <1> QED
    BY <1>1, <1>3, <1>6, <1>7, <1>8, ScansInv DEF Scanning

-----------------------------------------------------------------------------
(* The report, the review and the plan.                                    *)

LEMMA WriteReportInv ==
  ASSUME Inv, NEW j \in Jobs, WriteReport(j)
  PROVE  Inv'
  <1>1. /\ At(j, "report") /\ UNCHANGED <<scan, enriched, plan, ghosts>>
        /\ ~At(j, "idle") /\ job[j].phase \in Inside /\ job[j].phase \in Scanning
    BY DEF WriteReport, At, Inside, Scanning
  <1>2. PICK r \in Runs : r = Run(j) /\ \A k \in Jobs \ {j} : Run(k) # r
    BY <1>1, OwnRun
  <1>3. job[j] \in JobRec(job[j].todo, job[j].at) /\ HandOK(j) /\ FilesOK(r)
    BY DEF Inv, Shapes, JobOK
  <1>4. /\ report' \in [Runs -> {report'[s] : s \in Runs}]
        /\ report'[r].of = scan[r].comments /\ \A s \in Runs \ {r} : report'[s] = report[s]
    BY <1>1, <1>2, <1>3 DEF WriteReport, HandOK, Inv, Shapes
  <1>5. CASE ScanSucceeded(j)
    <2>1. PICK known \in SUBSET Path : known = job[j].known \cup {"scan", "report"}
      BY <1>3 DEF JobRec, Path
    <2>2. /\ state' = [state EXCEPT ![r].paths = known] /\ UNCHANGED lock
          /\ job' = [job EXCEPT ![j].phase = "review", ![j].paths = {"scan", "report"}, ![j].known = known]
      BY <1>2, <1>5, <2>1 DEF WriteReport, Inv, Shapes
    <2>3. PICK w \in JobRec(job[j].todo, job[j].at) :
             w = [job[j] EXCEPT !.phase = "review", !.paths = {"scan", "report"}, !.known = known]
      BY <1>3, <2>1 DEF JobRec, Phases, Path
    <2>4. w.phase = "review" /\ w.run = r /\ w.known = known /\ w.paths = {"scan", "report"}
      BY <1>2, <1>3, <2>3 DEF JobRec, Run
    <2>5. job' = [job EXCEPT ![j] = w]
      BY <2>2, <2>3 DEF Inv, Shapes
    <2>6. /\ job' \in [Jobs -> {job'[k] : k \in Jobs}] /\ \A k \in Jobs : JobOK(k)'
          /\ job'[j] = w /\ \A k \in Jobs \ {j} : job'[k] = job[k]
      BY <2>4, <2>5, JobChanges, RunAssumption DEF Inv
    <2>7. /\ state' \in [Runs -> [status : JobStatus, paths : SUBSET Path]]
          /\ state'[r].paths = known /\ \A s \in Runs \ {r} : state'[s] = state[s]
      <3>1. state[r] \in [status : JobStatus, paths : SUBSET Path]
        BY DEF Inv, Shapes
      <3>2. PICK new \in [status : JobStatus, paths : SUBSET Path] : new = [state[r] EXCEPT !.paths = known]
        BY <3>1
      <3>3. new.paths = known
        BY <3>1, <3>2
      <3>4. state' = [state EXCEPT ![r] = new]
        BY <2>2, <3>2 DEF Inv, Shapes
      <3> QED
        BY <3>3, <3>4 DEF Inv, Shapes
    <2>8. Shapes'
      <3>1. /\ scan' \in [Runs -> {scan'[s] : s \in Runs}] /\ plan' \in [Runs -> {plan'[s] : s \in Runs}]
            /\ enriched' \in [Runs -> {enriched'[s] : s \in Runs}]
            /\ lock' \in [run : Runs \cup {"free", "torn"}, stale : BOOLEAN]
            /\ bared' \subseteq Jobs /\ outdated' \subseteq Runs
        BY <1>1, <2>2 DEF Inv, Shapes, ghosts
      <3> QED
        BY <1>4, <2>6, <2>7, <3>1 DEF Shapes
    <2>9. LockOK'
      BY <1>1, <1>2, <2>2, <2>4, <2>6, LockAside DEF ghosts, Run
    <2>10. FilesOK(r)'
      BY <1>1, <1>2, <1>3, <1>4, <2>1, <2>7 DEF FilesOK, HandOK, ghosts
    <2>11. HandOK(j)'
      <3>1. scan'[r].status # "failed"
        BY <1>1, <1>2, <1>3, <1>5 DEF HandOK, ScanSucceeded
      <3> QED
        BY <2>1, <2>4, <2>6, <2>7, <3>1 DEF HandOK, At, Run, Scanning
    <2> QED
      BY <1>1, <1>2, <1>4, <2>4, <2>6, <2>7, <2>8, <2>9, <2>10, <2>11, OneRun DEF ghosts, Run
  <1>6. CASE ~ScanSucceeded(j)
    <2>1. Ends(j, "failed", {"scan", "report"}) /\ Release(j)
      BY <1>6 DEF WriteReport
    <2>2. job'[j].phase = "idle" /\ \A k \in Jobs \ {j} : job'[k] = job[k]
      BY <2>1, NoJobType DEF Ends, Inv, Shapes
    <2>3. LockOK' /\ lock' \in [run : Runs \cup {"free", "torn"}, stale : BOOLEAN]
      BY <1>1, <2>1, <2>2, LockReleased DEF ghosts
    <2>4. /\ plan' \in [Runs -> {plan'[s] : s \in Runs}]
          /\ UNCHANGED <<scan, enriched, bared>> /\ outdated' = outdated
      BY <1>1 DEF Inv, Shapes, ghosts
    <2>5. "failed" \in JobStatus /\ {"scan", "report"} \in SUBSET Path /\ "enriched" \notin {"scan", "report"}
      BY DEF JobStatus, Path
    <2> QED
      BY <1>1, <1>2, <1>4, <2>1, <2>3, <2>4, <2>5, EndedInv
  <1> QED  BY <1>5, <1>6

LEMMA ReviewLeadsInv ==
  ASSUME Inv, NEW j \in Jobs, ReviewLeads(j)
  PROVE  Inv'
  <1>1. /\ At(j, "review") /\ UNCHANGED <<scan, report, plan, ghosts>>
        /\ ~At(j, "idle") /\ job[j].phase = "review"
    BY DEF ReviewLeads, At
  <1>2. PICK r \in Runs : r = Run(j) /\ \A k \in Jobs \ {j} : Run(k) # r
    BY <1>1, OwnRun
  <1>3. /\ job[j] \in JobRec(job[j].todo, job[j].at) /\ HandOK(j) /\ FilesOK(r)
        /\ \A k \in Jobs : Run(k) = r => job[k].phase \notin Scanning
    BY <1>1, <1>2 DEF Inv, Shapes, JobOK, Scanning
  <1>4. ASSUME ~job[j].llm \/ Enriched(j), UNCHANGED <<lock, state, enriched>>,
               job' = [job EXCEPT ![j].phase = "plan",
                                  ![j].paths = IF job[j].llm THEN @ \cup {"enriched"} ELSE @]
        PROVE  Inv'
    <2>1. PICK paths : paths = IF job[j].llm THEN job[j].paths \cup {"enriched"} ELSE job[j].paths
      OBVIOUS
    <2>2. paths \in SUBSET Path
      BY <1>3, <2>1 DEF JobRec, Path
    <2>3. PICK w \in JobRec(job[j].todo, job[j].at) : w = [job[j] EXCEPT !.phase = "plan", !.paths = paths]
      BY <1>3, <2>2 DEF JobRec, Phases
    <2>4. /\ w.phase = "plan" /\ w.run = r /\ w.known = job[j].known /\ w.paths = paths
          /\ w.llm = job[j].llm
      BY <1>2, <1>3, <2>3 DEF JobRec, Run
    <2>5. job' = [job EXCEPT ![j] = w]
      <3>1. job' = [job EXCEPT ![j].phase = "plan", ![j].paths = paths]
        BY <1>4, <1>3, <2>1 DEF Inv, Shapes, JobRec
      <3> QED
        BY <2>3, <3>1 DEF Inv, Shapes
    <2>6. job'[j] = w /\ \A k \in Jobs \ {j} : job'[k] = job[k]
      BY <2>5 DEF Inv, Shapes
    <2>7. LockOK'
      BY <1>1, <1>2, <1>4, <2>4, <2>6, LockAside DEF ghosts, Run, Inside
    <2>8. HandOK(j)'
      BY <1>1, <1>2, <1>3, <1>4, <2>1, <2>4, <2>6 DEF HandOK, At, Run, Scanning, Enriched
    <2>9. /\ lock' \in [run : Runs \cup {"free", "torn"}, stale : BOOLEAN] /\ bared' \subseteq Jobs
          /\ UNCHANGED <<files, outdated>>
      BY <1>1, <1>4 DEF files, ghosts, Inv, Shapes
    <2> QED
      BY <1>1, <1>2, <2>4, <2>5, <2>7, <2>8, <2>9, GoesOnInv DEF Scanning
  <1>5. ASSUME NEW made, made.of = report[r].of, enriched' = [enriched EXCEPT ![r] = made],
               state' = [state EXCEPT ![r].paths = job[j].known \cup {"enriched"}],
               job' = [job EXCEPT ![j].phase = "plan", ![j].paths = @ \cup {"enriched"},
                                  ![j].known = @ \cup {"enriched"}],
               UNCHANGED lock
        PROVE  Inv'
    <2>1. PICK known \in SUBSET Path : known = job[j].known \cup {"enriched"}
      BY <1>3 DEF JobRec, Path
    <2>2. PICK paths \in SUBSET Path : paths = job[j].paths \cup {"enriched"}
      BY <1>3 DEF JobRec, Path
    <2>3. PICK w \in JobRec(job[j].todo, job[j].at) :
             w = [job[j] EXCEPT !.phase = "plan", !.paths = paths, !.known = known]
      BY <1>3, <2>1, <2>2 DEF JobRec, Phases
    <2>4. w.phase = "plan" /\ w.run = r /\ w.known = known /\ w.paths = paths
      BY <1>2, <1>3, <2>3 DEF JobRec, Run
    <2>5. job' = [job EXCEPT ![j] = w]
      <3>1. job' = [job EXCEPT ![j].phase = "plan", ![j].paths = paths, ![j].known = known]
        BY <1>3, <1>5, <2>1, <2>2 DEF Inv, Shapes, JobRec
      <3> QED
        BY <2>3, <3>1 DEF Inv, Shapes
    <2>6. /\ job' \in [Jobs -> {job'[k] : k \in Jobs}] /\ \A k \in Jobs : JobOK(k)'
          /\ job'[j] = w /\ \A k \in Jobs \ {j} : job'[k] = job[k]
      BY <2>4, <2>5, JobChanges, RunAssumption DEF Inv
    <2>7. /\ state' \in [Runs -> [status : JobStatus, paths : SUBSET Path]]
          /\ state'[r].paths = known /\ \A s \in Runs \ {r} : state'[s] = state[s]
      <3>1. state[r] \in [status : JobStatus, paths : SUBSET Path]
        BY DEF Inv, Shapes
      <3>2. PICK new \in [status : JobStatus, paths : SUBSET Path] : new = [state[r] EXCEPT !.paths = known]
        BY <3>1
      <3>3. new.paths = known
        BY <3>1, <3>2
      <3>4. state' = [state EXCEPT ![r] = new]
        BY <1>5, <2>1, <3>2 DEF Inv, Shapes
      <3> QED
        BY <3>3, <3>4 DEF Inv, Shapes
    <2>8. /\ enriched' \in [Runs -> {enriched'[s] : s \in Runs}]
          /\ enriched'[r] = made /\ \A s \in Runs \ {r} : enriched'[s] = enriched[s]
      BY <1>5 DEF Inv, Shapes
    <2>9. Shapes'
      <3>1. /\ scan' \in [Runs -> {scan'[s] : s \in Runs}] /\ plan' \in [Runs -> {plan'[s] : s \in Runs}]
            /\ report' \in [Runs -> {report'[s] : s \in Runs}]
            /\ lock' \in [run : Runs \cup {"free", "torn"}, stale : BOOLEAN]
            /\ bared' \subseteq Jobs /\ outdated' \subseteq Runs
        BY <1>1, <1>5 DEF Inv, Shapes, ghosts
      <3> QED
        BY <2>6, <2>7, <2>8, <3>1 DEF Shapes
    <2>10. LockOK'
      BY <1>1, <1>2, <1>5, <2>4, <2>6, LockAside DEF ghosts, Run, Inside
    <2>11. job[j].known = state[r].paths /\ "report" \in job[j].known
      BY <1>1, <1>2, <1>3 DEF HandOK
    <2>12. FilesOK(r)'
      BY <1>1, <1>3, <1>5, <2>1, <2>7, <2>8, <2>11 DEF FilesOK, ghosts
    <2>13. HandOK(j)'
      BY <1>1, <1>2, <1>3, <2>1, <2>2, <2>4, <2>6, <2>7 DEF HandOK, At, Run, Scanning
    <2> QED
      BY <1>1, <1>2, <2>4, <2>6, <2>7, <2>8, <2>9, <2>10, <2>12, <2>13, OneRun DEF ghosts, Run
  <1>6. ASSUME Fails(j), UNCHANGED enriched
        PROVE  Inv'
    BY <1>1, <1>6, FailsInv DEF ghosts
  <1>7. CASE ~job[j].llm \/ Enriched(j)
    BY <1>4, <1>7 DEF ReviewLeads
  <1>8. CASE ~(~job[j].llm \/ Enriched(j))
    <2>1. \A statuses : Enrichment(r, statuses).of = report[r].of
      BY DEF Enrichment
    <2> QED
      BY <1>2, <1>5, <1>6, <1>8, <2>1 DEF ReviewLeads
  <1> QED  BY <1>7, <1>8

LEMMA BuildPlanInv ==
  ASSUME Inv, NEW j \in Jobs, BuildPlan(j)
  PROVE  Inv'
  <1>1. /\ At(j, "plan") /\ UNCHANGED <<scan, report, enriched, ghosts>> /\ Release(j)
        /\ Ends(j, Ending(job[j].at), job[j].paths \cup {"plan"})
        /\ ~At(j, "idle") /\ job[j].phase \in Inside
    BY DEF BuildPlan, At, Inside
  <1>2. PICK r \in Runs : r = Run(j) /\ \A k \in Jobs \ {j} : Run(k) # r
    BY <1>1, OwnRun
  <1>3. /\ job[j] \in JobRec(job[j].todo, job[j].at) /\ HandOK(j) /\ FilesOK(r)
        /\ \A k \in Jobs : Run(k) = r => job[k].phase \notin Scanning
    BY <1>1, <1>2 DEF Inv, Shapes, JobOK, Scanning, At
  <1>4. job'[j].phase = "idle" /\ \A k \in Jobs \ {j} : job'[k] = job[k]
    BY <1>1, NoJobType DEF Ends, Inv, Shapes
  <1>5. LockOK' /\ lock' \in [run : Runs \cup {"free", "torn"}, stale : BOOLEAN]
    BY <1>1, <1>4, LockReleased DEF ghosts
  <1>6. /\ plan' \in [Runs -> {plan'[s] : s \in Runs}] /\ report' \in [Runs -> {report'[s] : s \in Runs}]
        /\ \A s \in Runs : report'[s] = report[s]
        /\ UNCHANGED <<scan, enriched, bared>> /\ outdated' = outdated
    BY <1>1 DEF BuildPlan, Inv, Shapes, ghosts
  <1>7. Ending(job[j].at) \in JobStatus /\ job[j].paths \cup {"plan"} \in SUBSET Path
    BY <1>3 DEF Ending, JobStatus, JobRec, Path
  <1>8. job[j].paths \subseteq state[r].paths /\ "report" \in job[j].paths
    BY <1>1, <1>2, <1>3 DEF HandOK, At
  <1>9. /\ "report" \in job[j].paths \cup {"plan"}
        /\ r \notin outdated => report'[r].of = scan[r].comments
        /\ r \notin outdated /\ "enriched" \in job[j].paths \cup {"plan"} => enriched[r].of = scan[r].comments
    BY <1>3, <1>6, <1>8 DEF FilesOK
  <1> QED
    BY <1>1, <1>2, <1>5, <1>6, <1>7, <1>9, EndedInv

\* A lock left empty belongs to nobody, so it bares all who were at work.
LEMMA CrashInv ==
  ASSUME Inv, NEW j \in Jobs, Crash(j)
  PROVE  Inv'
  <1>1. /\ ~At(j, "idle") /\ job' = [job EXCEPT ![j] = NoJob] /\ UNCHANGED files
        /\ bared' = IF lock' # lock THEN bared \cup Others(j) ELSE bared
        /\ lock' \in {lock, Torn}
    BY DEF Crash
  <1>2. job'[j].phase = "idle" /\ \A k \in Jobs \ {j} : job'[k] = job[k]
    BY <1>1, NoJobType DEF Inv, Shapes
  <1>3. lock' \in [run : Runs \cup {"free", "torn"}, stale : BOOLEAN] /\ bared' \subseteq Jobs
    <2>1. Torn \in [run : Runs \cup {"free", "torn"}, stale : BOOLEAN]
      BY DEF Torn
    <2>2. Others(j) \subseteq Jobs
      BY DEF Others
    <2> QED
      BY <1>1, <2>1, <2>2 DEF Inv, Shapes
  <1>4. LockOK'
    BY <1>1, <1>2 DEF Inv, LockOK, Others, Run, Inside
  <1>5. /\ outdated' = outdated \/ outdated' = outdated \cup {Run(j)}
        /\ job[j].phase \in Scanning /\ "report" \in state[Run(j)].paths => Run(j) \in outdated'
    BY DEF Crash, Scanning
  <1> QED
    BY <1>1, <1>3, <1>4, <1>5, DroppedInv

-----------------------------------------------------------------------------
(* The theorems.                                                           *)

LEMMA InvInit == Init => Inv
  <1> SUFFICES ASSUME Init PROVE Inv
    OBVIOUS
  <1>1. \A j \in Jobs : job[j] = NoJob
    BY DEF Init
  <1>2. \A j \in Jobs : JobOK(j)
    BY <1>1, NoJobType DEF JobOK, At, Run
  <1>3. Shapes
    BY <1>2 DEF Init, Shapes, Free, JobStatus
  <1>4. RunsApart /\ LockOK /\ \A j \in Jobs : HandOK(j)
    BY <1>1, NoJobType DEF RunsApart, LockOK, HandOK, At, Run, Inside
  <1>5. \A r \in Runs : FilesOK(r)
    BY DEF Init, FilesOK
  <1> QED
    BY <1>3, <1>4, <1>5 DEF Inv

LEMMA InvStep == Inv /\ [Next]_vars => Inv'
  <1> SUFFICES ASSUME Inv, [Next]_vars PROVE Inv'
    OBVIOUS
  <1>1. CASE Expire
    BY <1>1, ExpireInv
  <1>2. ASSUME NEW j \in Jobs, NEW r \in Runs, NEW llm \in BOOLEAN, Start(j, r, llm)
        PROVE  Inv'
    BY <1>2, StartInv
  <1>3. ASSUME NEW j \in Jobs, \/ Look(j) \/ Unlink(j) \/ Take(j) \/ Health(j)
                               \/ Search(j) \/ ScanContent(j) \/ WriteResult(j)
                               \/ WriteReport(j) \/ ReviewLeads(j) \/ BuildPlan(j) \/ Crash(j)
        PROVE  Inv'
    BY <1>3, LookInv, UnlinkInv, TakeInv, HealthInv, SearchInv, ScanContentInv, WriteResultInv,
       WriteReportInv, ReviewLeadsInv, BuildPlanInv, CrashInv
  <1>4. CASE UNCHANGED vars
    <2>1. UNCHANGED <<lock, state, scan, report, enriched, plan, job, bared, outdated>>
      BY <1>4 DEF vars, files, ghosts
    <2>2. Shapes' /\ RunsApart' /\ LockOK'
      BY <2>1 DEF Inv, Shapes, JobOK, RunsApart, LockOK, At, Run
    <2>3. (\A r \in Runs : FilesOK(r)') /\ \A j \in Jobs : HandOK(j)'
      BY <2>1 DEF Inv, FilesOK, HandOK, At, Run
    <2> QED
      BY <2>2, <2>3 DEF Inv
  <1> QED
    BY <1>1, <1>2, <1>3, <1>4 DEF Next

LEMMA InvHolds == Spec => []Inv
  BY InvInit, InvStep, PTL DEF Spec

\* The lock keeps the jobs of a host apart: at most one of those whose lock was not
\* taken from them is at work, whatever jobs start, die or find the lock too old.
THEOREM OneJobAlways == Spec => []OneJobAtATime
  <1>1. Inv => OneJobAtATime
    <2> SUFFICES ASSUME Inv PROVE OneJobAtATime
      OBVIOUS
    <2> DEFINE working == {j \in Jobs \ bared : job[j].phase \in Inside}
    <2>1. ASSUME NEW j \in working, NEW k \in working
          PROVE  j = k
      <3>1. Run(j) = Run(k) /\ Run(j) \in Runs
        BY OwnRun DEF Inv, LockOK, At, Inside
      <3> QED
        BY <3>1, RunAssumption DEF Inv, RunsApart
    <2>2. CASE working = {}
      BY <2>2, FS_EmptySet DEF OneJobAtATime
    <2>3. CASE working # {}
      <3>1. PICK j : working = {j}
        BY <2>1, <2>3
      <3>2. Cardinality(working) = 1
        BY <3>1, FS_Singleton
      <3> QED
        BY <3>2 DEF OneJobAtATime
    <2> QED  BY <2>2, <2>3
  <1> QED
    BY <1>1, InvHolds, PTL

\* A plan is made of all the comments of its run's scan, which did not fail, unless the
\* report or the review it was made of is known to be older than the scan.
THEOREM PlansRestOnScans == Spec => PlanRestsOnScan
  <1>1. ASSUME Inv, NEW r \in Runs, NEW j \in Jobs, BuildPlan(j), plan'[r] # plan[r]
        PROVE  /\ r \notin outdated => plan'[r].of = scan[r].comments
               /\ scan[r].status # "failed"
    <2>1. At(j, "plan") /\ plan' = [plan EXCEPT ![Run(j)] = Planned(Run(j), job[j].llm)]
      BY <1>1 DEF BuildPlan
    <2>2. r = Run(j)
      BY <1>1, <2>1 DEF Inv, Shapes
    <2>3. \A k \in Jobs \ {j} : Run(k) # r
      BY <1>1, <2>1, <2>2, OwnRun DEF At
    <2>4. HandOK(j) /\ FilesOK(r) /\ \A k \in Jobs : Run(k) = r => job[k].phase \notin Scanning
      BY <1>1, <2>1, <2>2, <2>3 DEF Inv, Scanning, At
    <2>5. /\ job[j].paths \subseteq state[r].paths /\ "report" \in job[j].paths
          /\ job[j].llm => "enriched" \in state[r].paths
          /\ scan[r].status # "failed"
      BY <2>1, <2>2, <2>4 DEF HandOK, At
    <2>6. plan'[r].of = IF job[j].llm THEN enriched[r].of ELSE report[r].of
      BY <1>1, <2>1, <2>2 DEF Planned, Inv, Shapes
    <2> QED
      BY <2>4, <2>5, <2>6 DEF FilesOK
  <1>2. ASSUME Inv, [Next]_vars
        PROVE  UNCHANGED plan \/ \E j \in Jobs : BuildPlan(j)
    BY <1>2 DEF Next, vars, files, Expire, Start, Look, Unlink, Take, Health, Search, ScanContent,
       WriteResult, WriteReport, ReviewLeads, Crash
  <1>3. Inv /\ [Next]_vars => [PlanIsCurrent /\ FailedScanNotPlanned]_vars
    <2> SUFFICES ASSUME Inv, [Next]_vars PROVE PlanIsCurrent /\ FailedScanNotPlanned
      OBVIOUS
    <2> QED
      BY <1>1, <1>2 DEF PlanIsCurrent, FailedScanNotPlanned
  <1> QED
    BY <1>3, InvHolds, PTL DEF Spec, PlanRestsOnScan

\* Induction over the naturals, for a set.
LEMMA NatsIn ==
  ASSUME NEW S, 0 \in S, \A k \in Nat : k \in S => k + 1 \in S
  PROVE  Nat \subseteq S
  <1> SUFFICES ASSUME NEW z \in Nat \ S PROVE FALSE
    OBVIOUS
  <1> DEFINE T == {1..k : k \in Nat \ S}
  <1>1. /\ T \subseteq FiniteSubsetsOf(Nat) /\ T # {}
    <2>1. T # {}
      OBVIOUS
    <2>2. ASSUME NEW k \in Nat \ S PROVE 1..k \in FiniteSubsetsOf(Nat)
      <3>1. 1..k \in SUBSET Nat
        OBVIOUS
      <3>2. IsFiniteSet(1..k)
        BY FS_Interval
      <3> QED  BY <3>1, <3>2 DEF FiniteSubsetsOf
    <2> QED  BY <2>1, <2>2
  <1>2. PICK x \in T : \A y \in T : ~(<<y, x>> \in StrictSubsetOrdering(Nat))
    <2> HIDE DEF T
    <2> QED  BY <1>1, FS_StrictSubsetOrderingWellFounded, WFMin
  <1>3. PICK k \in Nat \ S : x = 1..k
    OBVIOUS
  <1>4. k - 1 \in Nat \ S
    BY <1>3
  <1>5. 1..(k - 1) \in T
    BY <1>4
  <1>6. <<1..(k - 1), 1..k>> \in StrictSubsetOrdering(Nat)
    <2>1. 1..(k - 1) \subseteq 1..k /\ k \in 1..k /\ k \notin 1..(k - 1)
      BY <1>4
    <2>2. 1..(k - 1) \in SUBSET Nat /\ 1..k \in SUBSET Nat
      BY <1>4
    <2> DEFINE p == <<1..(k - 1), 1..k>>
    <2>3. p \in (SUBSET Nat) \X (SUBSET Nat) /\ p[1] \subseteq p[2] /\ p[1] # p[2]
      BY <2>1, <2>2
    <2> QED  BY <2>3 DEF StrictSubsetOrdering
  <1> QED
    BY <1>2, <1>3, <1>5, <1>6

\* The fold of R over 1..n.
IsFold(f, n, base, R) ==
  f = [s \in SUBSET (1..n) |-> IF s = {} THEN base ELSE R[<<f[s \ {Max(s)}], Max(s)>>]]

\* The greatest of the first k + 1 numbers, if it is among them.
LEMMA MaxIs ==
  ASSUME NEW k \in Nat, NEW s \in SUBSET (1..(k + 1)), k + 1 \in s
  PROVE  Max(s) = k + 1
  <1>1. k + 1 \in s /\ \A y \in s : k + 1 >= y
    OBVIOUS
  <1>2. \A x \in s : (\A y \in s : x >= y) => x = k + 1
    OBVIOUS
  <1> QED
    BY <1>1, <1>2 DEF Max

\* A set of the first numbers has a greatest.
LEMMA MaxIn ==
  ASSUME NEW n \in Nat, NEW s \in SUBSET (1..n), s # {}
  PROVE  Max(s) \in s
  <1> DEFINE S == {k \in Nat : \A t \in SUBSET (1..k) : t # {} => Max(t) \in t}
  <1>1. 0 \in S
    <2>1. \A t \in SUBSET (1..0) : t = {}
      OBVIOUS
    <2> QED  BY <2>1
  <1>2. ASSUME NEW k \in Nat, k \in S
        PROVE  k + 1 \in S
    <2> SUFFICES ASSUME NEW t \in SUBSET (1..(k + 1)), t # {}
                 PROVE  Max(t) \in t
      OBVIOUS
    <2>1. CASE k + 1 \in t
      BY <2>1, MaxIs
    <2>2. CASE k + 1 \notin t
      BY <1>2, <2>2
    <2> QED  BY <2>1, <2>2
  <1> HIDE DEF S
  <1>3. n \in S
    BY <1>1, <1>2, NatsIn
  <1> QED
    BY <1>3 DEF S

\* A step that stays in X has a fold, which stays in X.
LEMMA FoldGives ==
  ASSUME NEW n \in Nat, NEW X, NEW base \in X, NEW R \in [X \X (1..n) -> X]
  PROVE  \E f \in [SUBSET (1..n) -> X] : IsFold(f, n, base, R)
  <1> DEFINE P(k) == \E f \in [SUBSET (1..k) -> X] : IsFold(f, k, base, R)
             S == {k \in Nat : k <= n => P(k)}
  <1>1. 0 \in S
    <2> DEFINE f == [s \in SUBSET (1..0) |-> base]
    <2>1. SUBSET (1..0) = {{}}
      OBVIOUS
    <2>2. IsFold(f, 0, base, R) /\ f \in [SUBSET (1..0) -> X]
      BY <2>1 DEF IsFold
    <2> QED  BY <2>2
  <1>2. ASSUME NEW k \in Nat, k \in S
        PROVE  k + 1 \in S
    <2> SUFFICES ASSUME k + 1 <= n
                 PROVE  P(k + 1)
      <3> HIDE DEF P
      <3> QED  OBVIOUS
    <2>0. P(k)
      <3> HIDE DEF P
      <3> QED  BY <1>2
    <2>1. PICK g \in [SUBSET (1..k) -> X] : IsFold(g, k, base, R)
      BY <2>0
    <2> DEFINE f == [s \in SUBSET (1..(k + 1)) |->
                       IF k + 1 \in s THEN R[<<g[s \ {k + 1}], k + 1>>] ELSE g[s]]
    <2>2. f \in [SUBSET (1..(k + 1)) -> X]
      <3>1. ASSUME NEW s \in SUBSET (1..(k + 1))
            PROVE  f[s] \in X
        <4>1. s \ {k + 1} \in SUBSET (1..k) /\ k + 1 \in 1..n
          OBVIOUS
        <4>2. CASE k + 1 \in s
          <5>1. <<g[s \ {k + 1}], k + 1>> \in X \X (1..n)
            BY <4>1
          <5> QED  BY <4>2, <5>1
        <4>3. CASE k + 1 \notin s
          BY <4>1, <4>3
        <4> QED  BY <4>2, <4>3
      <3> QED  BY <3>1
    <2>3. ASSUME NEW s \in SUBSET (1..(k + 1))
          PROVE  f[s] = IF s = {} THEN base ELSE R[<<f[s \ {Max(s)}], Max(s)>>]
      <3>1. CASE k + 1 \in s
        <4>1. Max(s) = k + 1
          BY <3>1, MaxIs
        <4>2. s \ {k + 1} \in SUBSET (1..(k + 1)) /\ k + 1 \notin s \ {k + 1}
          OBVIOUS
        <4>3. f[s \ {k + 1}] = g[s \ {k + 1}]
          BY <4>2
        <4> QED
          BY <3>1, <4>1, <4>3
      <3>2. CASE k + 1 \notin s
        <4>1. s \in SUBSET (1..k)
          BY <3>2
        <4>2. f[s] = g[s]
          BY <3>2
        <4>3. g[s] = IF s = {} THEN base ELSE R[<<g[s \ {Max(s)}], Max(s)>>]
          BY <2>1, <4>1 DEF IsFold
        <4>4. s \ {Max(s)} \in SUBSET (1..(k + 1)) /\ k + 1 \notin s \ {Max(s)}
          BY <3>2
        <4>5. f[s \ {Max(s)}] = g[s \ {Max(s)}]
          BY <4>4
        <4> QED
          BY <4>2, <4>3, <4>5
      <3> QED
        BY <3>1, <3>2
    <2>4. IsFold(f, k + 1, base, R)
      BY <2>3 DEF IsFold
    <2> QED
      BY <2>2, <2>4
  <1>3. n \in S
    <2> HIDE DEF S
    <2> QED  BY <1>1, <1>2, NatsIn
  <1>4. P(n)
    <2> HIDE DEF P
    <2> QED  BY <1>3
  <1> QED
    BY <1>4

\* A function that goes by R as long as it stays in X does stay there; and what is so
\* before and after every step of R is so at the end.
LEMMA FoldThrough ==
  ASSUME NEW n \in Nat, NEW X, NEW R \in [X \X (1..n) -> X], NEW g, g[{}] \in X,
         \A s \in SUBSET (1..n) : s # {} /\ g[s \ {Max(s)}] \in X
                                    => g[s] = R[<<g[s \ {Max(s)}], Max(s)>>],
         NEW Y, g[{}] \in Y[0],
         \A k \in 0..(n - 1) : \A x \in X : x \in Y[k] => R[<<x, k + 1>>] \in Y[k + 1]
  PROVE  g[1..n] \in X /\ g[1..n] \in Y[n]
  <1> DEFINE S == {k \in Nat : k <= n => g[1..k] \in X /\ g[1..k] \in Y[k]}
  <1>1. 0 \in S
    <2>1. 1..0 = {}
      OBVIOUS
    <2> QED  BY <2>1
  <1>2. ASSUME NEW k \in Nat, k \in S
        PROVE  k + 1 \in S
    <2>1. CASE k + 1 <= n
      <3>1. k \in 0..(n - 1) /\ g[1..k] \in X /\ g[1..k] \in Y[k]
        BY <1>2, <2>1
      <3>2. 1..(k + 1) \in SUBSET (1..n) /\ 1..(k + 1) # {} /\ (1..(k + 1)) \ {k + 1} = 1..k
        BY <2>1
      <3>3. Max(1..(k + 1)) = k + 1
        BY MaxIs
      <3>4. g[1..(k + 1)] = R[<<g[1..k], k + 1>>]
        BY <3>1, <3>2, <3>3
      <3>5. <<g[1..k], k + 1>> \in X \X (1..n)
        BY <2>1, <3>1
      <3>6. g[1..(k + 1)] \in X /\ g[1..(k + 1)] \in Y[k + 1]
        BY <3>1, <3>4, <3>5
      <3> QED  BY <3>6
    <2>2. CASE ~(k + 1 <= n)
      BY <2>2
    <2> QED  BY <2>1, <2>2
  <1>3. n \in S
    <2> HIDE DEF S
    <2> QED  BY <1>1, <1>2, NatsIn
  <1> QED
    BY <1>3

\* The same for X alone.
LEMMA FoldIs ==
  ASSUME NEW n \in Nat, NEW X, NEW R \in [X \X (1..n) -> X], NEW g, g[{}] \in X,
         \A s \in SUBSET (1..n) : s # {} /\ g[s \ {Max(s)}] \in X
                                    => g[s] = R[<<g[s \ {Max(s)}], Max(s)>>]
  PROVE  g[1..n] \in X
  <1> DEFINE Y == [k \in 0..n |-> X]
  <1>1. g[{}] \in Y[0]
    OBVIOUS
  <1>2. \A k \in 0..(n - 1) : \A x \in X : x \in Y[k] => R[<<x, k + 1>>] \in Y[k + 1]
    <2> SUFFICES ASSUME NEW k \in 0..(n - 1), NEW x \in X
                 PROVE  R[<<x, k + 1>>] \in Y[k + 1]
      OBVIOUS
    <2>1. <<x, k + 1>> \in X \X (1..n) /\ k + 1 \in 0..n
      OBVIOUS
    <2> QED  BY <2>1
  <1> HIDE DEF Y
  <1> QED
    BY <1>1, <1>2, FoldThrough, Zenon

\* Appending what is not there.
LEMMA AppendApart ==
  ASSUME NEW T, NEW l \in Seq(T), NEW x \in T, x \notin ToSet(l), IsInjective(l)
  PROVE  IsInjective(Append(l, x)) /\ ToSet(Append(l, x)) = ToSet(l) \cup {x} /\ Append(l, x) \in Seq(T)
  <1> DEFINE m == Append(l, x)
  <1>1. /\ m \in Seq(T) /\ DOMAIN m = 1..(Len(l) + 1) /\ m[Len(l) + 1] = x /\ Len(l) \in Nat
        /\ \A i \in 1..Len(l) : m[i] = l[i] /\ DOMAIN l = 1..Len(l)
    OBVIOUS
  <1> HIDE DEF m
  <1>2. ASSUME NEW i \in DOMAIN m, NEW j \in DOMAIN m, m[i] = m[j]
        PROVE  i = j
    <2>1. CASE i = Len(l) + 1 /\ j # Len(l) + 1
      BY <1>1, <1>2, <2>1 DEF ToSet
    <2>2. CASE j = Len(l) + 1 /\ i # Len(l) + 1
      BY <1>1, <1>2, <2>2 DEF ToSet
    <2>3. CASE i # Len(l) + 1 /\ j # Len(l) + 1
      BY <1>1, <1>2, <2>3 DEF IsInjective
    <2> QED  BY <2>1, <2>2, <2>3
  <1>3. IsInjective(m)
    BY <1>2 DEF IsInjective
  <1>4. ToSet(m) = ToSet(l) \cup {x}
    BY <1>1 DEF ToSet
  <1> QED
    BY <1>1, <1>3, <1>4 DEF m

-----------------------------------------------------------------------------
(* What a scan reads of a page, and what it finds.                        *)

\* What is read of the nodes of a content are comments.
ReadOf(c) == {ReadNode(c, n) : n \in {m \in Range(Page[c]) : IsComment(m)}}

\* What is read of a node is a comment.
LEMMA ReadIsComment ==
  ASSUME NEW c \in Contents, NEW e \in ReadOf(c)
  PROVE  e.fp \in Comments
  <1>1. PICK n \in Range(Page[c]) : IsComment(n) /\ e = ReadNode(c, n)
    BY DEF ReadOf
  <1>2. e.fp = Fingerprint(c, n)
    BY <1>1 DEF ReadNode
  <1> QED
    BY <1>1, <1>2 DEF Comments

\* extract_comments returns what was read of nodes of that page.
LEMMA ExtractIs ==
  ASSUME NEW c \in Contents, NEW nodes \in Seq(Range(Page[c]))
  PROVE  Extract(c, nodes) \in Seq(ReadOf(c))
  <1> DEFINE n == Len(nodes)
             X == Seq(ReadOf(c))
             Step(l, e) == IF IsComment(e) THEN Keep(l, ReadNode(c, e)) ELSE l
             R == [p \in X \X (1..n) |-> Step(p[1], nodes[p[2]])]
  <1>1. n \in Nat /\ DOMAIN nodes = 1..n /\ \A i \in 1..n : nodes[i] \in Range(Page[c])
    OBVIOUS
  <1>2. <<>> \in X
    OBVIOUS
  <1>3. ASSUME NEW l \in X, NEW e \in Range(Page[c])
        PROVE  Step(l, e) \in X
    <2>1. CASE IsComment(e)
      <3>1. ReadNode(c, e) \in ReadOf(c)
        BY <2>1 DEF ReadOf
      <3>2. PICK r \in ReadOf(c) : r = ReadNode(c, e)
        BY <3>1
      <3>3. Keep(l, r) \in Seq(ReadOf(c))
        <4>1. /\ Len(l) \in Nat /\ DOMAIN l = 1..Len(l) /\ \A i \in DOMAIN l : l[i] \in ReadOf(c)
              /\ Append(l, r) \in Seq(ReadOf(c))
          OBVIOUS
        <4>2. ASSUME NEW same
              PROVE  [i \in DOMAIN l |-> IF i \in same /\ r.noise < l[i].noise THEN r ELSE l[i]] \in Seq(ReadOf(c))
          BY <4>1
        <4> QED
          BY <4>1, <4>2 DEF Keep
      <3> QED
        BY <2>1, <3>2, <3>3
    <2> QED  BY <2>1
  <1>4. R \in [X \X (1..n) -> X] /\ \A l \in X, i \in 1..n : R[<<l, i>>] = Step(l, nodes[i])
    <2> HIDE DEF X, Step
    <2> QED  BY <1>1, <1>3
  <1>5. PICK f \in [SUBSET (1..n) -> X] : IsFold(f, n, <<>>, R)
    <2> HIDE DEF X, R
    <2> QED  BY <1>1, <1>2, <1>4, FoldGives
  <1> DEFINE G(h) == [s \in SUBSET DOMAIN nodes |->
                        IF s = {} THEN <<>> ELSE Step(h[s \ {Max(s)}], nodes[Max(s)])]
             g == CHOOSE h : h = G(h)
  <1>6. f = G(f)
    <2> HIDE DEF X, R, Step
    <2>1. ASSUME NEW s \in SUBSET (1..n), s # {}
          PROVE  f[s] = Step(f[s \ {Max(s)}], nodes[Max(s)])
      <3>1. Max(s) \in 1..n /\ f[s \ {Max(s)}] \in X
        BY <1>1, <2>1, MaxIn
      <3>2. f[s] = R[<<f[s \ {Max(s)}], Max(s)>>]
        BY <1>5, <2>1 DEF IsFold
      <3> QED
        BY <3>1, <3>2, <1>4
    <2> QED
      BY <1>1, <1>5, <2>1 DEF IsFold
  <1>7. g = G(g)
    <2> HIDE DEF G
    <2> QED  BY <1>6
  <1>8. g[1..n] \in X
    <2>1. ASSUME NEW s \in SUBSET (1..n), s # {}, g[s \ {Max(s)}] \in X
          PROVE  g[s] = R[<<g[s \ {Max(s)}], Max(s)>>]
      <3> HIDE DEF X, R, Step, g
      <3>1. Max(s) \in 1..n
        BY <1>1, <2>1, MaxIn
      <3>2. g[s] = Step(g[s \ {Max(s)}], nodes[Max(s)])
        BY <1>1, <1>7, <2>1
      <3> QED
        BY <2>1, <3>1, <3>2, <1>4
    <2> HIDE DEF X, R, g
    <2>2. \A s \in SUBSET (1..n) : s # {} /\ g[s \ {Max(s)}] \in X
                                    => g[s] = R[<<g[s \ {Max(s)}], Max(s)>>]
      BY <2>1
    <2>3. g[{}] = <<>> /\ g[{}] \in X /\ R \in [X \X (1..n) -> X]
      BY <1>2, <1>4, <1>7
    <2>4. n \in Nat
      BY <1>1
    <2> HIDE DEF n
    <2> QED
      BY <2>2, <2>3, <2>4, FoldIs, Zenon
  <1>9. Extract(c, nodes) = g[1..n]
    BY <1>1 DEF Extract, FoldLeft, MapThenFoldSet
  <1> QED
    BY <1>8, <1>9

\* No comment twice, and none that is known.
LEMMA FreshIs ==
  ASSUME NEW read, \A e \in read : e.fp \in Comments,
         NEW comments \in Seq(Comments), NEW extracted \in Seq(read)
  PROVE  /\ Fresh(comments, extracted) \in Seq(Comments) /\ IsInjective(Fresh(comments, extracted))
         /\ ToSet(Fresh(comments, extracted)) \cap ToSet(comments) = {}
  <1> DEFINE n == Len(extracted)
             X == {l \in Seq(Comments) : IsInjective(l) /\ ToSet(l) \cap ToSet(comments) = {}}
             Step(l, e) == IF e.fp \in ToSet(comments) \cup ToSet(l) THEN l ELSE Append(l, e.fp)
             R == [p \in X \X (1..n) |-> Step(p[1], extracted[p[2]])]
  <1>1. n \in Nat /\ DOMAIN extracted = 1..n /\ \A i \in 1..n : extracted[i] \in read
    OBVIOUS
  <1>2. <<>> \in X
    BY DEF IsInjective, ToSet
  <1>3. ASSUME NEW l \in X, NEW e \in read
        PROVE  Step(l, e) \in X
    <2>1. CASE e.fp \notin ToSet(comments) \cup ToSet(l)
      <3>1. /\ Append(l, e.fp) \in Seq(Comments) /\ IsInjective(Append(l, e.fp))
            /\ ToSet(Append(l, e.fp)) = ToSet(l) \cup {e.fp}
        BY <2>1, AppendApart
      <3> QED
        BY <2>1, <3>1
    <2> QED  BY <2>1
  <1>4. R \in [X \X (1..n) -> X] /\ \A l \in X, i \in 1..n : R[<<l, i>>] = Step(l, extracted[i])
    <2> HIDE DEF X, Step
    <2> QED  BY <1>1, <1>3
  <1>5. PICK f \in [SUBSET (1..n) -> X] : IsFold(f, n, <<>>, R)
    <2> HIDE DEF X, R
    <2> QED  BY <1>1, <1>2, <1>4, FoldGives
  <1> DEFINE G(h) == [s \in SUBSET DOMAIN extracted |->
                        IF s = {} THEN <<>> ELSE Step(h[s \ {Max(s)}], extracted[Max(s)])]
             g == CHOOSE h : h = G(h)
  <1>6. f = G(f)
    <2> HIDE DEF X, R, Step
    <2>1. ASSUME NEW s \in SUBSET (1..n), s # {}
          PROVE  f[s] = Step(f[s \ {Max(s)}], extracted[Max(s)])
      <3>1. Max(s) \in 1..n /\ f[s \ {Max(s)}] \in X
        BY <1>1, <2>1, MaxIn
      <3>2. f[s] = R[<<f[s \ {Max(s)}], Max(s)>>]
        BY <1>5, <2>1 DEF IsFold
      <3> QED
        BY <3>1, <3>2, <1>4
    <2> QED
      BY <1>1, <1>5, <2>1 DEF IsFold
  <1>7. g = G(g)
    <2> HIDE DEF G
    <2> QED  BY <1>6
  <1>8. g[1..n] \in X
    <2>1. ASSUME NEW s \in SUBSET (1..n), s # {}, g[s \ {Max(s)}] \in X
          PROVE  g[s] = R[<<g[s \ {Max(s)}], Max(s)>>]
      <3> HIDE DEF X, R, Step, g
      <3>1. Max(s) \in 1..n
        BY <1>1, <2>1, MaxIn
      <3>2. g[s] = Step(g[s \ {Max(s)}], extracted[Max(s)])
        BY <1>1, <1>7, <2>1
      <3> QED
        BY <2>1, <3>1, <3>2, <1>4
    <2> HIDE DEF X, R, g
    <2>2. \A s \in SUBSET (1..n) : s # {} /\ g[s \ {Max(s)}] \in X
                                    => g[s] = R[<<g[s \ {Max(s)}], Max(s)>>]
      BY <2>1
    <2>3. g[{}] = <<>> /\ g[{}] \in X /\ R \in [X \X (1..n) -> X]
      BY <1>2, <1>4, <1>7
    <2>4. n \in Nat
      BY <1>1
    <2> HIDE DEF n
    <2> QED
      BY <2>2, <2>3, <2>4, FoldIs, Zenon
  <1>9. Fresh(comments, extracted) = g[1..n]
    BY <1>1 DEF Fresh, FoldLeft, MapThenFoldSet
  <1> QED
    BY <1>8, <1>9

-----------------------------------------------------------------------------
(* What a scan finds, expands and merges.                                 *)

\* A search finds contents, link by link, screen by screen.
LEMMA TakeAnchorIs ==
  ASSUME NEW found \in Seq(Contents), NEW a \in Anchor
  PROVE  TakeAnchor(found, a) \in Seq(Contents)
  <1>1. IsCandidate(a) => a.url \in Contents
    BY DEF IsCandidate, Anchor
  <1> QED
    BY <1>1 DEF TakeAnchor

LEMMA TakeScreenIs ==
  ASSUME NEW found \in Seq(Contents), NEW screen \in Seq(Anchor), NEW loaded
  PROVE  TakeScreen(found, screen, loaded) \in Seq(Contents)
  <1> DEFINE n == Len(screen)
             X == Seq(Contents)
             Step(l, e) == IF e \in loaded THEN TakeAnchor(l, e) ELSE l
             R == [p \in X \X (1..n) |-> Step(p[1], screen[p[2]])]
  <1>1. n \in Nat /\ DOMAIN screen = 1..n /\ \A i \in 1..n : screen[i] \in Anchor
    OBVIOUS
  <1>2. found \in X
    OBVIOUS
  <1>3. ASSUME NEW l \in X, NEW e \in Anchor
        PROVE  Step(l, e) \in X
    BY TakeAnchorIs
  <1>4. R \in [X \X (1..n) -> X] /\ \A l \in X, i \in 1..n : R[<<l, i>>] = Step(l, screen[i])
    <2> HIDE DEF X, Step
    <2> QED  BY <1>1, <1>3
  <1>5. PICK f \in [SUBSET (1..n) -> X] : IsFold(f, n, found, R)
    <2> HIDE DEF X, R
    <2> QED  BY <1>1, <1>2, <1>4, FoldGives
  <1> DEFINE G(h) == [s \in SUBSET DOMAIN screen |->
                        IF s = {} THEN found ELSE Step(h[s \ {Max(s)}], screen[Max(s)])]
             g == CHOOSE h : h = G(h)
  <1>6. f = G(f)
    <2> HIDE DEF X, R, Step
    <2>1. ASSUME NEW s \in SUBSET (1..n), s # {}
          PROVE  f[s] = Step(f[s \ {Max(s)}], screen[Max(s)])
      <3>1. Max(s) \in 1..n /\ f[s \ {Max(s)}] \in X
        BY <1>1, <2>1, MaxIn
      <3>2. f[s] = R[<<f[s \ {Max(s)}], Max(s)>>]
        BY <1>5, <2>1 DEF IsFold
      <3> QED
        BY <3>1, <3>2, <1>4
    <2> QED
      BY <1>1, <1>5, <2>1 DEF IsFold
  <1>7. g = G(g)
    <2> HIDE DEF G
    <2> QED  BY <1>6
  <1>8. g[1..n] \in X
    <2>1. ASSUME NEW s \in SUBSET (1..n), s # {}, g[s \ {Max(s)}] \in X
          PROVE  g[s] = R[<<g[s \ {Max(s)}], Max(s)>>]
      <3> HIDE DEF X, R, Step, g
      <3>1. Max(s) \in 1..n
        BY <1>1, <2>1, MaxIn
      <3>2. g[s] = Step(g[s \ {Max(s)}], screen[Max(s)])
        BY <1>1, <1>7, <2>1
      <3> QED
        BY <2>1, <3>1, <3>2, <1>4
    <2> HIDE DEF X, R, g
    <2>2. \A s \in SUBSET (1..n) : s # {} /\ g[s \ {Max(s)}] \in X
                                    => g[s] = R[<<g[s \ {Max(s)}], Max(s)>>]
      BY <2>1
    <2>3. g[{}] = found /\ g[{}] \in X /\ R \in [X \X (1..n) -> X]
      BY <1>2, <1>4, <1>7
    <2>4. n \in Nat
      BY <1>1
    <2> HIDE DEF n
    <2> QED
      BY <2>2, <2>3, <2>4, FoldIs, Zenon
  <1>9. TakeScreen(found, screen, loaded) = g[1..n]
    BY <1>1 DEF TakeScreen, FoldLeft, MapThenFoldSet
  <1> QED
    BY <1>8, <1>9

LEMMA DiscoverIs ==
  ASSUME NEW m \in Nat, NEW screens \in [1..m -> Seq(Anchor)], NEW loaded
  PROVE  Discover(screens, loaded) \in Seq(Contents)
  <1> DEFINE ks == [k \in DOMAIN screens |-> k]
  <1>0. ks \in Seq(1..m)
    OBVIOUS
  <1> DEFINE n == Len(ks)
             X == Seq(Contents)
             Step(l, e) == TakeScreen(l, screens[e], loaded[e])
             R == [p \in X \X (1..n) |-> Step(p[1], ks[p[2]])]
  <1>1. n \in Nat /\ DOMAIN ks = 1..n /\ \A i \in 1..n : ks[i] \in 1..m
    <2> HIDE DEF ks
    <2> QED  BY <1>0
  <1>2. <<>> \in X
    OBVIOUS
  <1>3. ASSUME NEW l \in X, NEW e \in 1..m
        PROVE  Step(l, e) \in X
    BY TakeScreenIs
  <1>4. R \in [X \X (1..n) -> X] /\ \A l \in X, i \in 1..n : R[<<l, i>>] = Step(l, ks[i])
    <2> HIDE DEF X, Step
    <2> QED  BY <1>1, <1>3
  <1>5. PICK f \in [SUBSET (1..n) -> X] : IsFold(f, n, <<>>, R)
    <2> HIDE DEF X, R
    <2> QED  BY <1>1, <1>2, <1>4, FoldGives
  <1> DEFINE G(h) == [s \in SUBSET DOMAIN ks |->
                        IF s = {} THEN <<>> ELSE Step(h[s \ {Max(s)}], ks[Max(s)])]
             g == CHOOSE h : h = G(h)
  <1>6. f = G(f)
    <2> HIDE DEF X, R, Step
    <2>1. ASSUME NEW s \in SUBSET (1..n), s # {}
          PROVE  f[s] = Step(f[s \ {Max(s)}], ks[Max(s)])
      <3>1. Max(s) \in 1..n /\ f[s \ {Max(s)}] \in X
        BY <1>1, <2>1, MaxIn
      <3>2. f[s] = R[<<f[s \ {Max(s)}], Max(s)>>]
        BY <1>5, <2>1 DEF IsFold
      <3> QED
        BY <3>1, <3>2, <1>4
    <2> QED
      BY <1>1, <1>5, <2>1 DEF IsFold
  <1>7. g = G(g)
    <2> HIDE DEF G
    <2> QED  BY <1>6
  <1>8. g[1..n] \in X
    <2>1. ASSUME NEW s \in SUBSET (1..n), s # {}, g[s \ {Max(s)}] \in X
          PROVE  g[s] = R[<<g[s \ {Max(s)}], Max(s)>>]
      <3> HIDE DEF X, R, Step, g
      <3>1. Max(s) \in 1..n
        BY <1>1, <2>1, MaxIn
      <3>2. g[s] = Step(g[s \ {Max(s)}], ks[Max(s)])
        BY <1>1, <1>7, <2>1
      <3> QED
        BY <2>1, <3>1, <3>2, <1>4
    <2> HIDE DEF X, R, g
    <2>2. \A s \in SUBSET (1..n) : s # {} /\ g[s \ {Max(s)}] \in X
                                    => g[s] = R[<<g[s \ {Max(s)}], Max(s)>>]
      BY <2>1
    <2>3. g[{}] = <<>> /\ g[{}] \in X /\ R \in [X \X (1..n) -> X]
      BY <1>2, <1>4, <1>7
    <2>4. n \in Nat
      BY <1>1
    <2> HIDE DEF n
    <2> QED
      BY <2>2, <2>3, <2>4, FoldIs, Zenon
  <1>9. Discover(screens, loaded) = g[1..n]
    BY <1>1 DEF Discover, FoldLeftDomain, FoldLeft, MapThenFoldSet
  <1> QED
    BY <1>8, <1>9

LEMMA DiscoveriesAre ==
  ASSUME NEW r \in Runs, NEW found \in Discoveries[r]
  PROVE  found \in Seq(Contents)
  <1>1. Results[r] \in [1..(MaxScrolls + 1) -> Seq(Anchor)] /\ MaxScrolls + 1 \in Nat
    BY SearchAssumption
  <1>2. PICK loaded : found = Discover(Results[r], loaded)
    BY DEF Discoveries
  <1> QED
    BY <1>1, <1>2, DiscoverIs

\* The first n values of a recursion.
AreSteps(f, n, base, H) == \A i \in 0..n : f[i] = IF i = 0 THEN base ELSE H[f[i - 1]]

LEMMA StepsGive ==
  ASSUME NEW n \in Nat, NEW X, NEW base \in X, NEW H \in [X -> X]
  PROVE  \E f \in [0..n -> X] : AreSteps(f, n, base, H)
  <1> DEFINE P(k) == \E f \in [0..k -> X] : AreSteps(f, k, base, H)
             S == {k \in Nat : P(k)}
  <1>1. 0 \in S
    <2> DEFINE f == [i \in 0..0 |-> base]
    <2>1. f \in [0..0 -> X] /\ AreSteps(f, 0, base, H)
      BY DEF AreSteps
    <2>2. P(0)
      BY <2>1
    <2> HIDE DEF P
    <2> QED  BY <2>2
  <1>2. ASSUME NEW k \in Nat, k \in S
        PROVE  k + 1 \in S
    <2>0. P(k)
      <3> HIDE DEF P
      <3> QED  BY <1>2
    <2>1. PICK f \in [0..k -> X] : AreSteps(f, k, base, H)
      BY <2>0
    <2> DEFINE h == [i \in 0..(k + 1) |-> IF i = k + 1 THEN H[f[k]] ELSE f[i]]
    <2>2. h \in [0..(k + 1) -> X]
      OBVIOUS
    <2>3. AreSteps(h, k + 1, base, H)
      BY <2>1 DEF AreSteps
    <2>4. P(k + 1)
      BY <2>2, <2>3
    <2> HIDE DEF P
    <2> QED  BY <2>4
  <1>3. n \in S
    <2> HIDE DEF S
    <2> QED  BY <1>1, <1>2, NatsIn
  <1>4. P(n)
    <2> HIDE DEF P
    <2> QED  BY <1>3
  <1> QED
    BY <1>4

\* A recursion whose steps stay in X stays in X.
LEMMA StepsIn ==
  ASSUME NEW n \in Nat, NEW X, NEW c, c[0] \in X,
         \A i \in 1..n : c[i - 1] \in X => c[i] \in X
  PROVE  c[n] \in X
  <1> DEFINE S == {k \in Nat : k <= n => c[k] \in X}
  <1>1. 0 \in S
    OBVIOUS
  <1>2. ASSUME NEW k \in Nat, k \in S
        PROVE  k + 1 \in S
    <2>1. CASE k + 1 <= n
      <3>1. k + 1 \in 1..n /\ c[(k + 1) - 1] \in X
        BY <1>2, <2>1
      <3> QED  BY <3>1
    <2>2. CASE ~(k + 1 <= n)
      BY <2>2
    <2> QED  BY <2>1, <2>2
  <1>3. n \in S
    <2> HIDE DEF S
    <2> QED  BY <1>1, <1>2, NatsIn
  <1> QED
    BY <1>3

\* What is shown at a time of "total" comments.
Showing(total) == [shown : 0..total, clicks : Nat, idle : Nat]

\* A look, a click and a round of scrolling show no more than is there.
LEMMA WaitedIs ==
  ASSUME NEW total \in Nat, NEW s \in Showing(total), NEW n \in Gains(s, total)
  PROVE  Waited(s, n) \in Showing(total) /\ Waited(s, n).clicks = s.clicks
  <1>1. n \in 0..total
    BY DEF Gains, Showing
  <1>2. PICK idle \in Nat : idle = IF n > s.shown THEN 0 ELSE s.idle + 1
    BY DEF Showing
  <1>3. Waited(s, n) = [s EXCEPT !.shown = n, !.idle = idle]
    BY <1>2 DEF Waited
  <1> QED
    BY <1>1, <1>3 DEF Showing

LEMMA ClickIs ==
  ASSUME NEW total \in Nat, NEW s \in Showing(total)
  PROVE  Click(s, total) \subseteq Showing(total)
  <1>1. [s EXCEPT !.idle = @ + 1] \in Showing(total)
    BY DEF Showing
  <1>2. ASSUME NEW n \in Gains(s, total)
        PROVE  [Waited(s, n) EXCEPT !.clicks = @ + 1] \in Showing(total)
    <2>1. PICK w \in Showing(total) : w = Waited(s, n)
      BY WaitedIs
    <2> QED
      BY <2>1 DEF Showing
  <1> QED
    BY <1>1, <1>2 DEF Click

LEMMA ScrollIs ==
  ASSUME NEW total \in Nat, NEW s \in Showing(total)
  PROVE  Scroll(s, total) \subseteq Showing(total)
  <1>1. ASSUME NEW n \in Gains(s, total)
        PROVE  [Waited(s, n) EXCEPT !.clicks = @ + 1] \in Showing(total)
    <2>1. PICK w \in Showing(total) : w = Waited(s, n)
      BY WaitedIs
    <2> QED
      BY <2>1 DEF Showing
  <1>2. \A w \in ScrolledOnce(s, total) : [w EXCEPT !.clicks = @ + 1] \in Showing(total)
    BY <1>1 DEF ScrolledOnce
  <1> QED
    BY <1>2 DEF Scroll

\* However often the page is clicked and scrolled, no more is read than is there.
LEMMA ExpandedIs ==
  ASSUME NEW total \in Nat
  PROVE  Expanded(total) \subseteq 0..total
  <1> DEFINE n == MaxClicks + Patience * (total + 1)
             X == SUBSET Showing(total)
             A == {Unexpanded(k) : k \in UNION {OpenPanel(m, total) : m \in 0..total}}
             F(c) == [i \in 0..n |-> IF i = 0 THEN A ELSE UNION {Click(s, total) : s \in c[i - 1]}]
             clicked == CHOOSE c : c = F(c)
             B == {Unexpanded(s.shown) : s \in clicked[n]}
             E(S) == UNION {IF s.shown = 0 THEN {s} ELSE Scroll(s, total) : s \in S}
             G(c) == [i \in 0..ScrollRounds |-> IF i = 0 THEN B ELSE E(c[i - 1])]
             scrolled == CHOOSE c : c = G(c)
             D(S) == UNION {Click(s, total) : s \in S}
  <1>1. n \in Nat /\ ScrollRounds \in Nat
    BY ReadLimitAssumption DEF Patience, ScrollRounds
  <1>2. \A k \in 0..total : Unexpanded(k) \in Showing(total)
    BY DEF Unexpanded, Showing
  <1>3. A \in X
    <2>1. \A m \in 0..total : OpenPanel(m, total) \subseteq 0..total
      BY DEF OpenPanel
    <2> QED
      BY <1>2, <2>1
  <1>4. \A S \in X : D(S) \in X
    <2> SUFFICES ASSUME NEW S \in X, NEW s \in S PROVE Click(s, total) \subseteq Showing(total)
      OBVIOUS
    <2> QED  BY ClickIs
  <1>5. \A S \in X : E(S) \in X
    <2> SUFFICES ASSUME NEW S \in X, NEW s \in S
                 PROVE  (IF s.shown = 0 THEN {s} ELSE Scroll(s, total)) \subseteq Showing(total)
      OBVIOUS
    <2> QED  BY ScrollIs
  <1>6. clicked[n] \in X
    <2> DEFINE H == [S \in X |-> D(S)]
    <2>1. H \in [X -> X]
      <3> HIDE DEF X, D
      <3> QED  BY <1>4
    <2>2. PICK f \in [0..n -> X] : AreSteps(f, n, A, H)
      <3> HIDE DEF X, A, H, n
      <3> QED  BY <1>1, <1>3, <2>1, StepsGive, Zenon
    <2>3. f = F(f)
      <3>1. \A S \in X : H[S] = D(S)
        OBVIOUS
      <3>2. \A i \in 0..n : f[i] = IF i = 0 THEN A ELSE D(f[i - 1])
        <4> HIDE DEF X, A, D, H, n
        <4>1. \A i \in 0..n : i # 0 => i - 1 \in 0..n
          BY <1>1
        <4> QED  BY <2>2, <3>1, <4>1 DEF AreSteps
      <3> HIDE DEF X, A
      <3> QED  BY <3>2
    <2>4. clicked = F(clicked)
      <3> HIDE DEF F
      <3> QED  BY <2>3
    <2>5. clicked[0] \in X /\ \A i \in 1..n : clicked[i - 1] \in X => clicked[i] \in X
      <3> HIDE DEF X, A, clicked, n
      <3> QED  BY <1>1, <1>3, <1>4, <2>4
    <2> HIDE DEF X, n, clicked
    <2> QED
      BY <1>1, <2>5, StepsIn
  <1> HIDE DEF clicked
  <1>7. B \in X
    BY <1>2, <1>6 DEF Showing
  <1>8. scrolled[ScrollRounds] \in X
    <2> DEFINE H == [S \in X |-> E(S)]
    <2>1. H \in [X -> X]
      <3> HIDE DEF X, E
      <3> QED  BY <1>5
    <2>2. PICK f \in [0..ScrollRounds -> X] : AreSteps(f, ScrollRounds, B, H)
      <3> HIDE DEF X, B, H
      <3> QED  BY <1>1, <1>7, <2>1, StepsGive, Zenon
    <2>3. f = G(f)
      <3>1. \A S \in X : H[S] = E(S)
        OBVIOUS
      <3>2. \A i \in 0..ScrollRounds : f[i] = IF i = 0 THEN B ELSE E(f[i - 1])
        <4> HIDE DEF X, B, E, H
        <4>1. \A i \in 0..ScrollRounds : i # 0 => i - 1 \in 0..ScrollRounds
          BY <1>1
        <4> QED  BY <2>2, <3>1, <4>1 DEF AreSteps
      <3> HIDE DEF X, B, E
      <3> QED  BY <3>2
    <2>4. scrolled = G(scrolled)
      <3> HIDE DEF G
      <3> QED  BY <2>3
    <2>5. scrolled[0] \in X /\ \A i \in 1..ScrollRounds : scrolled[i - 1] \in X => scrolled[i] \in X
      <3> HIDE DEF X, B, E, scrolled
      <3> QED  BY <1>1, <1>5, <1>7, <2>4
    <2> HIDE DEF X, scrolled
    <2> QED
      BY <1>1, <2>5, StepsIn
  <1>9. Expanded(total) = {s.shown : s \in scrolled[ScrollRounds]}
    BY DEF Expanded, clicked
  <1> HIDE DEF scrolled
  <1> QED
    BY <1>8, <1>9 DEF Showing

\* The nodes that are read of a content.
LEMMA NodesRead ==
  ASSUME NEW c \in Contents, NEW n \in Shown[c]
  PROVE  SubSeq(Page[c], 1, n) \in Seq(Range(Page[c]))
  <1>1. Page[c] \in Seq(Node)
    BY PageAssumption
  <1>2. n \in 0..Len(Page[c])
    BY <1>1, ExpandedIs DEF Shown
  <1>3. Page[c] \in Seq(Range(Page[c]))
    BY <1>1 DEF Range
  <1> QED
    BY <1>2, <1>3

\* A merge adds no more than there is room for, and nothing twice.
LEMMA MergeIs ==
  ASSUME NEW read, \A e \in read : e.fp \in Comments,
         NEW comments \in Seq(Comments), IsInjective(comments), NEW extracted \in Seq(read)
  PROVE  /\ Merge(comments, extracted) \in Seq(Comments) /\ IsInjective(Merge(comments, extracted))
         /\ ToSet(comments) \subseteq ToSet(Merge(comments, extracted))
         /\ Len(Merge(comments, extracted)) <= Len(comments) + Room(comments)
  <1>1. PICK new \in Seq(Comments) :
          new = Fresh(comments, extracted) /\ IsInjective(new) /\ ToSet(new) \cap ToSet(comments) = {}
    BY FreshIs
  <1>2. Room(comments) \in Nat
    BY ReadLimitAssumption DEF Room
  <1>3. PICK k \in 0..Len(new) : k = (IF Len(new) < Room(comments) THEN Len(new) ELSE Room(comments))
                               /\ k <= Room(comments)
    BY <1>2
  <1>4. PICK t \in Seq(Comments) : t = SubSeq(new, 1, k) /\ Len(t) = k /\ \A i \in 1..k : t[i] = new[i]
    <2> DEFINE t == SubSeq(new, 1, k)
    <2>1. t \in Seq(Comments) /\ Len(t) = k
      OBVIOUS
    <2>2. \A i \in 1..k : t[i] = new[i]
      OBVIOUS
    <2> HIDE DEF t
    <2>3. t = SubSeq(new, 1, k)
      BY DEF t
    <2> QED  BY <2>1, <2>2, <2>3
  <1>5. PICK m \in Seq(Comments) :
          /\ m = comments \o t /\ Len(m) = Len(comments) + Len(t)
          /\ \A i \in 1..(Len(comments) + Len(t)) :
               m[i] = IF i <= Len(comments) THEN comments[i] ELSE t[i - Len(comments)]
    <2> DEFINE c == comments \o t
    <2>1. /\ c \in Seq(Comments) /\ Len(c) = Len(comments) + Len(t)
          /\ \A i \in 1..(Len(comments) + Len(t)) :
               c[i] = IF i <= Len(comments) THEN comments[i] ELSE t[i - Len(comments)]
      BY ConcatProperties, Zenon
    <2>2. c = comments \o t
      OBVIOUS
    <2> HIDE DEF c
    <2> QED  BY <2>1, <2>2
  <1>6. Merge(comments, extracted) = m
    BY <1>1, <1>3, <1>4, <1>5 DEF Merge
  <1>7. PICK p \in Nat : p = Len(comments) /\ DOMAIN comments = 1..p
    OBVIOUS
  <1>8. /\ Len(m) = p + k /\ DOMAIN m = 1..(p + k) /\ k \in Nat
        /\ 1..k \subseteq DOMAIN new /\ k <= Room(comments)
    <2>1. DOMAIN new = 1..Len(new) /\ Len(new) \in Nat
      OBVIOUS
    <2>2. k \in Nat /\ k <= Len(new) /\ k <= Room(comments)
      <3>1. k \in Nat
        BY <2>1
      <3>2. k <= Len(new)
        BY <2>1
      <3>3. k <= Room(comments)
        BY <1>3
      <3> QED  BY <3>1, <3>2, <3>3
    <2>3. Len(m) = p + k
      BY <1>4, <1>5, <1>7
    <2>4. DOMAIN m = 1..(p + k)
      BY <2>3
    <2> QED
      BY <2>1, <2>2, <2>3, <2>4
  <1>9. \A i \in DOMAIN m : i <= p => i \in DOMAIN comments /\ m[i] = comments[i]
    BY <1>4, <1>5, <1>7, <1>8
  <1>10. \A i \in DOMAIN m : i > p => i - p \in DOMAIN new /\ m[i] = new[i - p]
    <2> SUFFICES ASSUME NEW i \in DOMAIN m, i > p PROVE i - p \in DOMAIN new /\ m[i] = new[i - p]
      OBVIOUS
    <2>1. i - p \in 1..k /\ ~(i <= p)
      BY <1>7, <1>8
    <2>2. m[i] = t[i - p]
      BY <1>4, <1>5, <1>7, <1>8, <2>1
    <2> QED
      BY <1>4, <1>8, <2>1, <2>2
  <1>11. \A i \in DOMAIN m : (i <= p => m[i] \in ToSet(comments)) /\ (i > p => m[i] \in ToSet(new))
    BY <1>9, <1>10 DEF ToSet
  <1>12. IsInjective(m)
    <2> SUFFICES ASSUME NEW i \in DOMAIN m, NEW j \in DOMAIN m, m[i] = m[j]
                 PROVE  i = j
      BY DEF IsInjective
    <2>1. i \in Int /\ j \in Int
      BY <1>8
    <2>2. CASE i <= p /\ j <= p
      BY <1>9, <2>2 DEF IsInjective
    <2>3. CASE (i <= p /\ j > p) \/ (i > p /\ j <= p)
      BY <1>1, <1>11, <2>3
    <2>4. CASE i > p /\ j > p
      <3>1. i - p = j - p
        BY <1>1, <1>10, <2>4 DEF IsInjective
      <3> QED  BY <1>7, <2>1, <3>1
    <2> QED  BY <1>7, <2>1, <2>2, <2>3, <2>4
  <1>13. ToSet(comments) \subseteq ToSet(m)
    <2>1. \A i \in DOMAIN comments : i \in DOMAIN m /\ i <= p
      BY <1>7, <1>8
    <2> QED
      BY <1>9, <2>1 DEF ToSet
  <1>14. Len(m) <= Len(comments) + Room(comments)
    BY <1>2, <1>7, <1>8
  <1> QED
    BY <1>6, <1>12, <1>13, <1>14

-----------------------------------------------------------------------------
(* What a run's files keep, however often it is resumed.                   *)

\* A scan's result lists nothing twice.
Tidy(s) == s \in ScanFile /\ IsInjective(s.contents) /\ IsInjective(s.comments)

\* The comments n attempts may have listed: each after the first passes the limit by one.
Cap(n) == IF n = 0 THEN 0 ELSE CommentLimit + n - 1

\* What may be listed before a content is merged in attempt n: the list is looked at
\* after each content, but not before the first.
HasRoom(s, n) == Len(s.comments) < CommentLimit \/ Len(s.comments) <= Cap(n - 1)

Covers(s, t) == ToSet(t.contents) \subseteq ToSet(s.contents) /\ ToSet(t.comments) \subseteq ToSet(s.comments)

ScanKept(r) ==
  /\ Tidy(scan[r]) /\ scans[r] \in 0..starts
  /\ Len(scan[r].comments) <= Cap(scans[r])
  /\ state[r].status = "none" => scan[r] = Absent

\* A review is of a report that lists nothing twice.
Reviews(e) ==
  e = NoReview \/ \E of \in Seq(Comments) :
    /\ IsInjective(of)
    /\ \E statuses \in Outcomes(Batches(Requested(ReportLeads(of)))) :
         e = [written |-> TRUE, of |-> of, by |-> Enriching(ReportLeads(of), statuses).by,
              counts |-> Enriching(ReportLeads(of), statuses).counts]

PapersKept(r) ==
  /\ report[r] \in [written : BOOLEAN, of : Seq(Comments)] /\ IsInjective(report[r].of)
  /\ plan[r] \in [written : BOOLEAN, of : Seq(Comments)]
  /\ Reviews(enriched[r])

\* A job's result takes over what its run's file holds; it begins no attempt that was
\* not started.
ResultKept(j) ==
  /\ Tidy(job[j].at) /\ job[j].todo \in Seq(Contents)
  /\ ~At(j, "idle") =>
       /\ state[Run(j)].status # "none"
       /\ job[j].phase \in {"look", "unlink", "take", "health", "scan"} =>
            /\ scans[Run(j)] < starts
            /\ ~job[j].resumes => scan[Run(j)] = Absent
       /\ job[j].phase \in {"content", "end"} =>
            /\ scans[Run(j)] > 0 /\ Covers(job[j].at, scan[Run(j)])
            /\ Len(job[j].at.comments) <= Cap(scans[Run(j)])
       /\ At(j, "content") /\ job[j].todo # <<>> => HasRoom(job[j].at, scans[Run(j)])

Totals ==
  /\ starts \in 0..MaxStarts /\ faults \in 0..MaxFaults
  /\ scans \in [Runs -> Nat]

KeepInv ==
  /\ Totals
  /\ \A r \in Runs : ScanKept(r) /\ PapersKept(r)
  /\ \A j \in Jobs : ResultKept(j)

\* One job and the run it has in hand change.
LEMMA KeepOne ==
  ASSUME Inv, KeepInv, NEW j \in Jobs, NEW r \in Runs, Totals', starts' >= starts,
         \A k \in Jobs \ {j} : job'[k] = job[k] /\ Run(k) # r,
         \A s \in Runs \ {r} : /\ state'[s] = state[s] /\ scan'[s] = scan[s] /\ scans'[s] = scans[s]
                               /\ report'[s] = report[s] /\ enriched'[s] = enriched[s] /\ plan'[s] = plan[s],
         ScanKept(r)', PapersKept(r)', ResultKept(j)'
  PROVE  KeepInv'
  <1>1. ASSUME NEW k \in Jobs
        PROVE  ResultKept(k)'
    <2>1. CASE k # j
      <3>1. job'[k] = job[k] /\ ResultKept(k) /\ (~At(k, "idle") => Run(k) \in Runs \ {r})
        BY <2>1 DEF Inv, Shapes, JobOK, JobRec, KeepInv, At, Run
      <3>2. ~At(k, "idle") => scans[Run(k)] \in Nat /\ scans'[Run(k)] = scans[Run(k)] /\ starts \in Nat /\ starts' \in Nat
        BY <3>1, BoundAssumption DEF KeepInv, Totals
      <3>3. ~At(k, "idle") => state'[Run(k)] = state[Run(k)] /\ scan'[Run(k)] = scan[Run(k)]
        BY <3>1
      <3> QED
        BY <3>1, <3>2, <3>3 DEF ResultKept, At, Run
    <2> QED  BY <2>1
  <1>2. ASSUME NEW s \in Runs
        PROVE  ScanKept(s)' /\ PapersKept(s)'
    <2>1. CASE s # r
      <3>1. ScanKept(s) /\ PapersKept(s) /\ starts \in Nat /\ starts' \in Nat
        BY BoundAssumption DEF KeepInv, Totals
      <3>2. ScanKept(s)'
        BY <2>1, <3>1 DEF ScanKept
      <3>3. PapersKept(s)'
        BY <2>1, <3>1 DEF PapersKept
      <3> QED  BY <3>2, <3>3
    <2> QED  BY <2>1
  <1> QED
    BY <1>1, <1>2 DEF KeepInv

\* The files of scan, report, review and plan stay.
LEMMA KeepPapers ==
  ASSUME KeepInv, UNCHANGED <<scan, report, enriched, plan, scans>>, NEW r \in Runs, starts' >= starts, Totals',
         state'[r].status # "none" \/ state'[r].status = state[r].status
  PROVE  ScanKept(r)' /\ PapersKept(r)'
  <1>1. ScanKept(r) /\ PapersKept(r) /\ starts \in Nat /\ starts' \in Nat
    BY BoundAssumption DEF KeepInv, Totals
  <1>2. ScanKept(r)'
    BY <1>1 DEF ScanKept
  <1>3. PapersKept(r)'
    BY <1>1 DEF PapersKept
  <1> QED  BY <1>2, <1>3

LEMMA AbsentTidy ==
  /\ Tidy(Absent) /\ Absent.contents = <<>> /\ Absent.comments = <<>> /\ Absent.status = "none"
  /\ NoJob.at = Absent /\ NoJob.todo = <<>> /\ NoJob.todo \in Seq(Contents) /\ NoJob.phase = "idle"
  BY DEF Tidy, Absent, ScanFile, ScanStatus, IsInjective, NoJob

\* A job ends; its run's files were kept, or written as they should be.
LEMMA EndedKeep ==
  ASSUME Inv, KeepInv, NEW j \in Jobs, ~At(j, "idle"), NEW r \in Runs, r = Run(j), job' = [job EXCEPT ![j] = NoJob],
         NEW status \in JobStatus \ {"none"}, NEW paths,
         state' = state \/ state' = [state EXCEPT ![r] = [status |-> status, paths |-> paths]],
         Totals', starts' = starts,
         \A s \in Runs \ {r} : /\ scan'[s] = scan[s] /\ scans'[s] = scans[s]
                               /\ report'[s] = report[s] /\ enriched'[s] = enriched[s] /\ plan'[s] = plan[s],
         scan'[r] = scan[r], scans'[r] \in scans[r]..starts, PapersKept(r)'
  PROVE  KeepInv'
  <1>1. \A k \in Jobs \ {j} : Run(k) # r
    BY OwnRun
  <1>2. job'[j] = NoJob /\ \A k \in Jobs \ {j} : job'[k] = job[k]
    BY DEF Inv, Shapes
  <1>3. (\A s \in Runs \ {r} : state'[s] = state[s]) /\ (state'[r] = state[r] \/ state'[r].status = status)
    <2>1. state \in [Runs -> [status : JobStatus, paths : SUBSET Path]]
      BY DEF Inv, Shapes
    <2>2. CASE state' = [state EXCEPT ![r] = [status |-> status, paths |-> paths]]
      BY <2>1, <2>2
    <2> QED  BY <2>2
  <1>4. ResultKept(j)'
    BY <1>2, AbsentTidy DEF ResultKept, At
  <1>5. ScanKept(r)'
    <2>1. /\ scans[r] \in Nat /\ scans'[r] \in Nat /\ scans[r] <= scans'[r] /\ scans'[r] <= starts
          /\ starts \in Nat /\ ScanKept(r) /\ CommentLimit \in Nat
      BY <1>1, BoundAssumption, ReadLimitAssumption DEF KeepInv, Totals
    <2>2. state'[r].status = "none" => state[r].status = "none"
      BY <1>3
    <2>3. Len(scan[r].comments) \in Nat
      BY <2>1 DEF ScanKept, Tidy, ScanFile
    <2>4. Len(scan'[r].comments) <= Cap(scans'[r])
      BY <1>1, <2>1, <2>3 DEF ScanKept, Cap
    <2> QED
      BY <1>1, <2>1, <2>2, <2>4 DEF ScanKept
  <1>6. starts' >= starts
    BY BoundAssumption DEF KeepInv, Totals
  <1> QED
    BY <1>1, <1>2, <1>3, <1>4, <1>5, <1>6, KeepOne

\* A job goes to another phase before the scan.
LEMMA GoesOnKeep ==
  ASSUME Inv, KeepInv, NEW j \in Jobs,
         job[j].phase \in {"look", "unlink", "take", "health"},
         job'[j].phase \in {"unlink", "take", "health", "scan", "review"}, job'[j].run = job[j].run,
         job'[j].resumes = job[j].resumes, job'[j].todo = job[j].todo, Tidy(job[j].at)',
         \A k \in Jobs \ {j} : job'[k] = job[k],
         UNCHANGED <<files, scans, starts>>, Totals'
  PROVE  KeepInv'
  <1>1. ~At(j, "idle")
    BY DEF At
  <1>2. PICK r \in Runs : r = Run(j) /\ \A k \in Jobs \ {j} : Run(k) # r
    BY <1>1, OwnRun
  <1>4. ResultKept(j)'
    <2>1. ResultKept(j)
      BY DEF KeepInv
    <2> QED
      BY <1>1, <1>2, <2>1 DEF ResultKept, At, Run, files
  <1>5. starts' >= starts
    BY BoundAssumption DEF KeepInv, Totals
  <1>6. ScanKept(r)' /\ PapersKept(r)'
    BY <1>5, KeepPapers DEF files
  <1> QED
    BY <1>2, <1>4, <1>5, <1>6, KeepOne DEF files

LEMMA TotalsStay ==
  ASSUME KeepInv, UNCHANGED <<scans, starts>>, faults' = faults \/ Fault
  PROVE  Totals' /\ starts' >= starts
  <1>1. faults' \in 0..MaxFaults
    BY BoundAssumption DEF KeepInv, Totals, Fault
  <1> QED
    BY <1>1, BoundAssumption DEF KeepInv, Totals

LEMMA StartKeep ==
  ASSUME Inv, KeepInv, NEW j \in Jobs, NEW r \in Runs, NEW llm \in BOOLEAN, Start(j, r, llm)
  PROVE  KeepInv'
  <1>1. /\ \A k \in Jobs : Run(k) # r
        /\ starts < MaxStarts /\ starts' = starts + 1 /\ Run(j) = "none"
        /\ UNCHANGED <<scan, report, enriched, plan, scans, faults>>
    BY DEF Start, Inv, Shapes, JobOK
  <1>2. Totals' /\ starts' >= starts /\ starts \in Nat
    BY <1>1, BoundAssumption DEF KeepInv, Totals
  <1>3. (\A s \in Runs \ {r} : state'[s] = state[s]) /\ state'[r].status # "none"
    <2>1. state \in [Runs -> [status : JobStatus, paths : SUBSET Path]]
      BY DEF Inv, Shapes
    <2>2. CASE state[r].status = "none"
      <3>1. state' = [state EXCEPT ![r].status = "running"]
        BY <2>2 DEF Start
      <3> QED  BY <2>1, <3>1
    <2>3. CASE state[r].status # "none"
      <3>1. state' = state
        BY <2>3 DEF Start
      <3> QED  BY <2>3, <3>1
    <2> QED  BY <2>2, <2>3
  <1>4. PICK w : w = [NoJob EXCEPT !.phase = "look", !.run = r, !.llm = llm,
                                   !.resumes = ~(state[r].status = "none"), !.known = state[r].paths]
    OBVIOUS
  <1>5. /\ w.phase = "look" /\ w.run = r /\ w.todo = <<>> /\ w.at = Absent
        /\ w.resumes = ~(state[r].status = "none")
    BY <1>4 DEF NoJob
  <1>6. job' = [job EXCEPT ![j] = w]
    BY <1>4 DEF Start
  <1>7. job'[j] = w /\ \A k \in Jobs \ {j} : job'[k] = job[k]
    BY <1>6 DEF Inv, Shapes
  <1>8. ResultKept(j)'
    <2>1. /\ ScanKept(r) /\ scans[r] \in Nat /\ scans'[r] = scans[r] /\ scan'[r] = scan[r]
      BY <1>1 DEF KeepInv, Totals
    <2>2. scans[r] <= starts
      BY <2>1 DEF ScanKept
    <2>3. ~w.resumes => scan[r] = Absent
      BY <1>5, <2>1 DEF ScanKept
    <2>4. scans'[r] < starts'
      BY <1>1, <1>2, <2>1, <2>2
    <2> QED
      BY <1>3, <1>5, <1>7, <2>1, <2>3, <2>4, AbsentTidy DEF ResultKept, At, Run
  <1>9. ScanKept(r)' /\ PapersKept(r)'
    BY <1>1, <1>2, <1>3, KeepPapers
  <1> QED
    BY <1>1, <1>2, <1>3, <1>7, <1>8, <1>9, KeepOne

LEMMA LookKeep ==
  ASSUME Inv, KeepInv, NEW j \in Jobs, Look(j)
  PROVE  KeepInv'
  <1>1. /\ At(j, "look") /\ UNCHANGED <<scan, report, enriched, plan, scans, starts, faults>>
        /\ job[j].phase = "look" /\ ~At(j, "idle") /\ Totals' /\ starts' = starts
    BY TotalsStay DEF Look, Quiet, At
  <1>2. PICK r \in Runs : r = Run(j)
    BY <1>1, OwnRun
  <1>3. CASE HeldElsewhere
    <2>1. /\ state' = [state EXCEPT ![r] = [status |-> "blocked", paths |-> {}]]
          /\ job' = [job EXCEPT ![j] = NoJob]
      BY <1>2, <1>3 DEF Look, Ends
    <2>2. PapersKept(r)' /\ scans'[r] \in scans[r]..starts
      <3>1. PapersKept(r) /\ ScanKept(r) /\ scans[r] \in Nat /\ starts \in Nat
        BY BoundAssumption DEF KeepInv, Totals
      <3> QED
        BY <1>1, <3>1 DEF PapersKept, ScanKept
    <2>3. "blocked" \in JobStatus \ {"none"}
      BY DEF JobStatus
    <2> QED
      BY <1>1, <1>2, <2>1, <2>2, <2>3, EndedKeep
  <1>4. CASE ~HeldElsewhere
    <2>1. PICK phase \in {"take", "unlink"} : phase = IF lock = Free THEN "take" ELSE "unlink"
      OBVIOUS
    <2>2. PICK free : free = (lock = Free \/ lock.stale)
      OBVIOUS
    <2>3. job' = [job EXCEPT ![j].phase = phase, ![j].sawFree = free] /\ UNCHANGED state
      BY <1>4, <2>1, <2>2 DEF Look
    <2>4. PICK w : w = [job[j] EXCEPT !.phase = phase, !.sawFree = free]
      OBVIOUS
    <2>5. job[j] \in JobRec(job[j].todo, job[j].at)
      BY DEF Inv, Shapes, JobOK
    <2>6. w.phase = phase /\ w.run = Run(j) /\ w.resumes = job[j].resumes /\ w.todo = job[j].todo /\ w.at = job[j].at
      BY <2>4, <2>5 DEF JobRec, Run
    <2>7. job'[j] = w /\ \A k \in Jobs \ {j} : job'[k] = job[k]
      BY <2>3, <2>4 DEF Inv, Shapes
    <2>8. Tidy(w.at)
      BY <2>6 DEF KeepInv, ResultKept
    <2>9. /\ UNCHANGED <<files, scans, starts>> /\ Totals'
          /\ job[j].phase \in {"look", "unlink", "take", "health"}
          /\ w.phase \in {"unlink", "take", "health", "scan", "review"}
      BY <1>1, <2>3, <2>6 DEF files
    <2> QED
      BY <2>6, <2>7, <2>8, <2>9, GoesOnKeep DEF Run
  <1> QED  BY <1>3, <1>4

LEMMA GotoKeep ==
  ASSUME Inv, KeepInv, NEW j \in Jobs, job[j].phase \in {"unlink", "take"}, NEW to \in {"take", "health"},
         Goto(j, to), UNCHANGED files, Quiet
  PROVE  KeepInv'
  <1>1. job[j] \in JobRec(job[j].todo, job[j].at)
    BY DEF Inv, Shapes, JobOK
  <1>2. PICK w : w = [job[j] EXCEPT !.phase = to]
    OBVIOUS
  <1>3. w.phase = to /\ w.run = Run(j) /\ w.resumes = job[j].resumes /\ w.todo = job[j].todo /\ w.at = job[j].at
    BY <1>1, <1>2 DEF JobRec, Run
  <1>4. job'[j] = w /\ \A k \in Jobs \ {j} : job'[k] = job[k]
    BY <1>2 DEF Goto, Inv, Shapes
  <1>5. Tidy(w.at)
    BY <1>3 DEF KeepInv, ResultKept
  <1>6. UNCHANGED <<files, scans, starts>> /\ Totals'
    BY TotalsStay DEF Quiet
  <1>7. /\ job[j].phase \in {"look", "unlink", "take", "health"}
        /\ w.phase \in {"unlink", "take", "health", "scan", "review"}
    BY <1>3
  <1> QED
    BY <1>3, <1>4, <1>5, <1>6, <1>7, GoesOnKeep DEF Run

\* A job fails, or is told to end, and writes no file but its state.
LEMMA LeavesKeep ==
  ASSUME Inv, KeepInv, NEW j \in Jobs, ~At(j, "idle"), job' = [job EXCEPT ![j] = NoJob],
         NEW status \in {"blocked", "failed", "completed", "partial"}, NEW paths,
         state' = state \/ state' = [state EXCEPT ![Run(j)] = [status |-> status, paths |-> paths]],
         UNCHANGED <<scan, report, enriched, plan, scans, starts>>, faults' = faults \/ Fault
  PROVE  KeepInv'
  <1>1. PICK r \in Runs : r = Run(j)
    BY OwnRun
  <1>2. Totals' /\ starts' = starts
    BY TotalsStay
  <1>3. PapersKept(r)' /\ scans'[r] \in scans[r]..starts
    <2>1. PapersKept(r) /\ ScanKept(r) /\ scans[r] \in Nat /\ starts \in Nat
      BY BoundAssumption DEF KeepInv, Totals
    <2> QED
      BY <2>1 DEF PapersKept, ScanKept
  <1>4. status \in JobStatus \ {"none"}
    BY DEF JobStatus
  <1>5. state' = state \/ state' = [state EXCEPT ![r] = [status |-> status, paths |-> paths]]
    BY <1>1
  <1> QED
    BY <1>1, <1>2, <1>3, <1>4, <1>5, EndedKeep

LEMMA HealthKeep ==
  ASSUME Inv, KeepInv, NEW j \in Jobs, Health(j)
  PROVE  KeepInv'
  <1>1. /\ UNCHANGED <<scan, report, enriched, plan, scans, starts>>
        /\ job[j].phase = "health" /\ ~At(j, "idle")
    BY DEF Health, At
  <1>2. job[j] \in JobRec(job[j].todo, job[j].at) /\ Run(j) \in Runs
    BY <1>1, OwnRun DEF Inv, Shapes, JobOK
  <1>3. ASSUME UNCHANGED <<state, faults>>,
               job' = [job EXCEPT ![j].phase = IF Reusable(j) THEN "review" ELSE "scan",
                                  ![j].paths = IF Reusable(j) THEN job[j].known ELSE {},
                                  ![j].at = IF Reusable(j) THEN scan[Run(j)] ELSE Absent]
        PROVE  KeepInv'
    <2>1. PICK phase : phase = IF Reusable(j) THEN "review" ELSE "scan"
      OBVIOUS
    <2>2. PICK paths : paths = IF Reusable(j) THEN job[j].known ELSE {}
      OBVIOUS
    <2>3. PICK at : at = IF Reusable(j) THEN scan[Run(j)] ELSE Absent
      OBVIOUS
    <2>4. PICK w : w = [job[j] EXCEPT !.phase = phase, !.paths = paths, !.at = at]
      OBVIOUS
    <2>5. w.phase = phase /\ w.run = Run(j) /\ w.resumes = job[j].resumes /\ w.todo = job[j].todo /\ w.at = at
      BY <1>2, <2>4 DEF JobRec, Run
    <2>6. job'[j] = w /\ \A k \in Jobs \ {j} : job'[k] = job[k]
      <3>1. job' = [job EXCEPT ![j].phase = phase, ![j].paths = paths, ![j].at = at]
        BY <1>3, <2>1, <2>2, <2>3
      <3> QED
        BY <2>4, <3>1 DEF Inv, Shapes
    <2>7. Tidy(at)
      BY <1>2, <2>3, AbsentTidy DEF KeepInv, ScanKept
    <2>8. /\ UNCHANGED <<files, scans, starts>> /\ Totals' /\ Tidy(w.at)
          /\ job[j].phase \in {"look", "unlink", "take", "health"}
          /\ w.phase \in {"unlink", "take", "health", "scan", "review"}
      BY <1>1, <1>3, <2>1, <2>5, <2>7, TotalsStay DEF files
    <2> QED
      BY <2>5, <2>6, <2>8, GoesOnKeep DEF Run
  <1>4. ASSUME Fault, NEW status \in {"blocked", "failed"}, NEW paths, Ends(j, status, paths)
        PROVE  KeepInv'
    BY <1>1, <1>4, LeavesKeep DEF Ends
  <1>5. ASSUME Fault, job' = [job EXCEPT ![j] = NoJob], UNCHANGED state
        PROVE  KeepInv'
    BY <1>1, <1>5, LeavesKeep
  <1> QED
    BY <1>3, <1>4, <1>5 DEF Health, Fails

LEMMA CrashKeep ==
  ASSUME Inv, KeepInv, NEW j \in Jobs, Crash(j)
  PROVE  KeepInv'
  <1>1. /\ ~At(j, "idle") /\ job' = [job EXCEPT ![j] = NoJob] /\ Fault
        /\ UNCHANGED <<state, scan, report, enriched, plan, scans, starts>>
    BY DEF Crash, files
  <1> QED
    BY <1>1, LeavesKeep

LEMMA ExpireKeep ==
  ASSUME Inv, KeepInv, Expire
  PROVE  KeepInv'
  <1>1. UNCHANGED <<state, scan, report, enriched, plan, job, scans, starts, faults>>
    BY DEF Expire, files, Quiet
  <1>2. Totals'
    BY <1>1 DEF KeepInv, Totals
  <1>3. \A r \in Runs : ScanKept(r)' /\ PapersKept(r)'
    BY <1>1 DEF KeepInv, ScanKept, PapersKept
  <1>4. \A j \in Jobs : ResultKept(j)'
    BY <1>1 DEF KeepInv, ResultKept, At, Run
  <1> QED
    BY <1>2, <1>3, <1>4 DEF KeepInv

\* A result with another status lists the same.
LEMMA Relabelled ==
  ASSUME NEW s, Tidy(s), NEW status \in ScanStatus, NEW failed \in BOOLEAN
  PROVE  /\ Tidy([s EXCEPT !.status = status, !.failed = failed])
         /\ [s EXCEPT !.status = status, !.failed = failed].contents = s.contents
         /\ [s EXCEPT !.status = status, !.failed = failed].comments = s.comments
         /\ Tidy([s EXCEPT !.status = status])
         /\ [s EXCEPT !.status = status].contents = s.contents
         /\ [s EXCEPT !.status = status].comments = s.comments
         /\ Tidy([s EXCEPT !.failed = failed])
         /\ [s EXCEPT !.failed = failed].contents = s.contents
         /\ [s EXCEPT !.failed = failed].comments = s.comments
  <1>1. s \in ScanFile
    BY DEF Tidy
  <1>2. PICK t \in ScanFile : t = [s EXCEPT !.status = status, !.failed = failed]
    BY <1>1 DEF ScanFile
  <1>3. PICK u \in ScanFile : u = [s EXCEPT !.status = status]
    BY <1>1 DEF ScanFile
  <1>4. PICK v \in ScanFile : v = [s EXCEPT !.failed = failed]
    BY <1>1 DEF ScanFile
  <1>5. /\ t.contents = s.contents /\ t.comments = s.comments /\ u.contents = s.contents
        /\ u.comments = s.comments /\ v.contents = s.contents /\ v.comments = s.comments
    BY <1>1, <1>2, <1>3, <1>4 DEF ScanFile
  <1>6. Tidy(t) /\ Tidy(u) /\ Tidy(v)
    BY <1>5 DEF Tidy
  <1> QED
    BY <1>2, <1>3, <1>4, <1>5, <1>6

\* A job that scans goes on, and writes the scan file or leaves it.
LEMMA ScansKeep ==
  ASSUME Inv, KeepInv, NEW j \in Jobs, NEW r \in Runs, r = Run(j),
         job[j].phase \in {"scan", "content", "end"},
         Totals', UNCHANGED <<state, report, enriched, plan, starts>>,
         \A k \in Jobs \ {j} : job'[k] = job[k],
         \A s \in Runs \ {r} : scan'[s] = scan[s] /\ scans'[s] = scans[s],
         ScanKept(r)', job'[j].run = r, job'[j].phase \in {"content", "end", "report"},
         Tidy(job[j].at)', job'[j].todo \in Seq(Contents),
         job'[j].phase \in {"content", "end"} =>
           /\ scans'[r] > 0 /\ Covers(job'[j].at, scan'[r]) /\ Len(job'[j].at.comments) <= Cap(scans'[r]),
         job'[j].phase = "content" /\ job'[j].todo # <<>> => HasRoom(job'[j].at, scans'[r])
  PROVE  KeepInv'
  <1>1. ~At(j, "idle")
    BY DEF At
  <1>2. \A k \in Jobs \ {j} : Run(k) # r
    BY <1>1, OwnRun
  <1>3. state[r].status # "none" /\ PapersKept(r)
    BY <1>1 DEF KeepInv, ResultKept
  <1>4. PapersKept(r)'
    BY <1>3 DEF PapersKept
  <1>5. ResultKept(j)'
    BY <1>3 DEF ResultKept, At, Run
  <1>6. starts' >= starts
    BY BoundAssumption DEF KeepInv, Totals
  <1> QED
    BY <1>2, <1>4, <1>5, <1>6, KeepOne

LEMMA SearchKeep ==
  ASSUME Inv, KeepInv, NEW j \in Jobs, Search(j)
  PROVE  KeepInv'
  <1>1. /\ job[j].phase = "scan" /\ ~At(j, "idle") /\ UNCHANGED <<report, enriched, plan, starts>>
        /\ scans' = [scans EXCEPT ![Run(j)] = @ + 1]
    BY DEF Search, At
  <1>2. PICK r \in Runs : r = Run(j)
    BY <1>1, OwnRun
  <1>3. job[j] \in JobRec(job[j].todo, job[j].at)
    BY DEF Inv, Shapes, JobOK
  <1>4. ResultKept(j) /\ ScanKept(r) /\ scans[r] \in Nat /\ starts \in Nat /\ CommentLimit \in Nat
    BY BoundAssumption, ReadLimitAssumption DEF KeepInv, Totals
  <1>5. /\ scans[r] < starts /\ state[r].status # "none" /\ (~job[j].resumes => scan[r] = Absent)
        /\ job[j].todo \in Seq(Contents)
    BY <1>1, <1>2, <1>4 DEF ResultKept
  <1>6. /\ scans'[r] = scans[r] + 1 /\ scans' \in [Runs -> Nat] /\ \A s \in Runs \ {r} : scans'[s] = scans[s]
    BY <1>1, <1>2, <1>4 DEF KeepInv, Totals
  <1>7. faults' \in 0..MaxFaults
    <2>1. faults' = faults \/ Fault
      BY DEF Search
    <2> QED
      BY <2>1, BoundAssumption DEF KeepInv, Totals, Fault
  <1>8. Totals'
    BY <1>1, <1>6, <1>7 DEF KeepInv, Totals
  <1>9. PICK at : at = Resumed(j)
    OBVIOUS
  <1>10. Tidy(at) /\ Covers(at, scan[r]) /\ Len(at.comments) <= Cap(scans[r]) /\ Len(at.comments) \in Nat
    <2>1. at = scan[r]
      BY <1>2, <1>5, <1>9 DEF Resumed
    <2> QED
      BY <1>4, <2>1 DEF ScanKept, Covers, Tidy, ScanFile
  <1>11. Len(at.comments) <= Cap(scans'[r]) /\ HasRoom(at, scans'[r]) /\ scans'[r] > 0 /\ scans'[r] \in 0..starts
    <2>1. Cap(scans[r]) <= Cap(scans'[r]) /\ Cap(scans[r]) \in Int /\ Cap(scans'[r]) \in Int
      BY <1>4, <1>6 DEF Cap
    <2>2. scans'[r] - 1 = scans[r]
      BY <1>4, <1>6
    <2> QED
      BY <1>4, <1>5, <1>6, <1>10, <2>1, <2>2 DEF HasRoom
  <1>12. ASSUME NEW found \in Discoveries[r], WriteScan(j, Resumed(j), "completed"), UNCHANGED state,
                job' = [job EXCEPT ![j].phase = "content", ![j].todo = found, ![j].at = Resumed(j)]
         PROVE  KeepInv'
    <2>1. found \in Seq(Contents)
      BY DiscoveriesAre
    <2>2. PICK w : w = [job[j] EXCEPT !.phase = "content", !.todo = found, !.at = at]
      OBVIOUS
    <2>3. w.phase = "content" /\ w.run = r /\ w.todo = found /\ w.at = at
      BY <1>2, <1>3, <2>2 DEF JobRec, Run
    <2>4. job'[j] = w /\ \A k \in Jobs \ {j} : job'[k] = job[k]
      BY <1>9, <1>12, <2>2 DEF Inv, Shapes
    <2>5. PICK s : s = [at EXCEPT !.status = "completed"]
      OBVIOUS
    <2>6. Tidy(s) /\ s.contents = at.contents /\ s.comments = at.comments
      BY <1>10, <2>5, Relabelled DEF ScanStatus
    <2>7. scan'[r] = s /\ \A q \in Runs \ {r} : scan'[q] = scan[q]
      BY <1>2, <1>9, <1>12, <2>5 DEF WriteScan, Inv, Shapes
    <2>8. ScanKept(r)'
      BY <1>1, <1>5, <1>11, <1>12, <2>6, <2>7 DEF ScanKept
    <2>9. Covers(at, s)
      BY <2>6 DEF Covers
    <2> QED
      BY <1>1, <1>2, <1>6, <1>8, <1>10, <1>11, <1>12, <2>1, <2>3, <2>4, <2>7, <2>8, <2>9, ScansKeep
  <1>13. ASSUME UNCHANGED <<state, scan>>,
                job' = [job EXCEPT ![j].phase = "end", ![j].at = Stopped(Resumed(j))]
         PROVE  KeepInv'
    <2>1. PICK s : s = Stopped(at)
      OBVIOUS
    <2>2. Tidy(s) /\ s.contents = at.contents /\ s.comments = at.comments
      BY <1>10, <2>1, Relabelled DEF Stopped, ScanStatus
    <2>3. PICK w : w = [job[j] EXCEPT !.phase = "end", !.at = s]
      OBVIOUS
    <2>4. w.phase = "end" /\ w.run = r /\ w.todo = job[j].todo /\ w.at = s
      BY <1>2, <1>3, <2>3 DEF JobRec, Run
    <2>5. job'[j] = w /\ \A k \in Jobs \ {j} : job'[k] = job[k]
      BY <1>9, <1>13, <2>1, <2>3 DEF Inv, Shapes
    <2>6. ScanKept(r)'
      <3>1. Len(scan[r].comments) <= Cap(scans'[r])
        BY <1>2, <1>5, <1>9, <1>11 DEF Resumed
      <3> QED
        BY <1>1, <1>4, <1>11, <1>13, <3>1 DEF ScanKept
    <2>7. Covers(s, scan[r])
      BY <1>10, <2>2 DEF Covers
    <2> QED
      BY <1>1, <1>2, <1>5, <1>6, <1>8, <1>11, <1>13, <2>2, <2>4, <2>5, <2>6, <2>7, ScansKeep
  <1>14. ASSUME Fails(j), UNCHANGED scan
         PROVE  KeepInv'
    <2>1. /\ job' = [job EXCEPT ![j] = NoJob]
          /\ state' = [state EXCEPT ![r] = [status |-> "failed", paths |-> FailedPaths(j)]]
      BY <1>2, <1>14 DEF Fails, Ends
    <2>2. PapersKept(r)'
      <3>1. PapersKept(r)
        BY DEF KeepInv
      <3> QED
        BY <1>1, <3>1 DEF PapersKept
    <2>3. "failed" \in JobStatus \ {"none"} /\ scans'[r] \in scans[r]..starts
      BY <1>4, <1>6, <1>11 DEF JobStatus
    <2> QED
      BY <1>1, <1>2, <1>6, <1>8, <1>14, <2>1, <2>2, <2>3, EndedKeep
  <1> QED
    BY <1>2, <1>12, <1>13, <1>14 DEF Search

\* Merging a content passes the limit by no more than the attempt may.
LEMMA MergeFits ==
  ASSUME NEW c \in Contents, NEW n \in Shown[c], NEW comments \in Seq(Comments), IsInjective(comments),
         NEW a \in Nat, a > 0, Len(comments) < CommentLimit \/ Len(comments) <= Cap(a - 1)
  PROVE  LET new == Merge(comments, Extract(c, SubSeq(Page[c], 1, n)))
         IN /\ new \in Seq(Comments) /\ IsInjective(new) /\ ToSet(comments) \subseteq ToSet(new)
            /\ Len(new) <= Cap(a)
  <1>1. PICK extracted \in Seq(ReadOf(c)) : extracted = Extract(c, SubSeq(Page[c], 1, n))
    BY NodesRead, ExtractIs
  <1>2. \A e \in ReadOf(c) : e.fp \in Comments
    BY ReadIsComment
  <1>3. PICK new \in Seq(Comments) : /\ new = Merge(comments, extracted) /\ IsInjective(new)
                                     /\ ToSet(comments) \subseteq ToSet(new)
                                     /\ Len(new) <= Len(comments) + Room(comments)
    BY <1>2, MergeIs
  <1>4. Len(comments) \in Nat /\ Len(new) \in Nat /\ CommentLimit \in Nat \ {0}
    BY ReadLimitAssumption
  <1>5. Len(new) <= Cap(a)
    <2>1. CASE Len(comments) < CommentLimit
      BY <1>3, <1>4, <2>1 DEF Room, Cap
    <2>2. CASE ~(Len(comments) < CommentLimit)
      BY <1>3, <1>4, <2>2 DEF Room, Cap
    <2> QED  BY <2>1, <2>2
  <1> QED
    BY <1>1, <1>3, <1>5

\* A content that is opened is listed with what is read of it, one that fails leaves a mark.
LEMMA ContentMerged ==
  ASSUME Inv, KeepInv, NEW j \in Jobs, ScanContent(j)
  PROVE  \/ job' = [job EXCEPT ![j].todo = Tail(@)] /\ UNCHANGED scan
         \/ \E s : /\ Tidy(s) /\ Covers(s, job[j].at) /\ Len(s.comments) <= Cap(scans[Run(j)])
                   /\ job' = [job EXCEPT ![j].at = s,
                                ![j].todo = IF Len(s.comments) >= CommentLimit THEN <<>> ELSE Tail(@)]
                   /\ WriteScan(j, s, "completed")
         \/ /\ job' = [job EXCEPT ![j].phase = "end", ![j].todo = <<>>, ![j].at = Stopped(job[j].at)]
            /\ UNCHANGED scan
  <1>1. job[j].phase = "content" /\ ~At(j, "idle") /\ At(j, "content") /\ job[j].todo # <<>>
    BY DEF ScanContent, At
  <1>2. PICK r \in Runs : r = Run(j)
    BY <1>1, OwnRun
  <1>3. ResultKept(j) /\ scans[r] \in Nat /\ CommentLimit \in Nat
    BY ReadLimitAssumption DEF KeepInv, Totals
  <1>4. PICK now : now = job[j].at
    OBVIOUS
  <1>5. /\ Tidy(now) /\ job[j].todo \in Seq(Contents) /\ scans[r] > 0
        /\ Len(now.comments) <= Cap(scans[r]) /\ HasRoom(now, scans[r])
    BY <1>1, <1>2, <1>3, <1>4 DEF ResultKept
  <1>6. PICK c \in Contents : c = Head(job[j].todo)
    BY <1>1, <1>5
  <1>7. CASE Known(j, c)
    BY <1>6, <1>7 DEF ScanContent
  <1>8. ASSUME NEW n \in Shown[c], c \notin ToSet(now.contents)
         PROVE  LET s == [now EXCEPT !.contents = Append(@, c),
                                     !.comments = Merge(@, Extract(c, SubSeq(Page[c], 1, n)))]
                IN Tidy(s) /\ Covers(s, now) /\ Len(s.comments) <= Cap(scans[r])
    <2>1. now \in ScanFile /\ IsInjective(now.contents) /\ IsInjective(now.comments)
      BY <1>5 DEF Tidy
    <2>2. now.contents \in Seq(Contents) /\ now.comments \in Seq(Comments)
      BY <2>1 DEF ScanFile
    <2>3. PICK new \in Seq(Comments) :
            /\ new = Merge(now.comments, Extract(c, SubSeq(Page[c], 1, n)))
            /\ IsInjective(new) /\ ToSet(now.comments) \subseteq ToSet(new) /\ Len(new) <= Cap(scans[r])
      BY <1>3, <1>5, <2>1, <2>2, MergeFits DEF HasRoom
    <2>4. PICK contents \in Seq(Contents) :
            /\ contents = Append(now.contents, c) /\ IsInjective(contents)
            /\ ToSet(contents) = ToSet(now.contents) \cup {c}
      BY <1>8, <2>1, <2>2, AppendApart
    <2>5. PICK s \in ScanFile : s = [now EXCEPT !.contents = contents, !.comments = new]
      BY <2>1 DEF ScanFile
    <2>6. s.contents = contents /\ s.comments = new
      BY <2>1, <2>5 DEF ScanFile
    <2>7. Tidy(s) /\ Covers(s, now) /\ Len(s.comments) <= Cap(scans[r])
      BY <2>3, <2>4, <2>6 DEF Tidy, Covers
    <2>8. s = [now EXCEPT !.contents = Append(@, c),
                          !.comments = Merge(@, Extract(c, SubSeq(Page[c], 1, n)))]
      BY <2>1, <2>3, <2>4, <2>5 DEF ScanFile
    <2> QED
      BY <2>7, <2>8
  <1>9. Tidy([now EXCEPT !.failed = TRUE]) /\ Covers([now EXCEPT !.failed = TRUE], now)
         /\ Len([now EXCEPT !.failed = TRUE].comments) <= Cap(scans[r])
    <2>1. PICK s : s = [now EXCEPT !.failed = TRUE]
      OBVIOUS
    <2>2. Tidy(s) /\ s.contents = now.contents /\ s.comments = now.comments
      BY <1>5, <2>1, Relabelled DEF ScanStatus
    <2> QED
      BY <1>5, <2>1, <2>2 DEF Covers
  <1>10. CASE ~Known(j, c)
    <2>1. c \notin ToSet(now.contents)
      BY <1>4, <1>10 DEF Known
    <2>2. \/ \E n \in Shown[c] :
               LET s == [now EXCEPT !.contents = Append(@, c),
                                    !.comments = Merge(@, Extract(c, SubSeq(Page[c], 1, n)))]
               IN /\ job' = [job EXCEPT ![j].at = s,
                               ![j].todo = IF Len(s.comments) >= CommentLimit THEN <<>> ELSE Tail(@)]
                  /\ WriteScan(j, s, "completed")
          \/ LET s == [now EXCEPT !.failed = TRUE]
             IN /\ job' = [job EXCEPT ![j].at = s,
                             ![j].todo = IF Len(s.comments) >= CommentLimit THEN <<>> ELSE Tail(@)]
                /\ WriteScan(j, s, "completed")
          \/ /\ job' = [job EXCEPT ![j].phase = "end", ![j].todo = <<>>, ![j].at = Stopped(now)]
             /\ UNCHANGED scan
      BY <1>4, <1>6, <1>10 DEF ScanContent
    <2> QED
      BY <1>2, <1>4, <1>8, <1>9, <2>1, <2>2
  <1> QED
    BY <1>7, <1>10

LEMMA ScanContentKeep ==
  ASSUME Inv, KeepInv, NEW j \in Jobs, ScanContent(j)
  PROVE  KeepInv'
  <1>1. /\ job[j].phase = "content" /\ ~At(j, "idle") /\ At(j, "content") /\ job[j].todo # <<>>
        /\ UNCHANGED <<state, report, enriched, plan, scans, starts>>
    BY DEF ScanContent, At
  <1>2. PICK r \in Runs : r = Run(j)
    BY <1>1, OwnRun
  <1>3. job[j] \in JobRec(job[j].todo, job[j].at)
    BY DEF Inv, Shapes, JobOK
  <1>4. /\ ResultKept(j) /\ ScanKept(r) /\ scans[r] \in Nat /\ CommentLimit \in Nat
    BY ReadLimitAssumption DEF KeepInv, Totals
  <1>5. PICK now : now = job[j].at
    OBVIOUS
  <1>6. /\ Tidy(now) /\ job[j].todo \in Seq(Contents) /\ state[r].status # "none"
        /\ scans[r] > 0 /\ Covers(now, scan[r]) /\ Len(now.comments) <= Cap(scans[r])
        /\ HasRoom(now, scans[r])
    BY <1>1, <1>2, <1>4, <1>5 DEF ResultKept
  <1>7. Totals'
    <2>1. faults' = faults \/ Fault
      BY DEF ScanContent
    <2> QED
      BY <1>1, <2>1, TotalsStay
  <1>8. Tail(job[j].todo) \in Seq(Contents)
    BY <1>1, <1>6
  <1>9. PICK rest \in Seq(Contents) : rest = Tail(job[j].todo)
    BY <1>8
  <1>10. ASSUME job' = [job EXCEPT ![j].todo = Tail(@)], UNCHANGED scan
         PROVE  KeepInv'
    <2>1. PICK w : w = [job[j] EXCEPT !.todo = rest]
      OBVIOUS
    <2>2. w.phase = "content" /\ w.run = r /\ w.todo = rest /\ w.at = now
      BY <1>1, <1>2, <1>3, <1>5, <2>1 DEF JobRec, Run
    <2>3. job'[j] = w /\ \A k \in Jobs \ {j} : job'[k] = job[k]
      BY <1>9, <1>10, <2>1 DEF Inv, Shapes
    <2>4. ScanKept(r)'
      BY <1>1, <1>4, <1>10 DEF ScanKept
    <2> QED
      BY <1>1, <1>2, <1>6, <1>7, <1>10, <2>2, <2>3, <2>4, ScansKeep
  <1>11. ASSUME NEW s, Tidy(s), Covers(s, now), Len(s.comments) <= Cap(scans[r]),
                WriteScan(j, s, "completed"),
                job' = [job EXCEPT ![j].at = s,
                                   ![j].todo = IF Len(s.comments) >= CommentLimit THEN <<>> ELSE Tail(@)]
         PROVE  KeepInv'
    <2>1. PICK todo : todo = IF Len(s.comments) >= CommentLimit THEN <<>> ELSE rest
      OBVIOUS
    <2>2. todo \in Seq(Contents) /\ (todo # <<>> => HasRoom(s, scans[r]))
      <3>1. CASE Len(s.comments) >= CommentLimit
        BY <2>1, <3>1
      <3>2. CASE ~(Len(s.comments) >= CommentLimit)
        <4>1. Len(s.comments) \in Nat
          BY <1>11 DEF Tidy, ScanFile
        <4> QED
          BY <1>4, <2>1, <3>2, <4>1 DEF HasRoom
      <3> QED  BY <3>1, <3>2
    <2>3. PICK w : w = [job[j] EXCEPT !.at = s, !.todo = todo]
      OBVIOUS
    <2>4. w.phase = "content" /\ w.run = r /\ w.todo = todo /\ w.at = s
      BY <1>1, <1>2, <1>3, <2>3 DEF JobRec, Run
    <2>5. job'[j] = w /\ \A k \in Jobs \ {j} : job'[k] = job[k]
      <3>1. job' = [job EXCEPT ![j].at = s, ![j].todo = todo]
        BY <1>3, <1>9, <1>11, <2>1 DEF Inv, Shapes, JobRec
      <3> QED
        BY <2>3, <3>1 DEF Inv, Shapes
    <2>6. PICK q : q = [s EXCEPT !.status = "completed"]
      OBVIOUS
    <2>7. Tidy(q) /\ q.contents = s.contents /\ q.comments = s.comments
      BY <1>11, <2>6, Relabelled DEF ScanStatus
    <2>8. scan'[r] = q /\ \A p \in Runs \ {r} : scan'[p] = scan[p]
      BY <1>2, <1>11, <2>6 DEF WriteScan, Inv, Shapes
    <2>9. ScanKept(r)'
      BY <1>1, <1>4, <1>6, <1>11, <2>7, <2>8 DEF ScanKept
    <2>10. Covers(s, q)
      BY <2>7 DEF Covers
    <2> QED
      BY <1>1, <1>2, <1>6, <1>7, <1>11, <2>2, <2>4, <2>5, <2>8, <2>9, <2>10, ScansKeep
  <1>12. ASSUME job' = [job EXCEPT ![j].phase = "end", ![j].todo = <<>>, ![j].at = Stopped(now)],
                UNCHANGED scan
         PROVE  KeepInv'
    <2>1. PICK s : s = Stopped(now)
      OBVIOUS
    <2>2. Tidy(s) /\ s.contents = now.contents /\ s.comments = now.comments
      BY <1>6, <2>1, Relabelled DEF Stopped, ScanStatus
    <2>3. PICK w : w = [job[j] EXCEPT !.phase = "end", !.todo = <<>>, !.at = s]
      OBVIOUS
    <2>4. w.phase = "end" /\ w.run = r /\ w.todo = <<>> /\ w.at = s
      BY <1>2, <1>3, <2>3 DEF JobRec, Run
    <2>5. job'[j] = w /\ \A k \in Jobs \ {j} : job'[k] = job[k]
      BY <1>12, <2>1, <2>3 DEF Inv, Shapes
    <2>6. ScanKept(r)'
      BY <1>1, <1>4, <1>12 DEF ScanKept
    <2>7. Covers(s, scan[r]) /\ <<>> \in Seq(Contents)
      BY <1>6, <2>2 DEF Covers
    <2> QED
      BY <1>1, <1>2, <1>6, <1>7, <1>12, <2>2, <2>4, <2>5, <2>6, <2>7, ScansKeep
  <1> QED
    BY <1>2, <1>5, <1>10, <1>11, <1>12, ContentMerged

LEMMA WriteResultKeep ==
  ASSUME Inv, KeepInv, NEW j \in Jobs, WriteResult(j)
  PROVE  KeepInv'
  <1>1. /\ job[j].phase \in {"content", "end"} /\ ~At(j, "idle") /\ job[j].todo = <<>>
        /\ UNCHANGED <<state, report, enriched, plan, scans, starts, faults>>
    BY DEF WriteResult, At, Quiet
  <1>2. PICK r \in Runs : r = Run(j)
    BY <1>1, OwnRun
  <1>3. job[j] \in JobRec(job[j].todo, job[j].at)
    BY DEF Inv, Shapes, JobOK
  <1>4. /\ ResultKept(j) /\ ScanKept(r) /\ scans[r] \in Nat
    BY DEF KeepInv, Totals
  <1>5. /\ Tidy(job[j].at) /\ state[r].status # "none" /\ Len(job[j].at.comments) <= Cap(scans[r])
    BY <1>1, <1>2, <1>4 DEF ResultKept
  <1>6. Totals'
    BY <1>1 DEF KeepInv, Totals
  <1>7. PICK result : result = IF At(j, "end") THEN job[j].at
                                ELSE [job[j].at EXCEPT !.status = ScanStatusOf(job[j].at)]
    OBVIOUS
  <1>8. Tidy(result) /\ result.comments = job[j].at.comments
    <2>1. ScanStatusOf(job[j].at) \in ScanStatus
      BY DEF ScanStatusOf, ScanStatus
    <2> QED
      BY <1>5, <1>7, <2>1, Relabelled
  <1>9. PICK w : w = [job[j] EXCEPT !.phase = "report", !.at = result]
    OBVIOUS
  <1>10. w.phase = "report" /\ w.run = r /\ w.todo = job[j].todo /\ w.at = result
    BY <1>2, <1>3, <1>9 DEF JobRec, Run
  <1>11. /\ job'[j] = w /\ \A k \in Jobs \ {j} : job'[k] = job[k]
         /\ scan'[r] = result /\ \A s \in Runs \ {r} : scan'[s] = scan[s]
    <2>1. /\ scan' = [scan EXCEPT ![r] = result]
          /\ job' = [job EXCEPT ![j].phase = "report", ![j].at = result]
      BY <1>2, <1>7 DEF WriteResult
    <2> QED
      BY <1>9, <2>1 DEF Inv, Shapes
  <1>12. ScanKept(r)'
    BY <1>1, <1>4, <1>5, <1>8, <1>11 DEF ScanKept
  <1>13. <<>> \in Seq(Contents)
    OBVIOUS
  <1> QED
    BY <1>1, <1>2, <1>6, <1>8, <1>10, <1>11, <1>12, <1>13, ScansKeep

\* A job at the review or the plan; the scan file stays.
LEMMA PaperStep ==
  ASSUME Inv, KeepInv, NEW j \in Jobs, NEW r \in Runs, r = Run(j), ~At(j, "idle"),
         UNCHANGED <<scan, scans, starts>>, Totals',
         \A k \in Jobs \ {j} : job'[k] = job[k],
         \A s \in Runs \ {r} : /\ state'[s] = state[s] /\ report'[s] = report[s]
                               /\ enriched'[s] = enriched[s] /\ plan'[s] = plan[s],
         state'[r].status # "none", PapersKept(r)',
         job'[j].phase \in {"idle", "review", "plan"}, Tidy(job[j].at)', job'[j].todo \in Seq(Contents),
         job'[j].run \in {r, "none"}, job'[j].phase # "idle" => job'[j].run = r
  PROVE  KeepInv'
  <1>1. \A k \in Jobs \ {j} : Run(k) # r
    BY OwnRun
  <1>2. ScanKept(r)'
    <2>1. ScanKept(r)
      BY DEF KeepInv
    <2> QED
      BY <2>1 DEF ScanKept
  <1>3. ResultKept(j)'
    BY DEF ResultKept, At, Run
  <1>4. starts' >= starts
    BY BoundAssumption DEF KeepInv, Totals
  <1> QED
    BY <1>1, <1>2, <1>3, <1>4, KeepOne

LEMMA WriteReportKeep ==
  ASSUME Inv, KeepInv, NEW j \in Jobs, WriteReport(j)
  PROVE  KeepInv'
  <1>1. /\ job[j].phase = "report" /\ ~At(j, "idle")
        /\ UNCHANGED <<scan, enriched, plan, scans, starts, faults>>
    BY DEF WriteReport, At, Quiet
  <1>2. PICK r \in Runs : r = Run(j)
    BY <1>1, OwnRun
  <1>3. job[j] \in JobRec(job[j].todo, job[j].at)
    BY DEF Inv, Shapes, JobOK
  <1>4. /\ ResultKept(j) /\ PapersKept(r)
    BY DEF KeepInv
  <1>5. /\ Tidy(job[j].at) /\ state[r].status # "none" /\ job[j].todo \in Seq(Contents)
    BY <1>1, <1>2, <1>4 DEF ResultKept
  <1>6. Totals'
    BY <1>1 DEF KeepInv, Totals
  <1>7. /\ \A s \in Runs \ {r} : report'[s] = report[s]
        /\ report'[r] = [written |-> TRUE, of |-> job[j].at.comments]
    BY <1>2 DEF WriteReport, Inv, Shapes
  <1>8. PapersKept(r)'
    <2>1. report'[r] \in [written : BOOLEAN, of : Seq(Comments)] /\ IsInjective(report'[r].of)
      BY <1>5, <1>7 DEF Tidy, ScanFile
    <2> QED
      BY <1>1, <1>4, <2>1 DEF PapersKept
  <1>9. state \in [Runs -> [status : JobStatus, paths : SUBSET Path]]
    BY DEF Inv, Shapes
  <1>10. CASE ScanSucceeded(j)
    <2>1. PICK known : known = job[j].known \cup {"scan", "report"}
      OBVIOUS
    <2>2. /\ state' = [state EXCEPT ![r].paths = known]
          /\ job' = [job EXCEPT ![j].phase = "review", ![j].paths = {"scan", "report"}, ![j].known = known]
      BY <1>2, <1>3, <1>10, <2>1 DEF WriteReport, Inv, Shapes, JobRec
    <2>3. PICK w : w = [job[j] EXCEPT !.phase = "review", !.paths = {"scan", "report"}, !.known = known]
      OBVIOUS
    <2>4. w.phase = "review" /\ w.run = r /\ w.todo = job[j].todo /\ w.at = job[j].at
      BY <1>2, <1>3, <2>3 DEF JobRec, Run
    <2>5. job'[j] = w /\ \A k \in Jobs \ {j} : job'[k] = job[k]
      BY <2>2, <2>3 DEF Inv, Shapes
    <2>6. state'[r].status = state[r].status /\ \A s \in Runs \ {r} : state'[s] = state[s]
      BY <1>9, <2>2
    <2> QED
      BY <1>1, <1>2, <1>5, <1>6, <1>7, <1>8, <2>4, <2>5, <2>6, PaperStep
  <1>11. CASE ~ScanSucceeded(j)
    <2>1. /\ state' = [state EXCEPT ![r] = [status |-> "failed", paths |-> {"scan", "report"}]]
          /\ job' = [job EXCEPT ![j] = NoJob]
      BY <1>2, <1>11 DEF WriteReport, Ends
    <2>2. job'[j] = NoJob /\ \A k \in Jobs \ {j} : job'[k] = job[k]
      BY <2>1 DEF Inv, Shapes
    <2>3. state'[r].status # "none" /\ \A s \in Runs \ {r} : state'[s] = state[s]
      BY <1>9, <2>1
    <2> QED
      BY <1>1, <1>2, <1>6, <1>7, <1>8, <2>2, <2>3, AbsentTidy, NoJobType, PaperStep
  <1> QED
    BY <1>10, <1>11

LEMMA ReviewLeadsKeep ==
  ASSUME Inv, KeepInv, NEW j \in Jobs, ReviewLeads(j)
  PROVE  KeepInv'
  <1>1. /\ job[j].phase = "review" /\ ~At(j, "idle")
        /\ UNCHANGED <<scan, report, plan, scans, starts>>
    BY DEF ReviewLeads, At
  <1>2. PICK r \in Runs : r = Run(j)
    BY <1>1, OwnRun
  <1>3. job[j] \in JobRec(job[j].todo, job[j].at)
    BY DEF Inv, Shapes, JobOK
  <1>4. /\ ResultKept(j) /\ PapersKept(r)
    BY DEF KeepInv
  <1>5. /\ Tidy(job[j].at) /\ state[r].status # "none" /\ job[j].todo \in Seq(Contents)
    BY <1>1, <1>2, <1>4 DEF ResultKept
  <1>6. state \in [Runs -> [status : JobStatus, paths : SUBSET Path]]
    BY DEF Inv, Shapes
  <1>7. ASSUME NEW known, NEW paths,
               state' = state \/ state' = [state EXCEPT ![r].paths = known],
               job' = [job EXCEPT ![j].phase = "plan", ![j].paths = paths, ![j].known = known],
               faults' = faults, PapersKept(r)', \A s \in Runs \ {r} : enriched'[s] = enriched[s]
        PROVE  KeepInv'
    <2>1. PICK w : w = [job[j] EXCEPT !.phase = "plan", !.paths = paths, !.known = known]
      OBVIOUS
    <2>2. w.phase = "plan" /\ w.run = r /\ w.todo = job[j].todo /\ w.at = job[j].at
      BY <1>2, <1>3, <2>1 DEF JobRec, Run
    <2>3. job'[j] = w /\ \A k \in Jobs \ {j} : job'[k] = job[k]
      BY <1>7, <2>1 DEF Inv, Shapes
    <2>4. state'[r].status = state[r].status /\ \A s \in Runs \ {r} : state'[s] = state[s]
      <3>1. CASE state' = [state EXCEPT ![r].paths = known]
        BY <1>6, <3>1
      <3> QED  BY <1>7, <3>1
    <2>5. Totals'
      BY <1>1, <1>7 DEF KeepInv, Totals
    <2> QED
      BY <1>1, <1>2, <1>5, <1>7, <2>2, <2>3, <2>4, <2>5, PaperStep
  <1>8. CASE ~job[j].llm \/ Enriched(j)
    <2>1. /\ UNCHANGED <<state, enriched, faults>>
          /\ job' = [job EXCEPT ![j].phase = "plan",
                                ![j].paths = IF job[j].llm THEN @ \cup {"enriched"} ELSE @]
      BY <1>8 DEF ReviewLeads
    <2>2. PICK paths : paths = IF job[j].llm THEN job[j].paths \cup {"enriched"} ELSE job[j].paths
      OBVIOUS
    <2>3. job' = [job EXCEPT ![j].phase = "plan", ![j].paths = paths, ![j].known = job[j].known]
      BY <1>3, <2>1, <2>2 DEF Inv, Shapes, JobRec
    <2>4. PapersKept(r)'
      BY <1>1, <1>4, <2>1 DEF PapersKept
    <2> QED
      BY <1>7, <2>1, <2>3, <2>4
  <1>9. ASSUME NEW statuses \in Outcomes(Batches(Requested(ReportLeads(report[r].of)))),
               enriched' = [enriched EXCEPT ![r] = Enrichment(r, statuses)],
               state' = [state EXCEPT ![r].paths = job[j].known \cup {"enriched"}],
               job' = [job EXCEPT ![j].phase = "plan", ![j].paths = @ \cup {"enriched"},
                                  ![j].known = @ \cup {"enriched"}],
               UNCHANGED faults
        PROVE  KeepInv'
    <2>1. PICK known : known = job[j].known \cup {"enriched"}
      OBVIOUS
    <2>2. PICK paths : paths = job[j].paths \cup {"enriched"}
      OBVIOUS
    <2>3. /\ job' = [job EXCEPT ![j].phase = "plan", ![j].paths = paths, ![j].known = known]
          /\ state' = [state EXCEPT ![r].paths = known]
      BY <1>3, <1>9, <2>1, <2>2 DEF Inv, Shapes, JobRec
    <2>4. enriched'[r] = Enrichment(r, statuses) /\ \A s \in Runs \ {r} : enriched'[s] = enriched[s]
      BY <1>9 DEF Inv, Shapes
    <2>5. Reviews(Enrichment(r, statuses))
      BY <1>4, <1>9 DEF Reviews, Enrichment, PapersKept
    <2>6. PapersKept(r)'
      BY <1>1, <1>4, <2>4, <2>5 DEF PapersKept
    <2> QED
      BY <1>7, <1>9, <2>3, <2>4, <2>6
  <1>10. ASSUME Fault, Fails(j), UNCHANGED enriched
         PROVE  KeepInv'
    BY <1>1, <1>10, LeavesKeep DEF Fails, Ends
  <1> QED
    BY <1>2, <1>8, <1>9, <1>10 DEF ReviewLeads

LEMMA BuildPlanKeep ==
  ASSUME Inv, KeepInv, NEW j \in Jobs, BuildPlan(j)
  PROVE  KeepInv'
  <1>1. /\ job[j].phase = "plan" /\ ~At(j, "idle")
        /\ UNCHANGED <<scan, report, enriched, scans, starts, faults>>
    BY DEF BuildPlan, At, Quiet
  <1>2. PICK r \in Runs : r = Run(j)
    BY <1>1, OwnRun
  <1>3. PapersKept(r) /\ Totals'
    BY <1>1 DEF KeepInv, Totals
  <1>4. /\ \A s \in Runs \ {r} : plan'[s] = plan[s]
        /\ plan'[r] = Planned(r, job[j].llm)
    BY <1>2 DEF BuildPlan, Inv, Shapes
  <1>5. enriched[r].of \in Seq(Comments)
    <2>1. CASE enriched[r] = NoReview
      BY <2>1 DEF NoReview
    <2>2. CASE enriched[r] # NoReview
      <3>1. PICK of \in Seq(Comments) : \E by, counts :
              enriched[r] = [written |-> TRUE, of |-> of, by |-> by, counts |-> counts]
        BY <1>3, <2>2 DEF PapersKept, Reviews
      <3> QED  BY <3>1
    <2> QED  BY <2>1, <2>2
  <1>6. PapersKept(r)'
    <2>1. Planned(r, job[j].llm) \in [written : BOOLEAN, of : Seq(Comments)]
      BY <1>3, <1>5 DEF Planned, PapersKept
    <2> QED
      BY <1>1, <1>3, <1>4, <2>1 DEF PapersKept
  <1>7. /\ job' = [job EXCEPT ![j] = NoJob]
        /\ state' = [state EXCEPT ![r] = [status |-> Ending(job[j].at), paths |-> job[j].paths \cup {"plan"}]]
    BY <1>2 DEF BuildPlan, Ends
  <1>8. job'[j] = NoJob /\ \A k \in Jobs \ {j} : job'[k] = job[k]
    BY <1>7 DEF Inv, Shapes
  <1>9. state'[r].status # "none" /\ \A s \in Runs \ {r} : state'[s] = state[s]
    <2>1. state \in [Runs -> [status : JobStatus, paths : SUBSET Path]] /\ Ending(job[j].at) # "none"
      BY DEF Inv, Shapes, Ending
    <2> QED
      BY <1>7, <2>1
  <1> QED
    BY <1>1, <1>2, <1>3, <1>4, <1>6, <1>8, <1>9, AbsentTidy, NoJobType, PaperStep

\* KeepInv is inductive, together with Inv.
LEMMA KeepInit == Init => KeepInv
  <1> SUFFICES ASSUME Init PROVE KeepInv
    OBVIOUS
  <1>1. Totals
    BY BoundAssumption DEF Init, Totals
  <1>2. \A r \in Runs : ScanKept(r)
    <2>1. Len(Absent.comments) = 0
      BY AbsentTidy
    <2> QED
      BY <2>1, AbsentTidy DEF Init, ScanKept, Cap
  <1>3. \A r \in Runs : PapersKept(r)
    BY DEF Init, PapersKept, NoReport, Reviews, IsInjective
  <1>4. \A j \in Jobs : ResultKept(j)
    BY AbsentTidy DEF Init, ResultKept, At
  <1> QED
    BY <1>1, <1>2, <1>3, <1>4 DEF KeepInv

LEMMA KeepStep == Inv /\ KeepInv /\ [Next]_vars => KeepInv'
  <1> SUFFICES ASSUME Inv, KeepInv, [Next]_vars PROVE KeepInv'
    OBVIOUS
  <1>1. CASE Expire
    BY <1>1, ExpireKeep
  <1>2. ASSUME NEW j \in Jobs, NEW r \in Runs, NEW llm \in BOOLEAN, Start(j, r, llm)
        PROVE  KeepInv'
    BY <1>2, StartKeep
  <1>3. ASSUME NEW j \in Jobs, Unlink(j) \/ Take(j)
        PROVE  KeepInv'
    BY <1>3, GotoKeep DEF Unlink, Take, At
  <1>4. ASSUME NEW j \in Jobs, \/ Look(j) \/ Health(j)
                               \/ Search(j) \/ ScanContent(j) \/ WriteResult(j)
                               \/ WriteReport(j) \/ ReviewLeads(j) \/ BuildPlan(j) \/ Crash(j)
        PROVE  KeepInv'
    BY <1>4, LookKeep, HealthKeep, SearchKeep, ScanContentKeep, WriteResultKeep,
       WriteReportKeep, ReviewLeadsKeep, BuildPlanKeep, CrashKeep
  <1>5. CASE UNCHANGED vars
    <2>1. UNCHANGED <<state, scan, report, enriched, plan, job, scans, starts, faults>>
      BY <1>5 DEF vars, files
    <2>2. Totals'
      BY <2>1 DEF KeepInv, Totals
    <2>3. \A r \in Runs : ScanKept(r)' /\ PapersKept(r)'
      BY <2>1 DEF KeepInv, ScanKept, PapersKept
    <2>4. \A j \in Jobs : ResultKept(j)'
      BY <2>1 DEF KeepInv, ResultKept, At, Run
    <2> QED
      BY <2>2, <2>3, <2>4 DEF KeepInv
  <1> QED
    BY <1>1, <1>2, <1>3, <1>4, <1>5 DEF Next

LEMMA KeepHolds == Spec => []KeepInv
  BY KeepInit, KeepStep, InvHolds, PTL DEF Spec

\* What was scanned stays, through crashes, lost logins and rescans.
THEOREM ScansAreKept == Spec => ScannedStays
  <1> DEFINE Stays(r) == /\ ToSet(scan[r].contents) \subseteq ToSet(scan'[r].contents)
                         /\ ToSet(scan[r].comments) \subseteq ToSet(scan'[r].comments)
  <1>1. ASSUME Inv, KeepInv, KeepInv', NEW r \in Runs, NEW j \in Jobs, Search(j) \/ ScanContent(j) \/ WriteResult(j)
        PROVE  Stays(r)
    <2>1. ~At(j, "idle") /\ job[j].phase \in {"scan", "content", "end"}
      BY <1>1 DEF Search, ScanContent, WriteResult, At
    <2>2. CASE r # Run(j)
      <3>1. scan'[r] = scan[r]
        BY <1>1, <2>2 DEF Search, ScanContent, WriteResult, WriteScan, Inv, Shapes
      <3> QED  BY <3>1
    <2>3. CASE r = Run(j)
      <3>1. ResultKept(j) /\ ScanKept(r)
        BY <1>1 DEF KeepInv
      <3>2. CASE Search(j)
        <4>1. ~job[j].resumes => scan[r] = Absent
          BY <2>3, <3>1, <3>2, <2>1 DEF ResultKept, Search, At
        <4>2. scan' = scan \/ scan' = [scan EXCEPT ![r] = [scan[r] EXCEPT !.status = "completed"]]
          BY <2>3, <3>2, <4>1 DEF Search, WriteScan, Resumed
        <4>3. CASE scan' = scan
          BY <4>3
        <4>4. CASE scan' = [scan EXCEPT ![r] = [scan[r] EXCEPT !.status = "completed"]]
          <5>1. scan'[r] = [scan[r] EXCEPT !.status = "completed"]
            BY <1>1, <4>4 DEF Inv, Shapes
          <5>2. scan'[r].contents = scan[r].contents /\ scan'[r].comments = scan[r].comments
            BY <3>1, <5>1, Relabelled DEF ScanKept, ScanStatus
          <5> QED  BY <5>2
        <4> QED  BY <4>2, <4>3, <4>4
      <3>3. CASE ScanContent(j)
        <4>1. job[j].phase = "content" /\ ResultKept(j)' /\ Covers(job[j].at, scan[r])
          BY <1>1, <2>1, <2>3, <3>1, <3>3 DEF KeepInv, ResultKept, ScanContent, At
        <4>2. CASE scan' = scan
          BY <4>2
        <4>3. ASSUME NEW s, WriteScan(j, s, "completed"), Tidy(s), Covers(s, job[j].at)
              PROVE  Stays(r)
          <5>1. scan'[r] = [s EXCEPT !.status = "completed"]
            BY <1>1, <2>3, <4>3 DEF WriteScan, Inv, Shapes
          <5>2. scan'[r].contents = s.contents /\ scan'[r].comments = s.comments
            BY <4>3, <5>1, Relabelled DEF ScanStatus
          <5> QED
            BY <4>1, <4>3, <5>2 DEF Covers
        <4>4. scan' = scan \/ \E s : WriteScan(j, s, "completed") /\ Tidy(s) /\ Covers(s, job[j].at)
          BY <1>1, <3>3, ContentMerged
        <4> QED
          BY <4>2, <4>3, <4>4
      <3>4. CASE WriteResult(j)
        <4>1. job[j].phase \in {"content", "end"} /\ Tidy(job[j].at) /\ Covers(job[j].at, scan[r])
          BY <2>1, <2>3, <3>1, <3>4 DEF ResultKept, WriteResult
        <4>2. \/ scan'[r] = job[j].at
              \/ scan'[r] = [job[j].at EXCEPT !.status = ScanStatusOf(job[j].at)]
          BY <1>1, <2>3, <3>4 DEF WriteResult, Inv, Shapes
        <4>3. scan'[r].contents = job[j].at.contents /\ scan'[r].comments = job[j].at.comments
          <5>1. ScanStatusOf(job[j].at) \in ScanStatus
            BY DEF ScanStatusOf, ScanStatus
          <5>2. PICK s : s = [job[j].at EXCEPT !.status = ScanStatusOf(job[j].at)]
            OBVIOUS
          <5>3. s.contents = job[j].at.contents /\ s.comments = job[j].at.comments
            BY <4>1, <5>1, <5>2, Relabelled
          <5> QED
            BY <4>2, <5>2, <5>3
        <4> QED
          BY <4>1, <4>3 DEF Covers
      <3> QED
        BY <1>1, <3>2, <3>3, <3>4
    <2> QED  BY <2>2, <2>3
  <1>2. ASSUME [Next]_vars, NEW r \in Runs
        PROVE  \/ scan' = scan
               \/ \E j \in Jobs : Search(j) \/ ScanContent(j) \/ WriteResult(j)
    BY <1>2 DEF Next, vars, files, Expire, Start, Look, Unlink, Take, Health, WriteReport, ReviewLeads,
                BuildPlan, Crash
  <1>3. Inv /\ KeepInv /\ KeepInv' /\ [Next]_vars =>
          [\A r \in Runs : /\ ToSet(scan[r].contents) \subseteq ToSet(scan'[r].contents)
                           /\ ToSet(scan[r].comments) \subseteq ToSet(scan'[r].comments)]_vars
    BY <1>1, <1>2
  <1> QED
    BY <1>3, InvHolds, KeepHolds, PTL DEF Spec, ScannedStays

-----------------------------------------------------------------------------
(* The report: its leads in order.                                        *)

\* Sums over the subsets of a finite set, taken in the order of pick.
Picks(pick, S) == \A s \in SUBSET S : s # {} => pick[s] \in s

SumsUp(f, w, pick, S) == \A s \in SUBSET S : f[s] = IF s = {} THEN 0 ELSE w[pick[s]] + f[s \ {pick[s]}]

LEMMA SumsGive ==
  ASSUME NEW S, IsFiniteSet(S), NEW w \in [S -> Nat],
         NEW pick, Picks(pick, S)
  PROVE  \E f \in [SUBSET S -> Nat] : SumsUp(f, w, pick, S)
  <1> DEFINE U(k) == {s \in SUBSET S : Cardinality(s) <= k}
             Sums(f, k) == \A s \in U(k) : f[s] = IF s = {} THEN 0 ELSE w[pick[s]] + f[s \ {pick[s]}]
             P(k) == \E f \in [U(k) -> Nat] : Sums(f, k)
             T == {k \in Nat : P(k)}
  <1>1. \A s \in SUBSET S : IsFiniteSet(s) /\ Cardinality(s) \in Nat /\ Cardinality(s) <= Cardinality(S)
    BY FS_Subset, FS_CardinalityType
  <1>2. \A s \in SUBSET S : s # {} => Cardinality(s \ {pick[s]}) = Cardinality(s) - 1
    BY <1>1, FS_RemoveElement DEF Picks
  <1>3. \A s \in SUBSET S : Cardinality(s) = 0 <=> s = {}
    BY <1>1, FS_EmptySet
  <1>4. 0 \in T
    <2>1. U(0) = {{}}
      <3>1. \A s \in SUBSET S : Cardinality(s) <= 0 <=> s = {}
        BY <1>1, <1>3
      <3> QED  BY <3>1
    <2> DEFINE f == [s \in U(0) |-> 0]
    <2>2. f \in [U(0) -> Nat] /\ Sums(f, 0)
      BY <2>1
    <2>3. P(0)
      <3> HIDE DEF U, Sums, f
      <3> QED  BY <2>2
    <2> HIDE DEF P
    <2> QED  BY <2>3
  <1>5. ASSUME NEW k \in Nat, k \in T
        PROVE  k + 1 \in T
    <2>0. P(k)
      <3> HIDE DEF P
      <3> QED  BY <1>5
    <2>1. PICK g \in [U(k) -> Nat] : Sums(g, k)
      <3> HIDE DEF U, Sums
      <3> QED  BY <2>0
    <2> DEFINE f == [s \in U(k + 1) |-> IF s \in U(k) THEN g[s] ELSE w[pick[s]] + g[s \ {pick[s]}]]
    <2>2. ASSUME NEW s \in U(k + 1), s # {}
          PROVE  /\ pick[s] \in S /\ s \ {pick[s]} \in U(k) /\ s \ {pick[s]} \in U(k + 1)
                 /\ w[pick[s]] \in Nat /\ g[s \ {pick[s]}] \in Nat
      <3>1. s \in SUBSET S /\ pick[s] \in S /\ s \ {pick[s]} \in SUBSET S
        BY <2>2 DEF Picks
      <3>2. Cardinality(s \ {pick[s]}) <= k /\ Cardinality(s \ {pick[s]}) <= k + 1
        BY <1>1, <1>2, <2>2, <3>1
      <3> QED  BY <3>1, <3>2
    <2>3. {} \in U(k)
      BY <1>3
    <2>4. f \in [U(k + 1) -> Nat]
      <3> HIDE DEF U
      <3>1. ASSUME NEW s \in U(k + 1) PROVE f[s] \in Nat
        <4>1. CASE s \in U(k)
          BY <4>1
        <4>2. CASE s \notin U(k)
          <5>1. s # {}
            BY <2>3, <4>2
          <5>2. w[pick[s]] \in Nat /\ g[s \ {pick[s]}] \in Nat
            BY <2>2, <5>1
          <5> QED  BY <4>2, <5>2
        <4> QED  BY <4>1, <4>2
      <3> QED  BY <3>1
    <2>5. Sums(f, k + 1)
      <3> SUFFICES ASSUME NEW s \in U(k + 1)
                   PROVE  f[s] = IF s = {} THEN 0 ELSE w[pick[s]] + f[s \ {pick[s]}]
        OBVIOUS
      <3>1. CASE s = {}
        <4> HIDE DEF U
        <4> QED  BY <2>1, <2>3, <3>1
      <3>2. CASE s # {}
        <4> HIDE DEF U
        <4>1. f[s \ {pick[s]}] = g[s \ {pick[s]}]
          BY <2>2, <3>2
        <4>2. s \in U(k) => g[s] = w[pick[s]] + g[s \ {pick[s]}]
          BY <2>1, <3>2
        <4> QED  BY <3>2, <4>1, <4>2
      <3> QED  BY <3>1, <3>2
    <2>6. P(k + 1)
      <3> HIDE DEF U, Sums, f
      <3> QED  BY <2>4, <2>5
    <2> HIDE DEF P
    <2> QED  BY <2>6
  <1>6. Cardinality(S) \in Nat
    BY FS_CardinalityType
  <1>7. P(Cardinality(S))
    <2>1. Cardinality(S) \in T
      <3> HIDE DEF T
      <3> QED  BY <1>4, <1>5, <1>6, NatsIn
    <2> HIDE DEF P
    <2> QED  BY <2>1
  <1>8. U(Cardinality(S)) = SUBSET S
    BY <1>1
  <1> QED
    BY <1>7, <1>8 DEF SumsUp

\* What is summed up like that is a number.
LEMMA SumsIn ==
  ASSUME NEW S, IsFiniteSet(S), NEW w \in [S -> Nat],
         NEW pick, Picks(pick, S), NEW g, SumsUp(g, w, pick, S)
  PROVE  g[S] \in Nat
  <1> DEFINE T == {k \in Nat : \A s \in SUBSET S : Cardinality(s) = k => g[s] \in Nat}
  <1>1. \A s \in SUBSET S : IsFiniteSet(s) /\ Cardinality(s) \in Nat
    BY FS_Subset, FS_CardinalityType
  <1>2. 0 \in T
    <2>1. ASSUME NEW s \in SUBSET S, Cardinality(s) = 0
          PROVE  g[s] \in Nat
      <3>1. s = {}
        BY <1>1, <2>1, FS_EmptySet
      <3> QED  BY <3>1 DEF SumsUp
    <2> QED  BY <2>1
  <1>3. ASSUME NEW k \in Nat, k \in T
        PROVE  k + 1 \in T
    <2> SUFFICES ASSUME NEW s \in SUBSET S, Cardinality(s) = k + 1
                 PROVE  g[s] \in Nat
      OBVIOUS
    <2>0. Cardinality({}) = 0
      BY FS_EmptySet
    <2>1. CASE s = {}
      BY <2>0, <2>1
    <2>2. PICK x : x = pick[s] /\ (s # {} => x \in s)
      BY DEF Picks
    <2>a. CASE s # {}
      <3>1. w[x] \in Nat /\ s \ {x} \in SUBSET S /\ x \in s
        BY <2>2, <2>a
      <3>2. IsFiniteSet(s)
        BY <1>1
      <3>3. Cardinality(s \ {x}) = Cardinality(s) - 1
        BY <3>1, <3>2, FS_RemoveElement
      <3>4. g[s \ {x}] \in Nat
        BY <1>3, <3>1, <3>3
      <3>5. g[s] = w[x] + g[s \ {x}]
        BY <2>2, <2>a DEF SumsUp
      <3> QED  BY <3>1, <3>4, <3>5
    <2> QED
      BY <2>1, <2>a
  <1>4. Cardinality(S) \in T
    <2> HIDE DEF T
    <2> QED  BY <1>1, <1>2, <1>3, NatsIn
  <1> QED
    BY <1>4

\* The score of a comment is a number: a sum over the keywords found, and what strong ones add.
LEMMA ScoreIs ==
  ASSUME NEW c \in Comments
  PROVE  Score(c) \in Nat
  <1> DEFINE S == Effective(Found[c])
             w == [m \in S |-> Weight[m.category]]
             pick == [s \in SUBSET S |-> CHOOSE x \in s : TRUE]
             G(h) == [s \in SUBSET S |-> IF s = {} THEN 0
                        ELSE LET x == CHOOSE x \in s : TRUE IN Weight[x.category] + h[s \ {x}]]
             g == CHOOSE h : h = G(h)
  <1>1. IsFiniteSet(S) /\ S \subseteq [word : STRING, category : Category]
    <2>1. S \subseteq Found[c]
      BY DEF Effective
    <2>2. IsFiniteSet(Found[c]) /\ Found[c] \subseteq [word : STRING, category : Category]
      BY KeywordAssumption
    <2> QED
      BY <2>1, <2>2, FS_Subset
  <1>2. w \in [S -> Nat]
    <2>1. \A m \in S : m.category \in Category
      BY <1>1
    <2>2. \A k \in Category : Weight[k] \in Nat
      BY DEF Weight
    <2> HIDE DEF S
    <2> QED  BY <2>1, <2>2
  <1>3. Picks(pick, S)
    <2> HIDE DEF S
    <2> QED  BY DEF Picks
  <1>4. PICK f \in [SUBSET S -> Nat] : SumsUp(f, w, pick, S)
    <2> HIDE DEF S, w, pick, G, g
    <2> QED  BY <1>1, <1>2, <1>3, SumsGive
  <1>5. \A s \in SUBSET S : s # {} => w[pick[s]] = Weight[(CHOOSE x \in s : TRUE).category]
    <2>1. ASSUME NEW s \in SUBSET S, s # {}
          PROVE  w[pick[s]] = Weight[(CHOOSE x \in s : TRUE).category]
      <3>1. pick[s] = CHOOSE x \in s : TRUE
        <4> HIDE DEF S
        <4> QED  OBVIOUS
      <3>2. pick[s] \in S
        <4> HIDE DEF S, pick
        <4> QED  BY <1>3, <2>1 DEF Picks
      <3>3. w[pick[s]] = Weight[pick[s].category]
        <4> HIDE DEF S, pick
        <4> QED  BY <3>2
      <3> HIDE DEF S, w, pick
      <3> QED  BY <3>1, <3>3
    <2> HIDE DEF S, w, pick
    <2> QED  BY <2>1
  <1>6. \A h : G(h) = [s \in SUBSET S |-> IF s = {} THEN 0 ELSE w[pick[s]] + h[s \ {pick[s]}]]
    <2>1. ASSUME NEW h
          PROVE  G(h) = [s \in SUBSET S |-> IF s = {} THEN 0 ELSE w[pick[s]] + h[s \ {pick[s]}]]
      <3>1. \A s \in SUBSET S : pick[s] = CHOOSE x \in s : TRUE
        <4> HIDE DEF S
        <4> QED  OBVIOUS
      <3> HIDE DEF S, w, pick
      <3>2. ASSUME NEW s \in SUBSET S
            PROVE  (IF s = {} THEN 0 ELSE LET x == CHOOSE x \in s : TRUE IN Weight[x.category] + h[s \ {x}])
                     = IF s = {} THEN 0 ELSE w[pick[s]] + h[s \ {pick[s]}]
        <4>1. s # {} => w[pick[s]] = Weight[pick[s].category]
          BY <1>5, <3>1, Zenon
        <4>2. pick[s] = CHOOSE x \in s : TRUE
          BY <3>1
        <4> QED  BY <4>1, <4>2, Zenon
      <3> QED  BY <3>2, Zenon
    <2> HIDE DEF G, w, pick, S
    <2> QED  BY <2>1
  <1>7. f = G(f)
    <2> HIDE DEF S, w, pick, G
    <2> QED  BY <1>4, <1>6 DEF SumsUp
  <1>8. g = G(g)
    <2> HIDE DEF G
    <2> QED  BY <1>7
  <1>9. g[S] \in Nat
    <2>1. SumsUp(g, w, pick, S)
      <3> HIDE DEF S, w, pick, g, G
      <3> QED  BY <1>6, <1>8 DEF SumsUp
    <2> HIDE DEF S, w, pick, g, G
    <2> QED  BY <1>1, <1>2, <1>3, <2>1, SumsIn
  <1>10. MapThenSumSet(LAMBDA m : Weight[m.category], Effective(Found[c])) = g[S]
    BY DEF MapThenSumSet, MapThenFoldSet
  <1>11. Cardinality(StrongCategories(Effective(Found[c]))) \in Nat
    <2>1. StrongCategories(S) \subseteq Category
      BY <1>1 DEF StrongCategories
    <2>2. IsFiniteSet(Category)
      <3>1. \A X, x : IsFiniteSet(X) => IsFiniteSet(X \cup {x})
        BY FS_AddElement
      <3>2. IsFiniteSet({})
        BY FS_EmptySet
      <3>3. Category = ((((((({} \cup {"PRICE"}) \cup {"BUY"}) \cup {"DELIVERY"}) \cup {"AVAILABILITY"})
                           \cup {"PRODUCT_INFO"}) \cup {"LOCATION"}) \cup {"CONTACT"})
        BY DEF Category
      <3> HIDE DEF Category
      <3> QED  BY <3>1, <3>2, <3>3
    <2> QED
      BY <2>1, <2>2, FS_Subset, FS_CardinalityType
  <1> QED
    BY <1>9, <1>10, <1>11 DEF Score

\* A set of naturals has a least element.
LEMMA LeastIs ==
  ASSUME NEW S \in SUBSET Nat, S # {}
  PROVE  \E m \in S : \A k \in S : m <= k
  <1> SUFFICES ASSUME \A m \in S : \E k \in S : k < m
               PROVE  FALSE
    OBVIOUS
  <1> DEFINE T == {n \in Nat : \A k \in S : n <= k}
  <1>1. 0 \in T
    OBVIOUS
  <1>2. ASSUME NEW n \in Nat, n \in T
        PROVE  n + 1 \in T
    <2>1. n \notin S
      BY <1>2
    <2> QED  BY <1>2, <2>1
  <1>3. PICK k \in S : TRUE
    OBVIOUS
  <1>4. k + 1 \in T
    <2>1. Nat \subseteq T
      <3> HIDE DEF T
      <3> QED  BY <1>1, <1>2, NatsIn
    <2> QED  BY <2>1
  <1> QED
    BY <1>3, <1>4

\* A set of pairs that puts the elements of L one after the other.
Ordered(B, L) ==
  /\ \A i \in L : <<i, i>> \notin B
  /\ \A i, k \in L : i # k => <<i, k>> \in B \/ <<k, i>> \in B
  /\ \A i, k, m \in L : <<i, k>> \in B /\ <<k, m>> \in B => <<i, m>> \in B

RankIn(rank, B, L) == \A i \in L : rank[i] = Cardinality({k \in L : <<k, i>> \in B})

\* In a finite set, the number of those before it is the place of an element.
LEMMA RanksAre ==
  ASSUME NEW L, IsFiniteSet(L), NEW B, Ordered(B, L), NEW rank \in [L -> Nat], RankIn(rank, B, L)
  PROVE  /\ Cardinality(L) \in Nat
         /\ \A i \in L : rank[i] \in 0..(Cardinality(L) - 1)
         /\ \A i, k \in L : rank[i] = rank[k] => i = k
         /\ \A n \in 1..Cardinality(L) : \E i \in L : rank[i] = n - 1
  <1> DEFINE Below(i) == {k \in L : <<k, i>> \in B}
  <1>1. Cardinality(L) \in Nat
    BY FS_CardinalityType
  <1>2. ASSUME NEW i \in L
        PROVE  /\ IsFiniteSet(Below(i)) /\ Cardinality(Below(i)) \in Nat
               /\ rank[i] = Cardinality(Below(i)) /\ rank[i] <= Cardinality(L) - 1
    <2>1. Below(i) \in SUBSET (L \ {i})
      BY DEF Ordered
    <2>2. IsFiniteSet(L \ {i}) /\ Cardinality(L \ {i}) = Cardinality(L) - 1
      BY FS_RemoveElement
    <2>3. rank[i] = Cardinality(Below(i))
      BY DEF RankIn
    <2> HIDE DEF Below
    <2>4. IsFiniteSet(Below(i)) /\ Cardinality(Below(i)) <= Cardinality(L \ {i})
      BY <2>1, <2>2, FS_Subset
    <2>5. Cardinality(Below(i)) \in Nat
      BY <2>4, FS_CardinalityType
    <2> QED
      BY <2>2, <2>3, <2>4, <2>5
  <1>3. ASSUME NEW i \in L, NEW k \in L, <<i, k>> \in B
        PROVE  rank[i] < rank[k]
    <2>1. Below(i) \in SUBSET Below(k) /\ i \in Below(k) /\ i \notin Below(i)
      BY <1>3 DEF Ordered
    <2> HIDE DEF Below
    <2>2. /\ Cardinality(Below(i)) <= Cardinality(Below(k))
          /\ Cardinality(Below(k)) = Cardinality(Below(i)) => Below(k) = Below(i)
      BY <1>2, <2>1, FS_Subset
    <2>3. Cardinality(Below(i)) # Cardinality(Below(k))
      BY <2>1, <2>2
    <2> QED
      BY <1>2, <2>2, <2>3
  <1>4. \A i, k \in L : rank[i] = rank[k] => i = k
    <2>1. ASSUME NEW i \in L, NEW k \in L, rank[i] = rank[k], i # k
          PROVE  FALSE
      <3>1. rank[i] < rank[k] \/ rank[k] < rank[i]
        BY <1>3, <2>1 DEF Ordered
      <3> QED  BY <2>1, <3>1
    <2> QED  BY <2>1
  <1>5. ASSUME NEW i \in L
        PROVE  rank[i] \in 0..(Cardinality(L) - 1)
    <2>1. rank[i] \in Nat /\ rank[i] <= Cardinality(L) - 1
      BY <1>2
    <2> QED  BY <1>1, <2>1
  <1>6. ASSUME NEW n \in 1..Cardinality(L)
        PROVE  \E i \in L : rank[i] = n - 1
    <2> DEFINE T == 0..(Cardinality(L) - 1)
    <2>1. IsFiniteSet(T) /\ Cardinality(T) = Cardinality(L)
      <3>1. Cardinality(L) - 1 \in Int /\ 0 \in Int /\ Cardinality(L) >= 1
        BY <1>1
      <3> QED
        BY <1>1, <3>1, FS_Interval
    <2>2. rank \in Injection(L, T)
      BY <1>4, <1>5 DEF Injection, IsInjective
    <2>3. rank \in Surjection(L, T)
      <3> HIDE DEF T
      <3> QED  BY <2>1, <2>2, FS_Injection
    <2>4. n - 1 \in T
      BY <1>1
    <2> QED
      BY <2>3, <2>4 DEF Surjection
  <1> QED
    BY <1>1, <1>4, <1>5, <1>6

\* The report lists the leads among the comments, each of them once.
LEMMA ReportLeadsIs ==
  ASSUME NEW cs \in Seq(Comments), IsInjective(cs)
  PROVE  /\ ReportLeads(cs) \in Seq(Comments) /\ IsInjective(ReportLeads(cs))
         /\ ToSet(ReportLeads(cs)) = {c \in ToSet(cs) : IsLead(c)}
  <1> DEFINE First(c) == CHOOSE i \in DOMAIN cs :
                           cs[i].content = c.content /\ \A k \in 1..(i - 1) : cs[k].content # c.content
             Before(i, k) == LET a == cs[i]
                                 b == cs[k]
                             IN \/ First(a) < First(b)
                                \/ First(a) = First(b) /\ Score(a) > Score(b)
                                \/ First(a) = First(b) /\ Score(a) = Score(b) /\ i < k
             L == {i \in DOMAIN cs : IsLead(cs[i])}
             Rank(i) == Cardinality({k \in L : Before(k, i)})
             p == [n \in 1..Cardinality(L) |-> CHOOSE i \in L : Rank(i) = n - 1]
  <1>1. ReportLeads(cs) = [n \in 1..Cardinality(L) |-> cs[CHOOSE i \in L : Rank(i) = n - 1]]
    BY DEF ReportLeads
  <1>2. DOMAIN cs = 1..Len(cs) /\ Len(cs) \in Nat /\ \A i \in DOMAIN cs : cs[i] \in Comments
    OBVIOUS
  <1>3. ASSUME NEW i \in DOMAIN cs
        PROVE  First(cs[i]) \in Nat
    <2> DEFINE S == {k \in DOMAIN cs : cs[k].content = cs[i].content}
    <2>1. S \in SUBSET Nat /\ S # {}
      BY <1>2
    <2>2. PICK m \in S : \A k \in S : m <= k
      <3> HIDE DEF S
      <3> QED  BY <2>1, LeastIs
    <2>3. cs[m].content = cs[i].content /\ \A k \in 1..(m - 1) : cs[k].content # cs[i].content
      <3>1. \A k \in 1..(m - 1) : k \in DOMAIN cs /\ ~(m <= k)
        BY <1>2
      <3> QED  BY <2>2, <3>1
    <2> QED
      BY <1>2, <2>2, <2>3
  <1>4. \A i \in DOMAIN cs : Score(cs[i]) \in Nat
    BY <1>2, ScoreIs
  <1> DEFINE B == {q \in L \X L : Before(q[1], q[2])}
             rank == [i \in L |-> Rank(i)]
  <1>5. L \subseteq DOMAIN cs /\ L \subseteq Nat /\ IsFiniteSet(L)
    <2>1. L \in SUBSET (1..Len(cs)) /\ IsFiniteSet(1..Len(cs))
      <3>1. 1 \in Int /\ Len(cs) \in Int
        BY <1>2
      <3> QED  BY <1>2, <3>1, FS_Interval
    <2> QED
      BY <1>2, <2>1, FS_Subset
  <1>6. \A i, k \in L : <<i, k>> \in B <=> Before(i, k)
    <2> HIDE DEF Before, L
    <2> QED  OBVIOUS
  <1>7. Ordered(B, L)
    <2> DEFINE F(i) == First(cs[i])
               W(i) == Score(cs[i])
    <2>1. \A i \in L : F(i) \in Nat /\ W(i) \in Nat /\ i \in Nat
      <3> HIDE DEF First, L
      <3> QED  BY <1>3, <1>4, <1>5
    <2>2. \A i, k \in L : <<i, k>> \in B <=> \/ F(i) < F(k)
                                             \/ F(i) = F(k) /\ W(i) > W(k)
                                             \/ F(i) = F(k) /\ W(i) = W(k) /\ i < k
      <3> HIDE DEF First, L, B
      <3> QED  BY <1>6
    <2> HIDE DEF F, W, L, B, First
    <2>3. \A i \in L : <<i, i>> \notin B
      BY <2>1, <2>2
    <2>4. \A i, k \in L : i # k => <<i, k>> \in B \/ <<k, i>> \in B
      BY <2>1, <2>2
    <2>5. ASSUME NEW i \in L, NEW k \in L, NEW m \in L, <<i, k>> \in B, <<k, m>> \in B
          PROVE  <<i, m>> \in B
      <3>1. /\ F(i) \in Nat /\ F(k) \in Nat /\ F(m) \in Nat /\ W(i) \in Nat /\ W(k) \in Nat /\ W(m) \in Nat
            /\ i \in Nat /\ k \in Nat /\ m \in Nat
        BY <2>1
      <3>2. F(i) < F(k) \/ (F(i) = F(k) /\ W(i) > W(k)) \/ (F(i) = F(k) /\ W(i) = W(k) /\ i < k)
        BY <2>2, <2>5
      <3>3. F(k) < F(m) \/ (F(k) = F(m) /\ W(k) > W(m)) \/ (F(k) = F(m) /\ W(k) = W(m) /\ k < m)
        BY <2>2, <2>5
      <3>4. F(i) < F(m) \/ (F(i) = F(m) /\ W(i) > W(m)) \/ (F(i) = F(m) /\ W(i) = W(m) /\ i < m)
        BY <3>1, <3>2, <3>3
      <3> QED
        BY <2>2, <3>4
    <2> QED
      BY <2>3, <2>4, <2>5 DEF Ordered
  <1>8. /\ rank \in [L -> Nat] /\ RankIn(rank, B, L)
        /\ \A i \in L : Rank(i) = rank[i]
    <2>1. ASSUME NEW i \in L
          PROVE  Rank(i) = Cardinality({k \in L : <<k, i>> \in B}) /\ Rank(i) \in Nat
      <3>1. {k \in L : Before(k, i)} = {k \in L : <<k, i>> \in B}
        <4> HIDE DEF Before, L, B
        <4> QED  BY <1>6
      <3> DEFINE D == {k \in L : Before(k, i)}
      <3>2. D \in SUBSET L
        <4> HIDE DEF Before, L
        <4> QED  OBVIOUS
      <3>3. Cardinality(D) \in Nat
        <4> HIDE DEF D, L
        <4> QED  BY <1>5, <3>2, FS_Subset, FS_CardinalityType
      <3> HIDE DEF Before, L, B
      <3> QED  BY <3>1, <3>3
    <2>2. \A i \in L : rank[i] = Rank(i)
      <3> HIDE DEF Rank, L
      <3> QED  OBVIOUS
    <2>3. rank \in [L -> Nat]
      <3> HIDE DEF Rank, L
      <3> QED  BY <2>1
    <2> HIDE DEF rank, Rank, L, B
    <2> QED
      BY <2>1, <2>2, <2>3 DEF RankIn
  <1>9. /\ Cardinality(L) \in Nat
        /\ \A i \in L : rank[i] \in 0..(Cardinality(L) - 1)
        /\ \A i, k \in L : rank[i] = rank[k] => i = k
        /\ \A n \in 1..Cardinality(L) : \E i \in L : rank[i] = n - 1
    <2> HIDE DEF L, B, rank
    <2> QED  BY <1>5, <1>7, <1>8, RanksAre
  <1>10. \A n \in 1..Cardinality(L) : p[n] \in L /\ rank[p[n]] = n - 1
    <2> HIDE DEF L, rank, Rank
    <2>1. ASSUME NEW n \in 1..Cardinality(L)
          PROVE  p[n] \in L /\ rank[p[n]] = n - 1
      <3>1. PICK i \in L : Rank(i) = n - 1
        BY <1>8, <1>9
      <3>2. p[n] \in L /\ Rank(p[n]) = n - 1
        BY <3>1
      <3> QED  BY <1>8, <3>2
    <2> HIDE DEF p
    <2> QED  BY <2>1
  <1>11. ReportLeads(cs) = [n \in 1..Cardinality(L) |-> cs[p[n]]]
    <2> HIDE DEF L, Rank
    <2> QED  BY <1>1
  <1> HIDE DEF L, Rank, rank, p, B, Before, First
  <1>12. ReportLeads(cs) \in Seq(Comments) /\ DOMAIN ReportLeads(cs) = 1..Cardinality(L)
    BY <1>2, <1>5, <1>9, <1>10, <1>11
  <1>13. IsInjective(ReportLeads(cs))
    <2>1. ASSUME NEW m \in 1..Cardinality(L), NEW n \in 1..Cardinality(L), cs[p[m]] = cs[p[n]]
          PROVE  m = n
      <3>1. p[m] \in DOMAIN cs /\ p[n] \in DOMAIN cs
        BY <1>5, <1>10
      <3>2. p[m] = p[n]
        BY <2>1, <3>1 DEF IsInjective
      <3>3. m - 1 = n - 1
        BY <1>10, <3>2
      <3> QED  BY <1>9, <3>3
    <2> QED
      BY <1>11, <2>1 DEF IsInjective
  <1>14. ASSUME NEW c
         PROVE  c \in ToSet(ReportLeads(cs)) <=> c \in ToSet(cs) /\ IsLead(c)
    <2>1. ASSUME NEW n \in 1..Cardinality(L)
          PROVE  cs[p[n]] \in ToSet(cs) /\ IsLead(cs[p[n]])
      BY <1>5, <1>10 DEF L, ToSet
    <2>2. ASSUME NEW i \in DOMAIN cs, IsLead(cs[i])
          PROVE  \E n \in 1..Cardinality(L) : cs[p[n]] = cs[i]
      <3>1. i \in L
        BY <2>2 DEF L
      <3>2. rank[i] + 1 \in 1..Cardinality(L) /\ rank[i] \in Nat
        BY <1>9, <3>1
      <3>3. p[rank[i] + 1] \in L /\ rank[p[rank[i] + 1]] = rank[i]
        BY <1>10, <3>2
      <3>4. p[rank[i] + 1] = i
        BY <1>9, <3>1, <3>3
      <3> QED  BY <3>2, <3>4
    <2>3. c \in ToSet(ReportLeads(cs)) <=> \E n \in 1..Cardinality(L) : c = cs[p[n]]
      BY <1>11 DEF ToSet
    <2>4. c \in ToSet(cs) <=> \E i \in DOMAIN cs : c = cs[i]
      BY DEF ToSet
    <2> QED
      BY <2>1, <2>2, <2>3, <2>4
  <1> QED
    BY <1>12, <1>13, <1>14

\* A review speaks of the leads among the comments of its report.
LEMMA ReviewedLeads ==
  ASSUME NEW e, Reviews(e)
  PROVE  e.of \in Seq(Comments) /\ DOMAIN e.by = {c \in ToSet(e.of) : IsLead(c)}
  <1>1. CASE e = NoReview
    <2>1. NoReview.of = <<>> /\ NoReview.by = <<>>
      BY DEF NoReview
    <2>2. ToSet(<<>>) = {} /\ DOMAIN <<>> = {} /\ <<>> \in Seq(Comments)
      BY DEF ToSet
    <2> QED
      BY <1>1, <2>1, <2>2
  <1>2. ASSUME NEW of \in Seq(Comments), IsInjective(of), NEW statuses,
               e = [written |-> TRUE, of |-> of, by |-> Enriching(ReportLeads(of), statuses).by,
                    counts |-> Enriching(ReportLeads(of), statuses).counts]
        PROVE  e.of \in Seq(Comments) /\ DOMAIN e.by = {c \in ToSet(e.of) : IsLead(c)}
    <2>1. PICK leads : leads = ReportLeads(of)
      OBVIOUS
    <2>2. ToSet(leads) = {c \in ToSet(of) : IsLead(c)}
      BY <1>2, <2>1, ReportLeadsIs
    <2>3. DOMAIN Enriching(leads, statuses).by = ToSet(leads)
      BY DEF Enriching
    <2>4. e.of = of /\ e.by = Enriching(leads, statuses).by
      BY <1>2, <2>1
    <2> QED
      BY <2>2, <2>3, <2>4
  <1> QED
    BY <1>1, <1>2 DEF Reviews

\* What a run's scan file holds is of the right kind, without repetition, and no more
\* than was asked for, however many attempts wrote it.
THEOREM ScansAreBounded == Spec => []ScanInBounds
  <1>1. ASSUME Inv, KeepInv
        PROVE  ScanInBounds
    <2>1. /\ \A r \in Runs : Tidy(scan[r]) /\ scans[r] \in 0..starts /\ Len(scan[r].comments) <= Cap(scans[r])
          /\ starts \in 0..MaxStarts
      BY <1>1 DEF KeepInv, ScanKept, Totals
    <2>2. TypeOK
      <3>1. /\ lock \in [run : Runs \cup {"free", "torn"}, stale : BOOLEAN]
            /\ state \in [Runs -> [status : JobStatus, paths : SUBSET Path]]
            /\ bared \subseteq Jobs /\ outdated \subseteq Runs
        BY <1>1 DEF Inv, Shapes
      <3>2. scan \in [Runs -> ScanFile]
        <4>1. scan \in [Runs -> {scan[r] : r \in Runs}]
          BY <1>1 DEF Inv, Shapes
        <4> QED
          BY <2>1, <4>1 DEF Tidy
      <3>3. /\ report \in [Runs -> [written : BOOLEAN, of : Seq(Comments)]]
            /\ plan \in [Runs -> [written : BOOLEAN, of : Seq(Comments)]]
        <4>1. report \in [Runs -> {report[r] : r \in Runs}] /\ plan \in [Runs -> {plan[r] : r \in Runs}]
          BY <1>1 DEF Inv, Shapes
        <4>2. \A r \in Runs : /\ report[r] \in [written : BOOLEAN, of : Seq(Comments)]
                              /\ plan[r] \in [written : BOOLEAN, of : Seq(Comments)]
          BY <1>1 DEF KeepInv, PapersKept
        <4> QED
          BY <4>1, <4>2
      <3>4. ASSUME NEW r \in Runs
            PROVE  /\ enriched[r].of \in Seq(Comments)
                   /\ DOMAIN enriched[r].by = {c \in ToSet(enriched[r].of) : IsLead(c)}
        BY <1>1, ReviewedLeads DEF KeepInv, PapersKept
      <3>5. ASSUME NEW j \in Jobs
            PROVE  /\ job[j].phase \in Phases /\ job[j].run \in Runs \cup {"none"}
                   /\ job[j].known \subseteq Path /\ job[j].paths \subseteq Path
                   /\ job[j].at \in ScanFile
        <4>1. job[j] \in JobRec(job[j].todo, job[j].at)
          BY <1>1 DEF Inv, Shapes, JobOK
        <4>2. job[j].at \in ScanFile
          BY <1>1 DEF KeepInv, ResultKept, Tidy
        <4> QED
          BY <4>1, <4>2 DEF JobRec
      <3>6. /\ scans \in [Runs -> 0..MaxStarts] /\ starts \in 0..MaxStarts /\ faults \in 0..MaxFaults
        <4>1. scans \in [Runs -> Nat] /\ faults \in 0..MaxFaults /\ MaxStarts \in Nat
          BY <1>1, BoundAssumption DEF KeepInv, Totals
        <4>2. \A r \in Runs : scans[r] \in 0..MaxStarts
          BY <2>1, <4>1
        <4> QED
          BY <2>1, <4>1, <4>2
      <3> QED
        BY <3>1, <3>2, <3>3, <3>4, <3>5, <3>6 DEF TypeOK
    <2>3. NothingTwice
      BY <2>1 DEF Tidy, NothingTwice
    <2>4. CommentsBounded
      <3>1. ASSUME NEW r \in Runs
            PROVE  Len(scan[r].comments) <= CommentLimit + (IF scans[r] = 0 THEN 0 ELSE scans[r] - 1)
        <4>1. Len(scan[r].comments) <= Cap(scans[r]) /\ scans[r] \in Nat /\ CommentLimit \in Nat
          BY <2>1, <1>1, ReadLimitAssumption DEF KeepInv, Totals
        <4>2. Len(scan[r].comments) \in Nat
          BY <2>1 DEF Tidy, ScanFile
        <4> QED
          BY <4>1, <4>2 DEF Cap
      <3> QED
        BY <3>1 DEF CommentsBounded
    <2> QED
      BY <2>2, <2>3, <2>4 DEF ScanInBounds
  <1> QED
    BY <1>1, InvHolds, KeepHolds, PTL

-----------------------------------------------------------------------------
(* The review: what the LLM says reaches the lead it was said of.         *)

\* Every lead that was not replied to is asked about, once.
LEMMA RequestedIs ==
  ASSUME NEW leads \in Seq(Comments), IsInjective(leads)
  PROVE  /\ Requested(leads) \in Seq(Comments) /\ IsInjective(Requested(leads))
         /\ ToSet(Requested(leads)) = ToSet(leads) \ RepliedTo
  <1> DEFINE n == Len(leads)
             X == Seq(Comments)
             Step(l, c) == IF c \in RepliedTo THEN l ELSE Append(l, c)
             R == [p \in X \X (1..n) |-> Step(p[1], leads[p[2]])]
             Y == [k \in 0..n |-> {l \in Seq(Comments) : /\ IsInjective(l)
                                                          /\ ToSet(l) = {leads[i] : i \in 1..k} \ RepliedTo}]
  <1>1. n \in Nat /\ DOMAIN leads = 1..n /\ \A i \in 1..n : leads[i] \in Comments
    OBVIOUS
  <1>2. <<>> \in X
    OBVIOUS
  <1>3. ASSUME NEW l \in X, NEW c \in Comments
        PROVE  Step(l, c) \in X
    OBVIOUS
  <1>4. R \in [X \X (1..n) -> X] /\ \A l \in X, i \in 1..n : R[<<l, i>>] = Step(l, leads[i])
    <2> HIDE DEF X, Step
    <2> QED  BY <1>1, <1>3
  <1>5. PICK f \in [SUBSET (1..n) -> X] : IsFold(f, n, <<>>, R)
    <2> HIDE DEF X, R
    <2> QED  BY <1>1, <1>2, <1>4, FoldGives
  <1>y. <<>> \in Y[0]
    <2>1. 0 \in 0..n
      BY <1>1
    <2>2. {leads[i] : i \in 1..0} = {} /\ ToSet(<<>>) = {} /\ IsInjective(<<>>) /\ <<>> \in Seq(Comments)
      BY DEF ToSet, IsInjective
    <2> QED
      BY <2>1, <2>2
  <1>z. \A k \in 0..(n - 1) : \A l \in X : l \in Y[k] => R[<<l, k + 1>>] \in Y[k + 1]
    <2> SUFFICES ASSUME NEW k \in 0..(n - 1), NEW l \in X, l \in Y[k]
                 PROVE  R[<<l, k + 1>>] \in Y[k + 1]
      OBVIOUS
    <2>1. k \in 0..n /\ k + 1 \in 0..n /\ k + 1 \in 1..n /\ k + 1 \notin 1..k /\ 1..k \subseteq 1..n
      BY <1>1
    <2>2. l \in Seq(Comments) /\ IsInjective(l) /\ ToSet(l) = {leads[i] : i \in 1..k} \ RepliedTo
      BY <2>1
    <2>3. PICK c \in Comments : c = leads[k + 1]
      BY <1>1, <2>1
    <2>4. {leads[i] : i \in 1..(k + 1)} = {leads[i] : i \in 1..k} \cup {c}
      <3>1. 1..(k + 1) = (1..k) \cup {k + 1}
        BY <2>1
      <3> QED  BY <2>3, <3>1
    <2>5. c \notin {leads[i] : i \in 1..k}
      BY <1>1, <2>1, <2>3 DEF IsInjective
    <2>6. R[<<l, k + 1>>] = Step(l, c)
      <3> HIDE DEF R, Step
      <3> QED  BY <1>4, <2>1, <2>3
    <2>7. /\ Step(l, c) \in Seq(Comments) /\ IsInjective(Step(l, c))
          /\ ToSet(Step(l, c)) = {leads[i] : i \in 1..(k + 1)} \ RepliedTo
      <3>1. CASE c \in RepliedTo
        BY <2>2, <2>4, <3>1
      <3>2. CASE c \notin RepliedTo
        <4>1. c \notin ToSet(l)
          BY <2>2, <2>5
        <4>2. /\ Append(l, c) \in Seq(Comments) /\ IsInjective(Append(l, c))
              /\ ToSet(Append(l, c)) = ToSet(l) \cup {c}
          BY <2>2, <4>1, AppendApart
        <4> QED
          BY <2>2, <2>4, <3>2, <4>2
      <3> QED  BY <3>1, <3>2
    <2> HIDE DEF R, Step
    <2> QED
      BY <2>1, <2>6, <2>7
  <1> DEFINE G(h) == [s \in SUBSET DOMAIN leads |->
                        IF s = {} THEN <<>> ELSE Step(h[s \ {Max(s)}], leads[Max(s)])]
             g == CHOOSE h : h = G(h)
  <1>6. f = G(f)
    <2> HIDE DEF X, R, Step
    <2>1. ASSUME NEW s \in SUBSET (1..n), s # {}
          PROVE  f[s] = Step(f[s \ {Max(s)}], leads[Max(s)])
      <3>1. Max(s) \in 1..n /\ f[s \ {Max(s)}] \in X
        BY <1>1, <2>1, MaxIn
      <3>2. f[s] = R[<<f[s \ {Max(s)}], Max(s)>>]
        BY <1>5, <2>1 DEF IsFold
      <3> QED
        BY <3>1, <3>2, <1>4
    <2> QED
      BY <1>1, <1>5, <2>1 DEF IsFold
  <1>7. g = G(g)
    <2> HIDE DEF G
    <2> QED  BY <1>6
  <1>8. g[1..n] \in X /\ g[1..n] \in Y[n]
    <2>1. ASSUME NEW s \in SUBSET (1..n), s # {}, g[s \ {Max(s)}] \in X
          PROVE  g[s] = R[<<g[s \ {Max(s)}], Max(s)>>]
      <3> HIDE DEF X, R, Step, g
      <3>1. Max(s) \in 1..n
        BY <1>1, <2>1, MaxIn
      <3>2. g[s] = Step(g[s \ {Max(s)}], leads[Max(s)])
        BY <1>1, <1>7, <2>1
      <3> QED
        BY <2>1, <3>1, <3>2, <1>4
    <2> HIDE DEF X, R, g
    <2>2. \A s \in SUBSET (1..n) : s # {} /\ g[s \ {Max(s)}] \in X
                                    => g[s] = R[<<g[s \ {Max(s)}], Max(s)>>]
      BY <2>1
    <2>3. g[{}] = <<>> /\ g[{}] \in X /\ R \in [X \X (1..n) -> X]
      BY <1>2, <1>4, <1>7
    <2>4. n \in Nat
      BY <1>1
    <2>5. g[{}] \in Y[0]
      BY <2>3, <1>y
    <2>6. \A k \in 0..(n - 1) : \A x \in X : x \in Y[k] => R[<<x, k + 1>>] \in Y[k + 1]
      BY <1>z
    <2> HIDE DEF n, Y
    <2> QED
      BY <2>2, <2>3, <2>4, <2>5, <2>6, FoldThrough, Zenon
  <1>9. Requested(leads) = g[1..n]
    BY <1>1 DEF Requested, FoldLeft, MapThenFoldSet
  <1>10. n \in 0..n /\ {leads[i] : i \in 1..n} = ToSet(leads)
    BY <1>1 DEF ToSet
  <1> HIDE DEF g
  <1> QED
    BY <1>8, <1>9, <1>10

\* The batches hold the first k leads, each of them in one place.
Holds(batches, leads, k) ==
  /\ \A b \in DOMAIN batches : \A i \in DOMAIN batches[b] : \E j \in 1..k : batches[b][i] = leads[j]
  /\ \A j \in 1..k : \E b \in DOMAIN batches : \E i \in DOMAIN batches[b] : batches[b][i] = leads[j]
  /\ \A a, b \in DOMAIN batches : \A h \in DOMAIN batches[a] : \A i \in DOMAIN batches[b] :
       batches[a][h] = batches[b][i] => a = b /\ h = i
  /\ Len(batches) <= k /\ (k > 0 => Len(batches) > 0)

OnePlaceMore(more, bs, b0, i0) ==
  /\ b0 \in DOMAIN more /\ i0 \in DOMAIN more[b0] /\ Len(more) <= Len(bs) + 1
  /\ \A b \in DOMAIN bs : b \in DOMAIN more /\ \A i \in DOMAIN bs[b] : i \in DOMAIN more[b] /\ more[b][i] = bs[b][i]
  /\ \A b \in DOMAIN more : \A i \in DOMAIN more[b] :
       (b = b0 /\ i = i0) \/ (b \in DOMAIN bs /\ i \in DOMAIN bs[b])

\* One more place, for the next lead.
LEMMA HoldsMore ==
  ASSUME NEW bs \in Seq(Seq(Comments)), NEW more \in Seq(Seq(Comments)), NEW leads \in Seq(Comments), IsInjective(leads),
         NEW k \in 0..(Len(leads) - 1), Holds(bs, leads, k),
         NEW b0, NEW i0, OnePlaceMore(more, bs, b0, i0), more[b0][i0] = leads[k + 1]
  PROVE  Holds(more, leads, k + 1)
  <1> USE DEF OnePlaceMore
  <1>0. /\ \A b \in DOMAIN bs : \A i \in DOMAIN bs[b] : \E j \in 1..k : bs[b][i] = leads[j]
        /\ Len(bs) <= k
    BY Zenon DEF Holds
  <1>1. k \in Nat /\ k + 1 \in 1..(k + 1) /\ 1..k \subseteq 1..(k + 1) /\ \A j \in 1..(k + 1) : j \in 1..k \/ j = k + 1
    <2>1. k \in Nat
      OBVIOUS
    <2> QED  BY ONLY <2>1
  <1>2. \A j \in 1..k : leads[j] # leads[k + 1]
    <2>1. \A j \in 1..k : j \in DOMAIN leads /\ j # k + 1
      OBVIOUS
    <2>2. k + 1 \in DOMAIN leads
      OBVIOUS
    <2> QED
      BY <2>1, <2>2 DEF IsInjective
  <1>3. ASSUME NEW b \in DOMAIN bs, NEW i \in DOMAIN bs[b]
        PROVE  more[b][i] # leads[k + 1]
    <2>1. PICK j \in 1..k : bs[b][i] = leads[j]
      BY <1>0
    <2>2. more[b][i] = bs[b][i]
      OBVIOUS
    <2> QED  BY <1>2, <2>1, <2>2
  <1>4. ASSUME NEW b \in DOMAIN more, NEW i \in DOMAIN more[b]
        PROVE  \E j \in 1..(k + 1) : more[b][i] = leads[j]
    <2>1. CASE b = b0 /\ i = i0
      BY <1>1, <2>1
    <2>2. CASE b \in DOMAIN bs /\ i \in DOMAIN bs[b]
      <3>1. PICK j \in 1..k : bs[b][i] = leads[j]
        BY <1>0, <2>2
      <3> QED  BY <1>1, <2>2, <3>1
    <2> QED  BY <2>1, <2>2
  <1>5. ASSUME NEW j \in 1..(k + 1)
        PROVE  \E b \in DOMAIN more : \E i \in DOMAIN more[b] : more[b][i] = leads[j]
    <2>1. CASE j = k + 1
      BY <2>1
    <2>2. CASE j \in 1..k
      <3>1. PICK b \in DOMAIN bs : \E i \in DOMAIN bs[b] : bs[b][i] = leads[j]
        BY <2>2 DEF Holds
      <3> QED  BY <3>1
    <2> QED  BY <1>1, <2>1, <2>2
  <1>6. ASSUME NEW a \in DOMAIN more, NEW b \in DOMAIN more, NEW h \in DOMAIN more[a], NEW i \in DOMAIN more[b],
               more[a][h] = more[b][i]
        PROVE  a = b /\ h = i
    <2>1. CASE a \in DOMAIN bs /\ h \in DOMAIN bs[a] /\ b \in DOMAIN bs /\ i \in DOMAIN bs[b]
      <3>1. bs[a][h] = bs[b][i]
        BY <1>6, <2>1
      <3> QED  BY <2>1, <3>1 DEF Holds
    <2>2. CASE (a = b0 /\ h = i0) /\ (b = b0 /\ i = i0)
      BY <2>2
    <2>3. CASE (a = b0 /\ h = i0) /\ b \in DOMAIN bs /\ i \in DOMAIN bs[b]
      BY <1>3, <1>6, <2>3
    <2>4. CASE (b = b0 /\ i = i0) /\ a \in DOMAIN bs /\ h \in DOMAIN bs[a]
      BY <1>3, <1>6, <2>4
    <2>5. (a = b0 /\ h = i0) \/ (a \in DOMAIN bs /\ h \in DOMAIN bs[a])
      OBVIOUS
    <2>6. (b = b0 /\ i = i0) \/ (b \in DOMAIN bs /\ i \in DOMAIN bs[b])
      OBVIOUS
    <2> QED  BY <2>1, <2>2, <2>3, <2>4, <2>5, <2>6
  <1>7. Len(more) <= k + 1 /\ Len(more) > 0
    <2>1. Len(bs) \in Nat /\ Len(more) \in Nat /\ Len(bs) <= k
      BY <1>0
    <2>2. b0 \in 1..Len(more)
      OBVIOUS
    <2> QED  BY <1>1, <2>1, <2>2
  <1>8. \A a, b \in DOMAIN more : \A h \in DOMAIN more[a] : \A i \in DOMAIN more[b] :
          more[a][h] = more[b][i] => a = b /\ h = i
    BY <1>6
  <1> QED
    BY <1>4, <1>5, <1>7, <1>8 DEF Holds

\* The batches of a review hold all of its leads, each of them in one place.
LEMMA BatchesIs ==
  ASSUME NEW leads \in Seq(Comments), IsInjective(leads)
  PROVE  Batches(leads) \in Seq(Seq(Comments)) /\ Holds(Batches(leads), leads, Len(leads))
  <1> DEFINE n == Len(leads)
             X == Seq(Seq(Comments))
             Step(bs, c) ==
               LET current == IF bs = <<>> THEN <<>> ELSE Last(bs)
               IN IF current = <<>> \/ Len(current) >= BatchSize \/ PromptChars(Append(current, c)) > MaxBatchChars
                  THEN Append(bs, <<c>>)
                  ELSE Append(Front(bs), Append(current, c))
             R == [p \in X \X (1..n) |-> Step(p[1], leads[p[2]])]
             Y == [k \in 0..n |-> {bs \in X : Holds(bs, leads, k)}]
  <1>1. n \in Nat /\ DOMAIN leads = 1..n /\ \A i \in 1..n : leads[i] \in Comments
    OBVIOUS
  <1>2. <<>> \in X
    OBVIOUS
  <1>x. ASSUME NEW bs \in X, NEW c \in Comments
        PROVE  \/ Step(bs, c) = Append(bs, <<c>>)
               \/ bs # <<>> /\ Step(bs, c) = Append(Front(bs), Append(Last(bs), c))
    <2> HIDE DEF X
    <2> QED  OBVIOUS
  <1>w. ASSUME NEW bs \in X, bs # <<>>
        PROVE  /\ Len(bs) \in Nat \ {0} /\ Last(bs) \in Seq(Comments) /\ Last(bs) = bs[Len(bs)]
               /\ Front(bs) \in Seq(Seq(Comments)) /\ Len(Front(bs)) = Len(bs) - 1
               /\ \A b \in 1..(Len(bs) - 1) : Front(bs)[b] = bs[b]
    <2>1. Len(bs) \in Nat \ {0} /\ Len(bs) \in DOMAIN bs
      BY <1>w
    <2>2. bs[Len(bs)] \in Seq(Comments)
      BY <2>1
    <2>3. SubSeq(bs, 1, Len(bs) - 1) \in Seq(Seq(Comments)) /\ Len(SubSeq(bs, 1, Len(bs) - 1)) = Len(bs) - 1
      <3>1. 1 \in 1..(Len(bs) + 1) /\ Len(bs) - 1 \in (1 - 1)..Len(bs) /\ (Len(bs) - 1) - 1 + 1 = Len(bs) - 1
        BY <2>1
      <3>2. PICK z : z = Len(bs) - 1
        OBVIOUS
      <3>3. z \in (1 - 1)..Len(bs) /\ z - 1 + 1 = z /\ z \in Nat /\ z <= Len(bs)
        BY <2>1, <3>1, <3>2
      <3>4. SubSeq(bs, 1, z) \in Seq(Seq(Comments)) /\ Len(SubSeq(bs, 1, z)) = z
        BY <2>1, <3>1, <3>3, SubSeqProperties
      <3> QED  BY <3>2, <3>4
    <2>4. ASSUME NEW b \in 1..(Len(bs) - 1)
          PROVE  SubSeq(bs, 1, Len(bs) - 1)[b] = bs[b]
      <3>1. 1 \in Nat /\ Len(bs) - 1 \in Nat /\ Len(bs) - 1 <= Len(bs) /\ b \in 1..((Len(bs) - 1) - 1 + 1) /\ 1 + b - 1 = b
        BY <2>1
      <3>2. SubSeq(bs, 1, Len(bs) - 1)[b] = bs[1 + b - 1]
        BY <2>1, <3>1
      <3> QED  BY <3>1, <3>2
    <2> QED
      BY <2>1, <2>2, <2>3, <2>4 DEF Last, Front
  <1>3. ASSUME NEW bs \in X, NEW c \in Comments
        PROVE  Step(bs, c) \in X
    <2>1. Append(bs, <<c>>) \in X
      OBVIOUS
    <2>2. bs # <<>> => Append(Front(bs), Append(Last(bs), c)) \in X
      BY <1>w
    <2> HIDE DEF X, Step
    <2> QED
      BY <1>x, <2>1, <2>2
  <1>4. R \in [X \X (1..n) -> X] /\ \A bs \in X, i \in 1..n : R[<<bs, i>>] = Step(bs, leads[i])
    <2> HIDE DEF X, Step
    <2> QED  BY <1>1, <1>3
  <1>5. PICK f \in [SUBSET (1..n) -> X] : IsFold(f, n, <<>>, R)
    <2> HIDE DEF X, R
    <2> QED  BY <1>1, <1>2, <1>4, FoldGives
  <1>y. <<>> \in Y[0]
    <2>1. 0 \in 0..n
      BY <1>1
    <2>2. Holds(<<>>, leads, 0)
      BY DEF Holds
    <2> QED
      BY <1>2, <2>1, <2>2
  <1>z. \A k \in 0..(n - 1) : \A bs \in X : bs \in Y[k] => R[<<bs, k + 1>>] \in Y[k + 1]
    <2> SUFFICES ASSUME NEW k \in 0..(n - 1), NEW bs \in X, bs \in Y[k]
                 PROVE  R[<<bs, k + 1>>] \in Y[k + 1]
      OBVIOUS
    <2>1. k \in 0..n /\ k + 1 \in 0..n /\ k + 1 \in 1..n
      BY <1>1
    <2>2. Holds(bs, leads, k)
      BY <2>1
    <2>3. PICK c \in Comments : c = leads[k + 1]
      BY <1>1, <2>1
    <2>4. R[<<bs, k + 1>>] = Step(bs, c) /\ Step(bs, c) \in X
      <3> HIDE DEF R, Step, X
      <3> QED  BY <1>3, <1>4, <2>1, <2>3
    <2>5. CASE Step(bs, c) = Append(bs, <<c>>)
      <3>1. PICK more \in X : more = Append(bs, <<c>>)
        <4> HIDE DEF X, Step
        <4> QED  BY <2>4, <2>5
      <3>2. /\ DOMAIN bs = 1..Len(bs) /\ DOMAIN more = 1..(Len(bs) + 1) /\ Len(bs) \in Nat
            /\ Len(more) = Len(bs) + 1 /\ more[Len(bs) + 1] = <<c>> /\ \A b \in DOMAIN bs : more[b] = bs[b]
        BY <3>1
      <3>3. Len(bs) + 1 \in DOMAIN more /\ 1 \in DOMAIN more[Len(bs) + 1] /\ more[Len(bs) + 1][1] = leads[k + 1]
        BY <2>3, <3>2
      <3>4. \A b \in DOMAIN bs : b \in DOMAIN more /\ \A i \in DOMAIN bs[b] : i \in DOMAIN more[b] /\ more[b][i] = bs[b][i]
        BY <3>2
      <3>5. \A b \in DOMAIN more : \A i \in DOMAIN more[b] :
              (b = Len(bs) + 1 /\ i = 1) \/ (b \in DOMAIN bs /\ i \in DOMAIN bs[b])
        <4> SUFFICES ASSUME NEW b \in DOMAIN more, NEW i \in DOMAIN more[b]
                     PROVE  (b = Len(bs) + 1 /\ i = 1) \/ (b \in DOMAIN bs /\ i \in DOMAIN bs[b])
          OBVIOUS
        <4>1. CASE b = Len(bs) + 1
          BY <3>2, <4>1
        <4>2. CASE b # Len(bs) + 1
          <5>1. b \in DOMAIN bs
            BY <3>2, <4>2
          <5> QED  BY <3>2, <5>1
        <4> QED  BY <4>1, <4>2
      <3>6. Len(more) <= Len(bs) + 1
        BY <3>2
      <3>7. OnePlaceMore(more, bs, Len(bs) + 1, 1) /\ more[Len(bs) + 1][1] = leads[k + 1]
        BY <3>3, <3>4, <3>5, <3>6 DEF OnePlaceMore
      <3>8. Holds(more, leads, k + 1)
        BY <2>2, <3>7, HoldsMore
      <3> HIDE DEF R, Step, X
      <3> QED
        BY <2>1, <2>4, <2>5, <3>1, <3>8
    <2>6. CASE bs # <<>> /\ Step(bs, c) = Append(Front(bs), Append(Last(bs), c))
      <3> DEFINE m == Len(bs)
                 l == Last(bs)
      <3>1. PICK more \in X : more = Append(Front(bs), Append(l, c))
        BY <2>4, <2>6
      <3>2. /\ m \in Nat \ {0} /\ l \in Seq(Comments) /\ l = bs[m] /\ Front(bs) \in Seq(Seq(Comments))
            /\ Len(Front(bs)) = m - 1 /\ \A b \in 1..(m - 1) : Front(bs)[b] = bs[b]
        BY <1>w, <2>6
      <3>3. Append(l, c) \in Seq(Comments)
        BY <3>2
      <3>4. /\ DOMAIN bs = 1..m /\ DOMAIN more = 1..m /\ Len(more) = m /\ more[m] = Append(l, c)
            /\ \A b \in 1..(m - 1) : more[b] = bs[b]
        <4> HIDE DEF l
        <4>1. DOMAIN bs = 1..m
          OBVIOUS
        <4>2. DOMAIN more = 1..((m - 1) + 1) /\ Len(more) = (m - 1) + 1
          BY <3>1, <3>2, <3>3
        <4>3. more[m] = Append(l, c)
          BY <3>1, <3>2, <3>3
        <4>4. \A b \in 1..(m - 1) : more[b] = bs[b]
          BY <3>1, <3>2, <3>3
        <4> QED  BY <3>2, <4>1, <4>2, <4>3, <4>4
      <3>5. /\ DOMAIN l = 1..Len(l) /\ Len(l) \in Nat /\ DOMAIN Append(l, c) = 1..(Len(l) + 1)
            /\ Append(l, c)[Len(l) + 1] = c /\ \A i \in DOMAIN l : Append(l, c)[i] = l[i]
        <4> HIDE DEF l
        <4> QED  BY <3>2
      <3> HIDE DEF m, l
      <3>6. m \in DOMAIN more /\ Len(l) + 1 \in DOMAIN more[m] /\ more[m][Len(l) + 1] = leads[k + 1]
        BY <2>3, <3>2, <3>4, <3>5
      <3>7. ASSUME NEW b \in DOMAIN bs
            PROVE  b \in DOMAIN more /\ \A i \in DOMAIN bs[b] : i \in DOMAIN more[b] /\ more[b][i] = bs[b][i]
        <4>1. CASE b = m
          BY <3>2, <3>4, <3>5, <4>1
        <4>2. CASE b # m
          <5>1. b \in 1..(m - 1)
            BY <3>2, <3>4, <4>2
          <5> QED  BY <3>4, <5>1
        <4> QED  BY <4>1, <4>2
      <3>8. ASSUME NEW b \in DOMAIN more, NEW i \in DOMAIN more[b]
            PROVE  (b = m /\ i = Len(l) + 1) \/ (b \in DOMAIN bs /\ i \in DOMAIN bs[b])
        <4>1. CASE b = m
          BY <3>2, <3>4, <3>5, <4>1
        <4>2. CASE b # m
          <5>1. b \in 1..(m - 1)
            BY <3>2, <3>4, <4>2
          <5> QED  BY <3>4, <5>1
        <4> QED  BY <4>1, <4>2
      <3>9. Len(more) <= Len(bs) + 1
        BY <3>2, <3>4 DEF m
      <3>10. OnePlaceMore(more, bs, m, Len(l) + 1) /\ more[m][Len(l) + 1] = leads[k + 1]
        BY <3>6, <3>7, <3>8, <3>9 DEF OnePlaceMore
      <3>11. Holds(more, leads, k + 1)
        BY <2>2, <3>10, HoldsMore
      <3> HIDE DEF R, Step, X
      <3> QED
        BY <2>1, <2>4, <2>6, <3>1, <3>11 DEF l
    <2> HIDE DEF R, Step, X, Y
    <2> QED
      BY <1>x, <2>3, <2>5, <2>6
  <1> DEFINE G(h) == [s \in SUBSET DOMAIN leads |->
                        IF s = {} THEN <<>> ELSE Step(h[s \ {Max(s)}], leads[Max(s)])]
             g == CHOOSE h : h = G(h)
  <1>6. f = G(f)
    <2> HIDE DEF X, R, Step
    <2>1. ASSUME NEW s \in SUBSET (1..n), s # {}
          PROVE  f[s] = Step(f[s \ {Max(s)}], leads[Max(s)])
      <3>1. Max(s) \in 1..n /\ f[s \ {Max(s)}] \in X
        BY <1>1, <2>1, MaxIn
      <3>2. f[s] = R[<<f[s \ {Max(s)}], Max(s)>>]
        BY <1>5, <2>1 DEF IsFold
      <3> QED
        BY <3>1, <3>2, <1>4
    <2> QED
      BY <1>1, <1>5, <2>1 DEF IsFold
  <1>7. g = G(g)
    <2> HIDE DEF G
    <2> QED  BY <1>6
  <1>8. g[1..n] \in X /\ g[1..n] \in Y[n]
    <2>1. ASSUME NEW s \in SUBSET (1..n), s # {}, g[s \ {Max(s)}] \in X
          PROVE  g[s] = R[<<g[s \ {Max(s)}], Max(s)>>]
      <3> HIDE DEF X, R, Step, g
      <3>1. Max(s) \in 1..n
        BY <1>1, <2>1, MaxIn
      <3>2. g[s] = Step(g[s \ {Max(s)}], leads[Max(s)])
        BY <1>1, <1>7, <2>1
      <3> QED
        BY <2>1, <3>1, <3>2, <1>4
    <2> HIDE DEF X, R, g
    <2>2. \A s \in SUBSET (1..n) : s # {} /\ g[s \ {Max(s)}] \in X
                                    => g[s] = R[<<g[s \ {Max(s)}], Max(s)>>]
      BY <2>1
    <2>3. g[{}] = <<>> /\ g[{}] \in X /\ R \in [X \X (1..n) -> X]
      BY <1>2, <1>4, <1>7
    <2>4. n \in Nat
      BY <1>1
    <2>5. g[{}] \in Y[0]
      BY <2>3, <1>y
    <2>6. \A k \in 0..(n - 1) : \A x \in X : x \in Y[k] => R[<<x, k + 1>>] \in Y[k + 1]
      BY <1>z
    <2> HIDE DEF n, Y
    <2> QED
      BY <2>2, <2>3, <2>4, <2>5, <2>6, FoldThrough, Zenon
  <1>9. Batches(leads) = g[1..n]
    BY <1>1 DEF Batches, FoldLeft, MapThenFoldSet
  <1>10. n \in 0..n
    BY <1>1
  <1> HIDE DEF g
  <1> QED
    BY <1>8, <1>9, <1>10

\* What a batch's review says of a lead: what the LLM said of that very lead, or that
\* it said nothing that can be used.
LEMMA SaidIs ==
  ASSUME NEW batch \in Seq(Comments), NEW status \in {"success", "timeout", "failed"}, NEW i \in DOMAIN batch
  PROVE  /\ Said(batch, status)[i] \in {"missing", "failed", "timeout", "yes", "no"}
         /\ Said(batch, status)[i] \in {"yes", "no"} => Said(batch, status)[i] = Opinion[batch[i]]
  <1>1. Said(batch, status)[i] = IF status = "success" THEN Verdict(batch, i) ELSE status
    BY DEF Said
  <1>2. CASE status # "success"
    BY <1>1, <1>2
  <1>3. CASE status = "success"
    <2> DEFINE mine == {a \in Answer(batch) : a.index = i}
    <2>1. \A a \in mine : a.verdict = Opinion[batch[i]]
      BY DEF Answer
    <2>2. Opinion[batch[i]] \in {"yes", "no", "bad", "silent"}
      <3>1. batch[i] \in Comments
        OBVIOUS
      <3> QED  BY <3>1, KeywordAssumption
    <2>3. \A a \in mine : a.verdict # "silent"
      BY DEF Answer
    <2>4. Verdict(batch, i) = CASE mine = {} -> "missing"
                                [] \E a \in mine : a.verdict = "bad" -> "failed"
                                [] OTHER -> (CHOOSE a \in mine : TRUE).verdict
      BY DEF Verdict
    <2> HIDE DEF mine
    <2>5. CASE mine = {}
      <3>1. Verdict(batch, i) = "missing"
        BY <2>4, <2>5
      <3> QED  BY <1>1, <1>3, <3>1
    <2>6. CASE mine # {} /\ \E a \in mine : a.verdict = "bad"
      <3>1. Verdict(batch, i) = "failed"
        BY <2>4, <2>6
      <3> QED  BY <1>1, <1>3, <3>1
    <2>7. CASE mine # {} /\ ~\E a \in mine : a.verdict = "bad"
      <3>1. PICK a \in mine : a = CHOOSE x \in mine : TRUE
        BY <2>7
      <3>2. Verdict(batch, i) = a.verdict
        BY <2>4, <2>7, <3>1
      <3>3. a.verdict \in {"yes", "no"} /\ a.verdict = Opinion[batch[i]]
        BY <2>1, <2>2, <2>3, <2>7
      <3> QED  BY <1>1, <1>3, <3>2, <3>3
    <2> QED  BY <2>5, <2>6, <2>7
  <1> QED
    BY <1>2, <1>3

\* How a batch comes back.
LEMMA StatusIs ==
  ASSUME NEW batches, NEW statuses \in Outcomes(batches), NEW b \in DOMAIN batches
  PROVE  statuses[b] \in {"success", "timeout", "failed"}
  <1>1. \A calls \in Calls : BatchStatus(calls) \in {"success", "timeout", "failed"}
    BY DEF BatchStatus
  <1> QED
    BY <1>1 DEF Outcomes

\* A sequence without repetitions is as long as it has elements.
LEMMA AsMany ==
  ASSUME NEW T, NEW l \in Seq(T), IsInjective(l)
  PROVE  IsFiniteSet(ToSet(l)) /\ Cardinality(ToSet(l)) = Len(l)
  <1>1. Len(l) \in Nat /\ DOMAIN l = 1..Len(l) /\ 1 \in Int /\ Len(l) \in Int
    OBVIOUS
  <1>2. IsFiniteSet(1..Len(l)) /\ Cardinality(1..Len(l)) = Len(l)
    <2>1. Cardinality(1..Len(l)) = IF 1 > Len(l) THEN 0 ELSE Len(l) - 1 + 1
      BY <1>1, FS_Interval
    <2> QED  BY <1>1, <2>1, FS_Interval
  <1>3. l \in Bijection(1..Len(l), ToSet(l))
    BY <1>1 DEF Bijection, Injection, Surjection, ToSet
  <1> QED
    BY <1>2, <1>3, FS_Bijection DEF ExistsBijection

\* The leads of a review, and what was decided on each of them.
LEMMA ReviewIs ==
  ASSUME NEW asked \in Seq(Comments), IsInjective(asked), NEW statuses \in Outcomes(Batches(asked))
  PROVE  /\ DOMAIN Review(asked, statuses) = ToSet(asked)
         /\ \A c \in ToSet(asked) :
              Review(asked, statuses)[c] \in {"rule"} \cup ({Opinion[c]} \cap {"yes", "no"})
         /\ Summary(asked, statuses).success
              = Cardinality({c \in ToSet(asked) : Review(asked, statuses)[c] # "rule"})
  <1> DEFINE bs == Batches(asked)
             places == UNION {{<<b, i>> : i \in DOMAIN bs[b]} : b \in DOMAIN bs}
             Place(c) == CHOOSE p \in places : bs[p[1]][p[2]] = c
             Told(p) == Said(bs[p[1]], statuses[p[1]])[p[2]]
             by == [c \in ToSet(asked) |-> Decision(Told(Place(c)))]
             D == {p \in places : ItemStatus(bs[p[1]], statuses[p[1]], p[2]) = "success"}
             C == {c \in ToSet(asked) : by[c] # "rule"}
  <1>1. Review(asked, statuses) = by /\ Summary(asked, statuses).success = Cardinality(D)
    BY DEF Review, Summary
  <1>2. bs \in Seq(Seq(Comments)) /\ Holds(bs, asked, Len(asked))
    BY BatchesIs
  <1>3. DOMAIN asked = 1..Len(asked) /\ ToSet(asked) = {asked[j] : j \in 1..Len(asked)}
    BY DEF ToSet
  <1>4. ASSUME NEW p \in places
        PROVE  /\ p[1] \in DOMAIN bs /\ p[2] \in DOMAIN bs[p[1]] /\ p = <<p[1], p[2]>>
               /\ bs[p[1]] \in Seq(Comments) /\ bs[p[1]][p[2]] \in ToSet(asked)
               /\ statuses[p[1]] \in {"success", "timeout", "failed"}
    <2>1. PICK b \in DOMAIN bs : \E i \in DOMAIN bs[b] : p = <<b, i>>
      BY <1>4
    <2>2. PICK i \in DOMAIN bs[b] : p = <<b, i>>
      BY <2>1
    <2>3. bs[b] \in Seq(Comments)
      BY <1>2
    <2>4. bs[b][i] \in ToSet(asked)
      BY <1>2, <1>3 DEF Holds
    <2>5. statuses[b] \in {"success", "timeout", "failed"}
      BY StatusIs
    <2> HIDE DEF bs
    <2> QED
      BY <2>1, <2>2, <2>3, <2>4, <2>5
  <1>5. ASSUME NEW p \in places, NEW q \in places, bs[p[1]][p[2]] = bs[q[1]][q[2]]
        PROVE  p = q
    <2>1. p[1] = q[1] /\ p[2] = q[2]
      BY <1>2, <1>4, <1>5 DEF Holds
    <2> QED
      BY <1>4, <2>1
  <1>6. ASSUME NEW c \in ToSet(asked)
        PROVE  Place(c) \in places /\ bs[Place(c)[1]][Place(c)[2]] = c
    <2>1. PICK b \in DOMAIN bs : \E i \in DOMAIN bs[b] : bs[b][i] = c
      BY <1>2, <1>3 DEF Holds
    <2>2. PICK i \in DOMAIN bs[b] : bs[b][i] = c
      BY <2>1
    <2>3. <<b, i>> \in places /\ bs[<<b, i>>[1]][<<b, i>>[2]] = c
      <3> HIDE DEF bs
      <3> QED  BY <2>2
    <2> HIDE DEF bs, places
    <2> QED
      BY <2>3
  <1> HIDE DEF bs, places, Place
  <1>7. ASSUME NEW p \in places
        PROVE  /\ Told(p) \in {"missing", "failed", "timeout", "yes", "no"}
               /\ Told(p) \in {"yes", "no"} => Told(p) = Opinion[bs[p[1]][p[2]]]
    BY <1>4, SaidIs
  <1>8. ASSUME NEW p \in places
        PROVE  p \in D <=> Decision(Told(p)) # "rule"
    BY <1>7 DEF ItemStatus, Decision
  <1> HIDE DEF Told
  <1>9. ASSUME NEW c \in ToSet(asked)
        PROVE  by[c] \in {"rule"} \cup ({Opinion[c]} \cap {"yes", "no"})
    BY <1>6, <1>7 DEF Decision
  <1>10. IsFiniteSet(C)
    <2>1. C \in SUBSET ToSet(asked) /\ IsFiniteSet(ToSet(asked))
      BY AsMany
    <2> QED  BY <2>1, FS_Subset
  <1> DEFINE f == [c \in C |-> Place(c)]
  <1>11. f \in Bijection(C, D)
    <2>1. ASSUME NEW c \in C
          PROVE  f[c] \in D /\ f[c] = Place(c) /\ c \in ToSet(asked)
      <3>1. c \in ToSet(asked) /\ by[c] = Decision(Told(Place(c))) /\ by[c] # "rule"
        OBVIOUS
      <3>2. Place(c) \in D
        BY <1>6, <1>8, <3>1
      <3> QED  BY <3>1, <3>2
    <2>2. ASSUME NEW p \in D
          PROVE  \E c \in C : f[c] = p
      <3>1. PICK c \in ToSet(asked) : c = bs[p[1]][p[2]]
        BY <1>4
      <3>2. Place(c) = p
        BY <1>5, <1>6, <3>1
      <3>3. by[c] = Decision(Told(p))
        BY <3>2
      <3>4. c \in C
        BY <1>8, <3>3
      <3> QED  BY <2>1, <3>2, <3>4
    <2>3. ASSUME NEW c \in C, NEW d \in C, f[c] = f[d]
          PROVE  c = d
      <3>1. Place(c) = Place(d) /\ c \in ToSet(asked) /\ d \in ToSet(asked)
        BY <2>1, <2>3
      <3> QED  BY <1>6, <3>1
    <2>4. f \in [C -> D]
      <3> HIDE DEF C, D
      <3> QED  BY <2>1
    <2>5. f \in Surjection(C, D)
      <3> HIDE DEF C, D, f
      <3> QED  BY <2>2, <2>4 DEF Surjection
    <2>6. f \in Injection(C, D)
      <3> HIDE DEF C, D, f
      <3> QED  BY <2>3, <2>4 DEF Injection, IsInjective
    <2> HIDE DEF C, D, f
    <2> QED  BY <2>5, <2>6 DEF Bijection
  <1>12. Cardinality(D) = Cardinality(C)
    <2> HIDE DEF C, D, f
    <2> QED  BY <1>10, <1>11, FS_Bijection DEF ExistsBijection
  <1> QED
    BY <1>1, <1>9, <1>12

\* Decisions of the LLM or of the rules, and their counts.
DecidedAndCounted(by, counts) ==
  /\ \A c \in DOMAIN by :
       by[c] \in {"rule"} \cup (IF c \in RepliedTo THEN {} ELSE {Opinion[c]} \cap {"yes", "no"})
  /\ counts.success = Cardinality({c \in DOMAIN by : by[c] # "rule"})
  /\ counts.fallback = Cardinality(DOMAIN by \ ({c \in DOMAIN by : by[c] # "rule"} \cup RepliedTo))
  /\ counts.requested + counts.skipped = Cardinality(DOMAIN by)
  /\ counts.calls <= counts.requested /\ (counts.requested > 0 => counts.calls > 0)

\* What a review's file holds.
LEMMA ReviewAgrees ==
  ASSUME NEW leads \in Seq(Comments), IsInjective(leads), NEW statuses \in Outcomes(Batches(Requested(leads)))
  PROVE  DecidedAndCounted(Enriching(leads, statuses).by, Enriching(leads, statuses).counts)
  <1>0. PICK by, counts : by = Enriching(leads, statuses).by /\ counts = Enriching(leads, statuses).counts
    OBVIOUS
  <1>1. PICK asked : asked = Requested(leads)
    OBVIOUS
  <1>2. asked \in Seq(Comments) /\ IsInjective(asked) /\ ToSet(asked) = ToSet(leads) \ RepliedTo
    BY <1>1, RequestedIs
  <1>3. PICK said : said = Review(asked, statuses)
    OBVIOUS
  <1>4. statuses \in Outcomes(Batches(asked))
    BY <1>1
  <1>5. /\ DOMAIN said = ToSet(asked)
        /\ \A c \in ToSet(asked) : said[c] \in {"rule"} \cup ({Opinion[c]} \cap {"yes", "no"})
        /\ Summary(asked, statuses).success = Cardinality({c \in ToSet(asked) : said[c] # "rule"})
    <2>1. asked \in Seq(Comments) /\ IsInjective(asked)
      BY <1>2
    <2>2. /\ DOMAIN Review(asked, statuses) = ToSet(asked)
          /\ \A c \in ToSet(asked) :
               Review(asked, statuses)[c] \in {"rule"} \cup ({Opinion[c]} \cap {"yes", "no"})
          /\ Summary(asked, statuses).success
               = Cardinality({c \in ToSet(asked) : Review(asked, statuses)[c] # "rule"})
      BY <1>4, <2>1, ReviewIs, Zenon
    <2> QED
      BY <1>3, <2>2, Zenon
  <1>6. by = [c \in ToSet(leads) |-> IF c \in RepliedTo THEN "rule" ELSE said[c]]
    BY <1>0, <1>1, <1>3 DEF Enriching
  <1>7. /\ counts.skipped = Len(leads) - Len(asked) /\ counts.requested = Len(asked)
        /\ counts.success = Summary(asked, statuses).success
        /\ counts.fallback = Summary(asked, statuses).fallback /\ counts.calls = Summary(asked, statuses).calls
    BY <1>0, <1>1 DEF Enriching, ReviewCounts
  <1>8. /\ Summary(asked, statuses).fallback = Len(asked) - Summary(asked, statuses).success
        /\ Summary(asked, statuses).calls = Len(Batches(asked))
    BY DEF Summary
  <1>9. /\ IsFiniteSet(ToSet(leads)) /\ Cardinality(ToSet(leads)) = Len(leads) /\ Len(leads) \in Nat
        /\ IsFiniteSet(ToSet(asked)) /\ Cardinality(ToSet(asked)) = Len(asked) /\ Len(asked) \in Nat
    <2>1. IsFiniteSet(ToSet(leads)) /\ Cardinality(ToSet(leads)) = Len(leads)
      BY AsMany
    <2>2. IsFiniteSet(ToSet(asked)) /\ Cardinality(ToSet(asked)) = Len(asked)
      BY <1>2, AsMany
    <2>3. Len(leads) \in Nat /\ Len(asked) \in Nat
      BY <1>2
    <2> QED
      BY <2>1, <2>2, <2>3
  <1> DEFINE C == {c \in ToSet(asked) : said[c] # "rule"}
  <1>10. C = {c \in DOMAIN by : by[c] # "rule"}
    BY <1>2, <1>6
  <1>11. DOMAIN by \ (C \cup RepliedTo) = ToSet(asked) \ C
    BY <1>2, <1>6
  <1>12. Cardinality(ToSet(asked) \ C) = Len(asked) - Cardinality(C)
    <2>1. C \subseteq ToSet(asked)
      OBVIOUS
    <2> HIDE DEF C
    <2>2. ToSet(asked) \cap C = C
      BY <2>1
    <2>3. PICK A : A = ToSet(asked)
      OBVIOUS
    <2>4. IsFiniteSet(A) /\ Cardinality(A) = Len(asked) /\ A \cap C = C
      BY <1>9, <2>2, <2>3
    <2>5. Cardinality(A \ C) = Cardinality(A) - Cardinality(A \cap C)
      BY <2>4, FS_Difference
    <2> QED
      BY <2>3, <2>4, <2>5
  <1>13. Len(Batches(asked)) <= Len(asked) /\ (Len(asked) > 0 => Len(Batches(asked)) > 0)
    <2>1. Holds(Batches(asked), asked, Len(asked))
      BY <1>2, BatchesIs
    <2> QED
      BY <2>1, Zenon DEF Holds
  <1>14. \A c \in DOMAIN by :
            by[c] \in {"rule"} \cup (IF c \in RepliedTo THEN {} ELSE {Opinion[c]} \cap {"yes", "no"})
    BY <1>2, <1>5, <1>6
  <1>15. counts.success = Cardinality(C) /\ counts.fallback = Cardinality(ToSet(asked) \ C)
    BY <1>5, <1>7, <1>8, <1>12
  <1>16. counts.requested + counts.skipped = Cardinality(DOMAIN by) /\ DOMAIN by = ToSet(leads)
    BY <1>6, <1>7, <1>9
  <1>17. counts.calls <= counts.requested /\ (counts.requested > 0 => counts.calls > 0)
    BY <1>7, <1>8, <1>13
  <1> HIDE DEF C
  <1>18. DecidedAndCounted(by, counts)
    BY <1>10, <1>11, <1>14, <1>15, <1>16, <1>17 DEF DecidedAndCounted
  <1> QED
    BY <1>0, <1>18

\* What the LLM said reaches the lead it was said of, and is counted as such.
THEOREM AnswersArrive == Spec => []AnswersReachTheirLead
  <1>1. ASSUME NEW e, Reviews(e)
        PROVE  (e.written => DecidedAndCounted(e.by, e.counts)) /\ (~e.written => DOMAIN e.by = {})
    <2>1. CASE e = NoReview
      <3>1. NoReview.by = <<>> /\ NoReview.written = FALSE /\ DOMAIN <<>> = {}
        BY DEF NoReview
      <3> QED  BY <2>1, <3>1
    <2>2. ASSUME NEW of \in Seq(Comments), IsInjective(of),
                 NEW statuses \in Outcomes(Batches(Requested(ReportLeads(of)))),
                 e = [written |-> TRUE, of |-> of, by |-> Enriching(ReportLeads(of), statuses).by,
                      counts |-> Enriching(ReportLeads(of), statuses).counts]
          PROVE  e.written /\ DecidedAndCounted(e.by, e.counts)
      <3>1. PICK leads : leads = ReportLeads(of)
        OBVIOUS
      <3>2. leads \in Seq(Comments) /\ IsInjective(leads)
        BY <2>2, <3>1, ReportLeadsIs
      <3>3. statuses \in Outcomes(Batches(Requested(leads)))
        BY <3>1
      <3>4. PICK by, counts : by = Enriching(leads, statuses).by /\ counts = Enriching(leads, statuses).counts
        OBVIOUS
      <3>5. e.by = by /\ e.counts = counts
        BY <2>2, <3>1, <3>4
      <3>6. DecidedAndCounted(by, counts)
        BY <3>2, <3>3, <3>4, ReviewAgrees
      <3>7. e.written
        BY <2>2
      <3> QED
        BY <3>5, <3>6, <3>7
    <2> QED
      BY <1>1, <2>1, <2>2, Zenon DEF Reviews
  <1>2. ASSUME KeepInv
        PROVE  AnswersReachTheirLead
    <2>1. \A r \in Runs : Reviews(enriched[r])
      BY <1>2 DEF KeepInv, PapersKept
    <2>2. LeadsGetTheirAnswer
      <3>1. ASSUME NEW r \in Runs, NEW c \in DOMAIN enriched[r].by
            PROVE  enriched[r].by[c] \in {"rule"} \cup (IF c \in RepliedTo THEN {} ELSE {Opinion[c]} \cap {"yes", "no"})
        <4>1. enriched[r].written
          BY <1>1, <2>1, <3>1
        <4>2. DecidedAndCounted(enriched[r].by, enriched[r].counts)
          BY <1>1, <2>1, <4>1
        <4> QED  BY <4>2 DEF DecidedAndCounted
      <3> QED  BY <3>1, Zenon DEF LeadsGetTheirAnswer
    <2>3. ReviewAddsUp
      <3>1. ASSUME NEW r \in Runs, enriched[r].written
            PROVE  DecidedAndCounted(enriched[r].by, enriched[r].counts)
        BY <1>1, <2>1, <3>1
      <3> QED  BY <3>1, Zenon DEF ReviewAddsUp, DecidedAndCounted
    <2> QED
      BY <2>2, <2>3 DEF AnswersReachTheirLead
  <1> QED
    BY <1>2, KeepHolds, PTL

=============================================================================
