------------------------------- MODULE LeadTable -------------------------------
(***************************************************************************)
(* The leads of a campaign (table "leads", src/facebook_leads/saas).  A     *)
(* worker goes through the keywords of an execution and saves what each     *)
(* found (persist_orchestrator_result, persist.py); users edit leads through *)
(* the API, one by one or in bulk (service.py).  Transactions run at READ   *)
(* COMMITTED: a read sees what is committed, a write locks its row until    *)
(* the transaction ends.                                                    *)
(***************************************************************************)
EXTENDS Naturals, Sequences, SequencesExt

CONSTANTS
  Users, Worker,
  Keywords,          \* the keywords of the campaign, in order
  Contents, Finds,   \* what a keyword may find
  Leads, ReportOf,   \* the leads in some contents, in the order of their report
  Barred,            \* leads whose source the target policy does not allow to answer
  Targets, Reasons,  \* what users ask for: a status, a reason
  BulkOrders,        \* the leads a bulk request lists, in its order
  MaxRounds, MaxEdits, MaxFaults

Parties == Users \cup {Worker}
Words   == ToSet(Keywords)
Nobody  == "nobody"
Keep    == "keep"

LeadStatus == {"new", "open", "assigned", "contacted", "qualified", "invalid", "archived", "blocked"}

ASSUME PartyAssumption   == Worker \notin Users /\ Nobody \notin Parties
ASSUME KeywordAssumption == Keywords \in Seq(STRING) /\ IsInjective(Keywords) /\ Keywords # <<>>
ASSUME FindAssumption    == /\ Finds \in [Words -> SUBSET Contents]
                            /\ ReportOf \in [SUBSET Contents -> Seq(Leads)] /\ Barred \subseteq Leads
ASSUME AskAssumption     == Targets \subseteq (LeadStatus \ {"blocked"}) \cup {Keep}
                            /\ Reasons \subseteq {Keep, "given", "blank"} /\ BulkOrders \subseteq Seq(Leads)
ASSUME BoundAssumption   == {MaxRounds, MaxEdits, MaxFaults} \subseteq Nat

VARIABLES
  lead,     \* the committed rows
  holder,   \* who has a row locked
  tx,       \* the open transaction of each party
  loop,     \* the worker's way through the keywords of an execution
  rows,     \* execution_keywords of this execution
  got,      \* the leads each keyword found when it was last run
  usage,    \* token_usage rows of each keyword of this execution
  reviewed, \* whether this execution has a model review its leads (llm_enabled)
  raced,    \* leads that changed between the read and the write of a transaction
  round, edits, faults

vars == <<lead, holder, tx, loop, rows, got, usage, reviewed, raced, round, edits, faults>>

NoLead == [status |-> "none", reason |-> FALSE, keywords |-> {}, first |-> 0, last |-> 0]
Lead   == [status : LeadStatus \cup {"none"}, reason : BOOLEAN, keywords : SUBSET Words,
           first : 0..MaxRounds, last : 0..MaxRounds]
NoTx   == [kind |-> "none", todo |-> <<>>, read |-> NoLead, at |-> "read", writes |-> <<>>,
           status |-> Keep, reason |-> Keep]
NoLoop == [phase |-> "idle", index |-> 1, seen |-> {}, done |-> FALSE]

TypeOK ==
  /\ lead \in [Leads -> Lead] /\ holder \in [Leads -> Parties \cup {Nobody}]
  /\ \A p \in Parties : /\ tx[p].kind \in {"none", "save", "edit", "bulk"}
                        /\ tx[p].at \in {"read", "write"}
                        /\ tx[p].todo \in Seq(Leads) /\ tx[p].read \in Lead
                        /\ \A l \in DOMAIN tx[p].writes : tx[p].writes[l] \in Lead
  /\ loop.phase \in {"idle", "keyword", "save", "mark"} /\ loop.index \in 1..Len(Keywords) + 1
  /\ loop.seen \subseteq Contents /\ loop.done \in BOOLEAN
  /\ rows \in [Words -> {"none", "running", "completed", "failed"}]
  /\ got \in [Words -> SUBSET Leads] /\ usage \in [Words -> Nat] /\ reviewed \in BOOLEAN /\ raced \subseteq Leads
  /\ round \in 0..MaxRounds /\ edits \in 0..MaxEdits /\ faults \in 0..MaxFaults

Init ==
  /\ lead = [l \in Leads |-> NoLead] /\ holder = [l \in Leads |-> Nobody]
  /\ tx = [p \in Parties |-> NoTx] /\ loop = NoLoop
  /\ rows = [k \in Words |-> "none"] /\ got = [k \in Words |-> {}] /\ usage = [k \in Words |-> 0]
  /\ reviewed = FALSE /\ raced = {} /\ round = 0 /\ edits = 0 /\ faults = 0

-----------------------------------------------------------------------------
Keyword == Keywords[loop.index]
Fault   == faults < MaxFaults /\ faults' = faults + 1
Table   == <<lead, holder, tx, raced>>
Search  == <<loop, rows, got, usage, reviewed>>
Bounds  == <<round, edits, faults>>

\* What a party reads: its own writes before anything committed.
Visible(p, l) == IF l \in DOMAIN tx[p].writes THEN tx[p].writes[l] ELSE lead[l]

Begin(p, kind, leads, status, reason) ==
  tx' = [tx EXCEPT ![p] = [NoTx EXCEPT !.kind = kind, !.todo = leads, !.status = status, !.reason = reason]]

Unlock(p)   == holder' = [l \in Leads |-> IF holder[l] = p THEN Nobody ELSE holder[l]]
Rollback(p) == tx' = [tx EXCEPT ![p] = NoTx] /\ Unlock(p)

\* _validate_lead_transition.
MayMove(current, target) ==
  \/ current = target
  \/ target \in CASE current = "new"       -> LeadStatus \ {"new", "blocked"}
                  [] current = "open"      -> {"assigned", "contacted", "qualified", "invalid", "archived"}
                  [] current = "assigned"  -> {"open", "contacted", "qualified", "invalid", "archived"}
                  [] current = "contacted" -> {"qualified", "invalid", "archived"}
                  [] current = "qualified" -> {"contacted", "archived"}
                  [] current = "invalid"   -> {"archived"}
                  [] OTHER                 -> {}

\* What a request is refused for.  Only the edit of one lead asks for a reason.
Refused(t, row) ==
  \/ row.status = "none"
  \/ t.status # Keep /\ ~MayMove(row.status, t.status)
  \/ t.kind = "edit" /\ t.status = "invalid" /\ t.reason # "given" /\ ~row.reason

\* An edit writes the fields it was sent.
Edited(t, row) ==
  [row EXCEPT !.status = IF t.status = Keep THEN @ ELSE t.status,
              !.reason = IF t.reason = Keep THEN @ ELSE t.reason = "given"]

\* Mutant of Discovered: the policy's own word is stored.
DiscoveredWord(l) == IF l \in Barred THEN "denied" ELSE "new"

Discovered(l) == IF l \in Barred THEN "blocked" ELSE "new"

\* Mutant of KeptStatus: a lead that is found again is new again.
KeptStatusNew(l, read) == Discovered(l)

KeptStatus(l, read) == IF read.status = "none" THEN Discovered(l) ELSE read.status

\* Mutant of KeptKeywords: the keyword replaces those before it.
KeptKeywordsLast(read) == {Keyword}

KeptKeywords(read) == read.keywords \cup {Keyword}

\* _merge_existing_lead_payload: the row as it was read, found again.
Merged(l, read, row) ==
  [row EXCEPT !.status = KeptStatus(l, read), !.keywords = KeptKeywords(read),
              !.first = IF read.status = "none" THEN round ELSE read.first, !.last = round]

-----------------------------------------------------------------------------
(* Users.                                                                  *)

\* update_lead, assign_lead, mark_lead_contacted and mark_lead_invalid.
Edit(u, l, status, reason) ==
  /\ tx[u] = NoTx /\ edits < MaxEdits /\ edits' = edits + 1
  /\ <<status, reason>> # <<Keep, Keep>>
  /\ Begin(u, "edit", <<l>>, status, reason)
  /\ UNCHANGED <<lead, holder, raced, Search, round, faults>>

\* bulk_update_leads: all of them or none.  It has no field for a reason.
BulkEdit(u, leads, status) ==
  /\ tx[u] = NoTx /\ edits < MaxEdits /\ edits' = edits + 1 /\ status # Keep
  /\ Begin(u, "bulk", leads, status, Keep)
  /\ UNCHANGED <<lead, holder, raced, Search, round, faults>>

(* Transactions.                                                           *)

Read(p) ==
  /\ tx[p].kind # "none" /\ tx[p].at = "read" /\ tx[p].todo # <<>>
  /\ LET row == Visible(p, Head(tx[p].todo))
     IN IF tx[p].kind # "save" /\ Refused(tx[p], row)
        THEN Rollback(p)
        ELSE tx' = [tx EXCEPT ![p].read = row, ![p].at = "write"] /\ UNCHANGED holder
  /\ UNCHANGED <<lead, raced, Search, Bounds>>

\* The row is locked, and was perhaps changed since it was read.
Write(p) ==
  /\ tx[p].at = "write"
  /\ LET l   == Head(tx[p].todo)
         row == Visible(p, l)
         new == IF tx[p].kind = "save" THEN Merged(l, tx[p].read, row) ELSE Edited(tx[p], row)
     IN /\ holder[l] \in {Nobody, p}
        /\ holder' = [holder EXCEPT ![l] = p]
        /\ tx' = [tx EXCEPT ![p].at = "read", ![p].read = NoLead, ![p].todo = Tail(@),
                            ![p].writes = [x \in DOMAIN @ \cup {l} |-> IF x = l THEN new ELSE @[x]]]
        /\ raced' = IF row.status # tx[p].read.status THEN raced \cup {l} ELSE raced
  /\ UNCHANGED <<lead, Search, Bounds>>

\* Mutant of Billed: every save adds a usage row.
BilledAgain(k) == usage[k] + 1

\* upsert_token_usage: one row for a keyword of an execution.
Billed(k) == 1

\* A save writes a usage row only for a result that was reviewed.
Commit(p) ==
  /\ tx[p].kind # "none" /\ tx[p].todo = <<>>
  /\ lead' = [l \in Leads |-> Visible(p, l)]
  /\ Rollback(p)
  /\ IF p = Worker
     THEN /\ usage' = IF reviewed THEN [usage EXCEPT ![Keyword] = Billed(Keyword)] ELSE usage
          /\ loop' = [loop EXCEPT !.phase = "mark"]
     ELSE UNCHANGED <<usage, loop>>
  /\ UNCHANGED <<raced, rows, got, reviewed, Bounds>>

-----------------------------------------------------------------------------
(* The worker.                                                             *)

\* A new execution has keyword rows of its own, and a snapshot of the campaign's settings.
StartExecution ==
  /\ loop.phase = "idle" /\ round < MaxRounds /\ round' = round + 1
  /\ loop' = [NoLoop EXCEPT !.phase = "keyword"]
  /\ rows' = [k \in Words |-> "none"] /\ got' = [k \in Words |-> {}] /\ usage' = [k \in Words |-> 0]
  /\ reviewed' \in BOOLEAN
  /\ UNCHANGED <<Table, edits, faults>>

NextKeyword(status) ==
  /\ rows' = [rows EXCEPT ![Keyword] = status]
  /\ loop' = [loop EXCEPT !.phase = "keyword", !.index = @ + 1]

\* Mutant of RowOfResult: the row has the status of the result before it is saved.
RowOfResultEarly == "completed"

RowOfResult == "running"

\* A keyword is run.  The contents it scanned are left out by the next ones, though
\* the leads of a run that failed are not saved.  It counts as completed before it is saved.
RunKeyword ==
  /\ loop.phase = "keyword" /\ loop.index <= Len(Keywords)
  /\ \E found \in SUBSET (Finds[Keyword] \ loop.seen) :
       LET report == ReportOf[found]
           seen   == loop.seen \cup found
       IN \/ /\ got' = [got EXCEPT ![Keyword] = ToSet(report)]
             /\ rows' = [rows EXCEPT ![Keyword] = RowOfResult]
             /\ loop' = [loop EXCEPT !.phase = "save", !.seen = seen, !.done = TRUE]
             /\ Begin(Worker, "save", report, Keep, Keep)
             /\ UNCHANGED faults
          \/ /\ Fault
             /\ rows' = [rows EXCEPT ![Keyword] = "failed"]
             /\ loop' = [loop EXCEPT !.index = @ + 1, !.seen = seen]
             /\ UNCHANGED <<tx, got>>
  /\ UNCHANGED <<lead, holder, raced, usage, reviewed, round, edits>>

Mark ==
  /\ loop.phase = "mark" /\ NextKeyword("completed")
  /\ UNCHANGED <<Table, got, usage, reviewed, Bounds>>

\* The database refuses the save, or breaks a deadlock with a bulk edit by ending
\* one of the two.
WaitsFor(p, q) == tx[p].at = "write" /\ holder[Head(tx[p].todo)] = q

Abort(p) ==
  /\ tx[p].kind # "none" /\ Rollback(p)
  /\ \/ \E q \in Parties \ {p} : WaitsFor(p, q) /\ WaitsFor(q, p) /\ UNCHANGED faults
     \/ p = Worker /\ Fault
  /\ IF p = Worker THEN NextKeyword("failed") ELSE UNCHANGED <<rows, loop>>
  /\ UNCHANGED <<lead, raced, got, usage, reviewed, round, edits>>

\* The end of the execution; or no keyword was run well and it is tried again:
\* rows that cost nothing are dropped and the execution starts over.
EndExecution ==
  /\ loop.phase = "keyword" /\ loop.index > Len(Keywords)
  /\ \/ loop' = NoLoop /\ UNCHANGED rows
     \/ /\ ~loop.done
        /\ rows' = [k \in Words |-> IF usage[k] = 0 THEN "none" ELSE rows[k]]
        /\ loop' = [NoLoop EXCEPT !.phase = "keyword"]
  /\ UNCHANGED <<Table, got, usage, reviewed, Bounds>>

\* The worker dies and the execution is recovered: it starts over.
Crash ==
  /\ loop.phase # "idle" /\ Fault
  /\ IF tx[Worker] # NoTx THEN Rollback(Worker) ELSE UNCHANGED <<tx, holder>>
  /\ loop' = [NoLoop EXCEPT !.phase = "keyword"]
  /\ UNCHANGED <<lead, raced, rows, got, usage, reviewed, round, edits>>

Next ==
  \/ \E u \in Users, l \in Leads, status \in Targets, reason \in Reasons : Edit(u, l, status, reason)
  \/ \E u \in Users, leads \in BulkOrders, status \in Targets : BulkEdit(u, leads, status)
  \/ \E p \in Parties : Read(p) \/ Write(p) \/ Commit(p) \/ Abort(p)
  \/ StartExecution \/ RunKeyword \/ Mark \/ EndExecution \/ Crash

Spec == Init /\ [][Next]_vars

=============================================================================
