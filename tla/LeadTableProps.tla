----------------------------- MODULE LeadTableProps -----------------------------
(***************************************************************************)
(* What users of the lead table rely on.                                    *)
(***************************************************************************)
EXTENDS LeadTable

\* What users decided about a lead is not undone behind their back: scans that
\* find the lead again, and requests that were checked against an older row,
\* leave archived leads archived, invalid ones out of work, and none is new
\* again, unless the row changed between the read and the write of one of them.
DecisionsStay ==
  \A l \in Leads \ raced' : lead'[l].status # lead[l].status =>
    /\ lead[l].status \notin {"archived", "blocked"}
    /\ lead[l].status = "invalid" => lead'[l].status = "archived"
    /\ lead[l].status # "none" => lead'[l].status \notin {"new", "blocked"}

\* The record of how a lead was found grows: keywords add up over executions, the
\* first discovery stays and the last one moves forward, whoever edits meanwhile.
DiscoveryGrows ==
  \A l \in Leads : lead[l].status # "none" =>
    /\ lead[l].keywords \subseteq lead'[l].keywords
    /\ lead'[l].first = lead[l].first /\ lead'[l].last >= lead[l].last

\* A lead found again stays the lead it was: its history adds up and what users made
\* of it is kept, whichever of the two transactions comes first.
LeadsKeepHistory == [][DecisionsStay /\ DiscoveryGrows]_vars

\* A keyword that reads "completed" has all the leads of its result in the table,
\* under its name, after crashes, broken deadlocks and attempts that start over.
CompletedIsSaved ==
  \A k \in Words : rows[k] = "completed" =>
    \A l \in got[k] : lead[l].status # "none" /\ k \in lead[l].keywords

\* A keyword of an execution whose leads a model reviews is billed once, though it is
\* run again after a crash, and not missed; without a review nothing is billed.
BilledOnce ==
  LET due == IF reviewed THEN 1 ELSE 0
  IN  \A k \in Words : usage[k] <= due /\ (rows[k] = "completed" => usage[k] = due)

\* The rows of a keyword, of its leads and of its token usage tell of one and the same
\* result, although they are written in several transactions.
ResultsAreKept == TypeOK /\ CompletedIsSaved /\ BilledOnce

=============================================================================
