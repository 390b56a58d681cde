---------------------------- MODULE ReplyPlanProps ----------------------------
(* What approvals, cancels and executions of a reply plan promise. *)
EXTENDS ReplyPlan

Raced(kind) == {c \in Candidates : <<c, kind>> \in raced}

\* A comment whose reply is recorded as sent is never replied to again by its
\* candidate, not even with another text, and the record stays: whatever edits,
\* approvals and executions follow, as long as no execution overlapped another
\* on that candidate (execute_reply_plan looks for the record before each send).
SentStays ==
  \A c \in Candidates \ Raced("executions") :
    record[c] = "sent" => record'[c] = "sent" /\ posted'[c] = posted[c]

\* What is posted under a comment is a text some user approved for it (or an
\* automatic plan proposed): an edit always takes the approval away, unless it
\* was written between the read and the write of somebody else.
ApprovedTextOnly ==
  /\ TypeOK
  /\ \A c \in Candidates \ Raced("handlers") : \A t \in Texts : posted[c][t] > 0 => t \in approved[c]

\* A plan cancelled while nobody else was at work on it stays cancelled and none
\* of its candidates is sent, in spite of later approvals, synchronisations,
\* executions and generations.
CancelledStays == "plan" \in settled => plan'.status = "cancelled" /\ posted' = posted

\* A candidate rejected or cancelled while nobody else was at work is never sent
\* afterwards: no sequence of edits and approvals brings it back.
RejectedStays == \A c \in Candidates \cap settled : posted'[c] = posted[c]

\* What a user withdrew - a candidate or the whole plan - while nobody else was at
\* work on it is withdrawn for good.
WithdrawnIsFinal == [][CancelledStays /\ RejectedStays]_vars

\* A plan is called executed only when every candidate the execution had listed
\* is recorded as sent.
ExecutedMeansSent ==
  \A e \in Executors :
    exec[e].pc = "close" /\ plan'.status = "executed" /\ exec'[e].pc = "idle"
      /\ hand' = hand /\ crashes' = crashes
    => \A c \in exec[e].listed \ Raced("executions") : record[c] = "sent"

\* Records of sends can be relied on: they are kept and stop a second send, and a
\* plan is closed as executed on them alone.
SentIsFinal == [][SentStays /\ ExecutedMeansSent]_vars

\* What the campaign asks for, whatever way its enabled rules are gone through: none
\* of its exclusions apply, and a rule holds before any rule excludes the author, or
\* no rule has anything to say and its keywords do.
Asked(c, enabled) ==
  LET Barred(k) == c.author \cap Rules[k].authors # {}
  IN /\ c.author \cap Campaign.authors = {}
     /\ c.words \cap (Campaign.patterns \cup Campaign.negative) = {}
     /\ \/ \E i \in enabled : Holds(Rules[i], c) /\ \A k \in enabled : Barred(k) => Before(i, k)
        \/ /\ \A k \in enabled : ~Barred(k)
           /\ c.words \cap Campaign.positive # {} \/ Recommends(c)

\* A candidate is made only for a comment that may be answered and that the campaign
\* asks for, by the rules as they were when the generation began, however often the
\* comment was read, whichever reading was kept and whatever became of the rules since.
ProposedByRule ==
  [][\A c \in Candidates : cand[c].status = "none" /\ cand'[c].status # "none" =>
       \E i \in worker.left \ worker'.left :
          /\ Readings[i].cand = c /\ Readings[i].allowed
          /\ Asked(Readings[i].comment, worker.rules)]_vars

=============================================================================
