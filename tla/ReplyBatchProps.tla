---------------------------- MODULE ReplyBatchProps ----------------------------
(***************************************************************************)
(* What the operator of reply batches relies on, while batches are run one *)
(* after the other.                                                        *)
(***************************************************************************)
EXTENDS ReplyBatch, CommentReplyProps

\* No day sees more verified replies than its limit, whichever plans are
\* executed, executed again or cut off by a crash, and though a batch that runs
\* past midnight counts against the day it started on.
DailyLimitKept == today <= DailyLimit

\* An unverified reply is the last thing a batch does: the account may be
\* blocked, and an operator has to look before anything else is sent.
UnverifiedIsLast ==
  [][\A b \in Senders : batch[b].phase # "idle" /\ batch[b].counts.unverified > 0 =>
       calls' = calls /\ UNCHANGED posted]_allVars

\* An acceptance test sends two replies at most, and those in the order of the plan.
AcceptanceBounded ==
  \A b \in Senders : batch[b].test =>
    batch[b].counts.verified + batch[b].counts.unverified <= AcceptanceMax

\* What a finished batch reports agrees with the history it leaves: the verified
\* replies it counted are the lines it added (unless a new day has begun).
ReportAgrees ==
  \A b \in Senders : batch[b].phase = "finished" =>
    \/ today = batch[b].before + batch[b].counts.verified
    \/ today < batch[b].before + batch[b].counts.verified /\ faults > 0

\* What batches count is what they did: the day's limit and the bound of an
\* acceptance test hold, and the report agrees with the history, for plans that are
\* executed again, cut off by a crash, or run past midnight.
CountsAreKept == BatchTypeOK /\ DailyLimitKept /\ AcceptanceBounded /\ ReportAgrees

\* A rehearsal that reports an acceptance test ready has vouched for every lead the
\* test would write to: today's limit has room for all of them, and none of them has
\* an answer, a click nobody verified or a source outside the policy.
ReadyIsSafe ==
  [][\A b \in Senders : batch'[b].ready =>
       /\ Len(batch'[b].subset) <= Remaining
       /\ \A i \in ToSet(batch'[b].subset) :
            BlockedBy(Leads[i].comment, Leads[i].text) = "none" /\ Allowed[i]]_allVars

\* What the page lets a visitor see: the owner in its URL, a link of the first
\* screen to somebody, or the name in one of its titles.
ShownNames(c) ==
  {l.label : l \in {k \in UNION {ToSet(part) : part \in ToSet(c.roots) \cup {c.body}} :
                       k.shown /\ ~k.content}}
    \cup {t.name : t \in {k \in ToSet(c.titles) : k.form # "other"}}
    \cup {c.key} \cup {c.url[n] : n \in {1} \cap DOMAIN c.url}

\* An allowed URL without a path, the host alone, covers every source.
Covered(policy, c) ==
  \/ policy.kind = "allowlist" /\ \E n \in 0..Len(c.url) : SubSeq(c.url, 1, n) \in policy.urls
  \/ policy.kind = "owned_only" /\ ShownNames(c) \cap policy.owned # {}

CoveredLeads == {i \in DOMAIN Leads : Covered(Policy[Leads[i].report], Leads[i].content)}

\* Nothing is posted to a source outside the target policy: not below a parent of
\* an allowed URL, not in the name of an owner nobody configured or the page does not
\* show, and never under discovery_only, whatever plans are rebuilt and executed again.
OnlyCoveredSources ==
  \A c \in Comments : (\E t \in Texts : posted[c][t] > 0) => \E i \in CoveredLeads : Leads[i].comment = c

=============================================================================
