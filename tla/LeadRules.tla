------------------------------- MODULE LeadRules -------------------------------
(***************************************************************************)
(* Which comments are leads and what the LLM says of them: the keyword rules  *)
(* (src/facebook_leads/facebook/intent.py), the order of the lead report       *)
(* (report.py) and the review in batches (llm_review.py).                     *)
(***************************************************************************)
EXTENDS PageReading, TLC

CONSTANTS
  Found,       \* the keywords found in each comment
  Within,      \* pairs of keywords of which the first is a part of the second
  Singletons,  \* keywords that mean nothing alone
  Strong,      \* keywords that contain, or are contained in, a strong phrase
  Market,      \* comments on prices in general
  Chars,       \* the length of each comment in a prompt
  Opinion,     \* what the LLM says of each lead: yes, no, nothing that validates, or nothing
  RepliedTo,   \* comments the history has a verified reply for
  BatchSize, MaxBatchChars, MaxRetries

Category == {"PRICE", "BUY", "DELIVERY", "AVAILABILITY", "PRODUCT_INFO", "LOCATION", "CONTACT"}

Weight ==
  [k \in Category |-> CASE k \in {"PRICE", "BUY"}             -> 5
                        [] k \in {"DELIVERY", "AVAILABILITY"} -> 4
                        [] k = "CONTACT"                      -> 3
                        [] OTHER                              -> 2]

ASSUME KeywordAssumption ==
  /\ DOMAIN Found = Comments /\ DOMAIN Chars = Comments /\ DOMAIN Opinion = Comments
  /\ \A c \in Comments : /\ Found[c] \subseteq [word : STRING, category : Category]
                         /\ IsFiniteSet(Found[c])
                         /\ Chars[c] \in Nat /\ Opinion[c] \in {"yes", "no", "bad", "silent"}
  /\ RepliedTo \subseteq Comments
ASSUME ReviewLimitAssumption ==
  {BatchSize, MaxBatchChars} \subseteq Nat \ {0} /\ MaxRetries \in Nat

-----------------------------------------------------------------------------
(* LeadIntentClassifier.classify_comment                                   *)

\* resolve_keyword_matches: a keyword inside another one of its category is dropped.
Effective(matches) ==
  {m \in matches : \A o \in matches \ {m} :
                      o.category = m.category => <<m.word, o.word>> \notin Within}

FalsePositive(c, matches) ==
  \/ \A m \in matches : m.word \in Singletons
  \/ c \in Market /\ \E m \in matches : m.category = "PRICE"

StrongCategories(matches) == {m.category : m \in {s \in matches : s.word \in Strong}}

Score(c) ==
  LET matches == Effective(Found[c])
      sum     == MapThenSumSet(LAMBDA m : Weight[m.category], matches)
  IN CASE matches = {}              -> 0
       [] FalsePositive(c, matches) -> 1
       [] OTHER                     -> sum + 2 * Cardinality(StrongCategories(matches))

\* score_to_level
Level(score) == CASE score >= 6 -> "high" [] score \in 3..5 -> "medium"
                  [] score \in 1..2 -> "low" [] OTHER -> "none"

IsLead(c) == Level(Score(c)) # "none"

-----------------------------------------------------------------------------
\* build_lead_report: content by content, as they first appear, and in each of
\* them the best leads first.
ReportLeads(comments) ==
  LET First(c)   == CHOOSE i \in DOMAIN comments :
                      comments[i].content = c.content /\ \A k \in 1..(i - 1) : comments[k].content # c.content
      Before(i, k) == LET a == comments[i]
                          b == comments[k]
                      IN \/ First(a) < First(b)
                         \/ First(a) = First(b) /\ Score(a) > Score(b)
                         \/ First(a) = First(b) /\ Score(a) = Score(b) /\ i < k
      leads   == {i \in DOMAIN comments : IsLead(comments[i])}
      Rank(i) == Cardinality({k \in leads : Before(k, i)})
  IN [n \in 1..Cardinality(leads) |-> comments[CHOOSE i \in leads : Rank(i) = n - 1]]

-----------------------------------------------------------------------------
(* The review: leads go out in batches, by their place in the batch.       *)

\* build_llm_prompt_payload: how long the prompt of a batch is.
PromptChars(batch) == FoldLeft(LAMBDA n, c : n + Chars[c], 0, batch)

\* build_llm_batches: a batch ends when it is full or the next lead makes it too long.
Batches(leads) ==
  LET Add(batches, c) ==
        LET current == IF batches = <<>> THEN <<>> ELSE Last(batches)
        IN IF current = <<>> \/ Len(current) >= BatchSize \/ PromptChars(Append(current, c)) > MaxBatchChars
           THEN Append(batches, <<c>>)
           ELSE Append(Front(batches), Append(current, c))
  IN FoldLeft(Add, <<>>, leads)

\* The answers of the LLM: index and verdict, in an order of its own.
Answer(batch) ==
  {[index |-> i, verdict |-> Opinion[batch[i]]] : i \in {k \in DOMAIN batch : Opinion[batch[k]] # "silent"}}

\* Mutant of Verdict: places are counted from zero when the answer is read.
VerdictFromZero(batch, i) ==
  LET mine == {a \in Answer(batch) : a.index = i - 1}
  IN CASE mine = {} -> "missing"
       [] \E a \in mine : a.verdict = "bad" -> "failed"
       [] OTHER -> (CHOOSE a \in mine : TRUE).verdict

\* parse_llm_review_response: an answer may be missing, or does not validate.
Verdict(batch, i) ==
  LET mine == {a \in Answer(batch) : a.index = i}
  IN CASE mine = {} -> "missing"
       [] \E a \in mine : a.verdict = "bad" -> "failed"
       [] OTHER -> (CHOOSE a \in mine : TRUE).verdict

\* _reviewed_lead: without a review that succeeded the rules decide.
Decision(said) == IF said \in {"yes", "no"} THEN said ELSE "rule"

\* _review_batch: an unreadable answer is asked for again, a late one and any
\* other error end the attempts.
Calls == [1..(MaxRetries + 1) -> {"answered", "unreadable", "late", "error"}]

BatchStatus(calls) ==
  LET readable == {k \in DOMAIN calls : calls[k] # "unreadable"}
  IN IF readable = {} THEN "failed"
     ELSE CASE calls[Min(readable)] = "answered" -> "success"
            [] calls[Min(readable)] = "late"     -> "timeout"
            [] OTHER                              -> "failed"

\* How the batches may come back.
Outcomes(batches) == [DOMAIN batches -> {BatchStatus(calls) : calls \in Calls}]

\* What was said of each lead of a batch; nobody spoke of one whose batch did not come back.
Said(batch, status) == [i \in DOMAIN batch |-> IF status = "success" THEN Verdict(batch, i) ELSE status]

\* apply_review_to_leads: who decided on each lead.
Review(leads, statuses) ==
  LET batches == Batches(leads)
      places  == UNION {{<<b, i>> : i \in DOMAIN batches[b]} : b \in DOMAIN batches}
      Place(c) == CHOOSE p \in places : batches[p[1]][p[2]] = c
  IN [c \in ToSet(leads) |-> Decision(Said(batches[Place(c)[1]], statuses[Place(c)[1]])[Place(c)[2]])]

\* Mutant of ItemStatus: every lead of a batch has the status of its batch.
ItemStatusOfBatch(batch, status, i) == status

ItemStatus(batch, status, i) ==
  LET said == Said(batch, status)[i] IN IF said \in {"yes", "no"} THEN "success" ELSE said

\* build_llm_review_summary: how many leads the review decided and how many fell
\* back to the rules, counted from the batches.
Summary(leads, statuses) ==
  LET batches == Batches(leads)
      decided == {p \in UNION {{<<b, i>> : i \in DOMAIN batches[b]} : b \in DOMAIN batches} :
                    ItemStatus(batches[p[1]], statuses[p[1]], p[2]) = "success"}
  IN [success |-> Cardinality(decided), fallback |-> Len(leads) - Cardinality(decided),
      calls |-> Len(batches)]

-----------------------------------------------------------------------------
(* enrich_lead_report_missing_reviews, for a report that has no review yet.   *)

\* Mutant of Requested: the history is not asked.
RequestedAll(leads) == leads

\* collect_missing_review_decisions: a lead that was replied to is not reviewed.
Requested(leads) ==
  FoldLeft(LAMBDA asked, c : IF c \in RepliedTo THEN asked ELSE Append(asked, c), <<>>, leads)

\* build_phase5_1_review_summary
ReviewCounts(leads, statuses) ==
  LET asked == Requested(leads)
      told  == Summary(asked, statuses)
  IN [skipped |-> Len(leads) - Len(asked), requested |-> Len(asked),
      success |-> told.success, fallback |-> told.fallback, calls |-> told.calls]

\* The leads with who decided on each of them, and the counts.
Enriching(leads, statuses) ==
  LET said == Review(Requested(leads), statuses)
  IN [by |-> [c \in ToSet(leads) |-> IF c \in RepliedTo THEN "rule" ELSE said[c]],
      counts |-> ReviewCounts(leads, statuses)]

=============================================================================
