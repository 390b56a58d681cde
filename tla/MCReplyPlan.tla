------------------------------ MODULE MCReplyPlan ------------------------------
(* A small instance of ReplyPlan for TLC. *)
EXTENDS ReplyPlanProps, TLC

CONSTANTS c1, c2, t1, t2, h1, h2, e1, e2

Interchangeable == Permutations({h1, h2}) \cup Permutations({e1, e2})

\* Every kind of request; the edit writes the text no template proposes.
AllOperations ==
  [kind : {"approve", "reject", "approve_plan", "cancel_plan"}, cand : {c1}, text : {t1}]
    \cup [kind : {"edit"}, cand : {c1}, text : {t2}]

Demand(priority, authors, any) ==
  [priority |-> priority, authors |-> authors, lengths |-> {}, exact |-> {},
   any |-> any, all |-> {}, pattern |-> {}, language |-> "unset"]

\* The rule listed last comes first; the second would answer everybody and is disabled.
ThreeRules ==
  << Demand(2, {"rival"}, {"price"}),
     [Demand(1, {}, {}) EXCEPT !.language = "any"],
     [Demand(1, {"reseller"}, {}) EXCEPT !.lengths = 1..9, !.all = {"buy"}, !.language = "en-US"] >>

OneCampaign ==
  [authors |-> {"staff"}, patterns |-> {"http"}, negative |-> {"refund"}, positive |-> {"order"}]

Said(words, author) ==
  [words |-> words, author |-> author, length |-> Cardinality(words), language |-> "en-US",
   sought |-> TRUE, offer |-> words = {}]

Reading(source, allowed, noise, comment) ==
  [cand |-> c1, source |-> source, allowed |-> allowed, noise |-> noise, comment |-> comment]

\* One comment as several pages and attempts show it: noisily and with the name of
\* somebody excluded, wanted by a rule, below a source that may not be answered.
ThreeReadings ==
  << Reading("p", TRUE, 1, Said({"price", "buy"}, {"reseller"})),
     Reading("p", TRUE, 0, Said({"price", "buy"}, {"rival"})),
     Reading("q", FALSE, 0, Said({}, {})) >>

=============================================================================
