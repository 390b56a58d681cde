------------------------------ MODULE ReplyRules ------------------------------
(***************************************************************************)
(* Which comments a campaign answers (src/facebook_leads/saas/               *)
(* reply_automation.py).  A text is known by the phrases that rules look for. *)
(***************************************************************************)
EXTENDS Naturals, Sequences, FiniteSets

CONSTANTS
  Phrases,
  Campaign,   \* exclusions and positive keywords of the campaign
  Rules       \* its rules, present and future, as the table lists them

Languages == {"zh-CN", "en-US"}

\* What a rule demands; an empty set demands nothing.
Rule ==
  [priority : Nat \ {0}, authors : SUBSET Phrases, lengths : SUBSET Nat,
   exact : SUBSET Phrases, any : SUBSET Phrases, all : SUBSET Phrases,
   pattern : SUBSET Phrases, language : Languages \cup {"any", "unset"}]

\* sought: found by a keyword that asks for recommendations; offer: a short text that
\* looks like one.
Comment ==
  [words : SUBSET Phrases, author : SUBSET Phrases, length : Nat, language : Languages,
   sought : BOOLEAN, offer : BOOLEAN]

ASSUME RuleAssumption ==
  /\ Rules \in Seq(Rule)
  /\ Campaign \in [authors : SUBSET Phrases, patterns : SUBSET Phrases,
                   negative : SUBSET Phrases, positive : SUBSET Phrases]

\* _contains_any
Mentions(text, phrases) == text \cap phrases # {}

\* _matches_patterns: an expression stands for the phrases it finds.
ExcludedByCampaign(c) ==
  Mentions(c.author, Campaign.authors) \/ Mentions(c.words, Campaign.patterns \cup Campaign.negative)

\* A rule without any demand matches nothing.
Demands(r) ==
  r.lengths # {} \/ r.exact \cup r.any \cup r.all \cup r.pattern # {} \/ r.language # "unset"

Holds(r, c) ==
  /\ Demands(r)
  /\ r.lengths = {} \/ c.length \in r.lengths
  /\ r.exact = {} \/ c.words = r.exact
  /\ r.any = {} \/ Mentions(c.words, r.any)
  /\ r.all \subseteq c.words
  /\ r.pattern = {} \/ Mentions(c.words, r.pattern)
  /\ r.language \in {"unset", "any", c.language}

\* Mutant of RuleSays: an author the rule excludes is left to the other rules.
RuleSaysLess(r, c) ==
  IF ~Mentions(c.author, r.authors) /\ Holds(r, c) THEN "yes" ELSE "no"

\* _match_rule: an excluded author ends the search.
RuleSays(r, c) ==
  CASE Mentions(c.author, r.authors)               -> "excluded"
    [] ~Mentions(c.author, r.authors) /\ Holds(r, c) -> "yes"
    [] OTHER                                       -> "no"

\* _matches_recommendation_context
Recommends(c) == c.sought /\ c.offer

\* Rules by priority, those of one priority as they are listed.
Before(i, k) ==
  \/ Rules[i].priority < Rules[k].priority
  \/ Rules[i].priority = Rules[k].priority /\ i < k

\* match_comment: the first enabled rule that does not pass the comment on decides.
Matches(c, enabled) ==
  LET deciding == {i \in enabled : RuleSays(Rules[i], c) # "no"}
      First(i) == \A k \in deciding \ {i} : Before(i, k)
  IN /\ ~ExcludedByCampaign(c)
     /\ IF deciding = {} THEN Mentions(c.words, Campaign.positive) \/ Recommends(c)
        ELSE \E i \in deciding : First(i) /\ RuleSays(Rules[i], c) = "yes"

=============================================================================
