------------------------------ MODULE SourcePolicy ------------------------------
(***************************************************************************)
(* Which sources may be answered (src/facebook_leads/facebook/               *)
(* target_policy.py).                                                       *)
(***************************************************************************)
EXTENDS ContentFacts

PolicyKinds == {"owned_only", "allowlist", "discovery_only"}

\* Owned ids and names, as they are configured, and allowed URLs.
TargetPolicy == [kind : PolicyKinds, owned : SUBSET Ids, urls : SUBSET Seq(Segments)]

\* Mutant of UrlAllowed: the comparison is the other way round.
UrlAllowedAbove(policy, url) ==
  url # <<>> /\ \E allowed \in policy.urls : IsPrefix(url, allowed)

\* _url_is_allowed: an allowed URL, or one below it.
UrlAllowed(policy, url) ==
  url # <<>> /\ \E allowed \in policy.urls : IsPrefix(allowed, url)

\* The name of a page counts like its id.
Owned(policy, source) == {source.id, source.name} \cap policy.owned # {}

\* evaluate_source_policy
ReplyAllowed(policy, source) ==
  CASE policy.kind = "discovery_only" -> FALSE
    [] policy.kind = "allowlist"      -> UrlAllowed(policy, source.url)
    [] policy.kind = "owned_only"     -> Owned(policy, source)

=============================================================================
