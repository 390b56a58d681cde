------------------------------ MODULE MCReplyBatch ------------------------------
(* Small instances of ReplyBatch for TLC. *)
EXTENDS ReplyBatchProps, TLC

CONSTANTS s1, p1, c1, c2, c3, c4, t1, r1, r2

OnePage == s1 :> p1

\* One report is planned for pages of one's own, the other for allowed URLs.
PolicyFor ==
  r1 :> [kind |-> "owned_only", owned |-> {"shop"}, urls |-> {}]
  @@ r2 :> [kind |-> "allowlist", owned |-> {"shop"}, urls |-> {<<"club", "posts">>}]

ALink(label, content, shown) == [label |-> label, content |-> content, shown |-> shown]
APage(url, root, titles) ==
  [url |-> url, key |-> Unknown, roots |-> root, body |-> <<ALink("shop", FALSE, FALSE)>>, titles |-> titles]

\* The page's own reel; a post of the club, whose page has no main part; the club's
\* page; and a reel of somebody else, with a link to the shop's page further down.
Shop == APage(<<"reel", "7">>, << <<ALink("7 h", FALSE, TRUE), ALink("shop", FALSE, TRUE)>> >>,
              << [form |-> "on", name |-> "club"] >>)
Post == APage(<<"club", "posts", "7">>, <<>>, << >>)
Club == APage(<<"club">>, <<>>, << [form |-> "other", name |-> "shop"] >>)
Fan  == APage(<<"reel", "7">>, << <<ALink("club", TRUE, TRUE), ALink("shop", FALSE, FALSE)>> >>,
              << [form |-> "dash", name |-> "fan"] >>)

Lead(c, r, content) == [comment |-> c, text |-> t1, content |-> content, report |-> r]

\* Two reports whose plans together select more than a day allows; one comment
\* is in both, but not reviewed yet in the first.  The last two may not be answered.
SixLeads ==
  <<Lead(c1, r1, Shop), Lead(c2, r2, Post), Lead(c3, r2, Post), Lead(c3, r1, Shop), Lead(c4, r2, Club),
    Lead(c4, r1, Fan)>>
OneMissing == <<"reply", "reply", "reply", "missing", "reply", "reply">>

\* What request_from_plan_item makes of them.
BatchRequests == {RequestFor(i, mode) : i \in DOMAIN Leads, mode \in Modes}

=============================================================================
