----------------------------- MODULE ContentSearch -----------------------------
(***************************************************************************)
(* Finding the contents of a keyword, opening one, and telling who is logged  *)
(* in (src/facebook_leads/facebook/search.py, content.py, login_state.py).    *)
(***************************************************************************)
EXTENDS PageReading

CONSTANTS
  Runs,          \* scans, each with a keyword of its own
  Identity,      \* what a content URL is a URL of
  Results,       \* the search results of each run: the anchors after each scroll
  Excluded,      \* identities the keywords before this one scanned
  ContentLimit, MaxScrolls

\* A link of the results: a URL of a post, reel, video or permalink, or another
\* one; and whether its text is that of a notification.
Anchor == [url : Contents \cup {"other"}, notification : BOOLEAN]

ASSUME SearchAssumption ==
  /\ DOMAIN Identity = Contents
  /\ \A r \in Runs : Results[r] \in [1..(MaxScrolls + 1) -> Seq(Anchor)]
  /\ ContentLimit \in Nat \ {0} /\ MaxScrolls \in Nat

-----------------------------------------------------------------------------
\* is_candidate_content_url and _is_search_noise_anchor
IsCandidate(a) == a.url # "other" /\ ~a.notification

\* discover_content_candidates: a content is taken at the first of its URLs.
TakeAnchor(found, a) ==
  IF /\ Len(found) < ContentLimit
     /\ IsCandidate(a)
     /\ Identity[a.url] \notin Excluded \cup {Identity[found[i]] : i \in DOMAIN found}
  THEN Append(found, a.url) ELSE found

\* A screen may be read before all of its links are there.
TakeScreen(found, screen, loaded) ==
  FoldLeft(LAMBDA f, a : IF a \in loaded THEN TakeAnchor(f, a) ELSE f, found, screen)

Discover(screens, loaded) ==
  FoldLeftDomain(LAMBDA found, k : TakeScreen(found, screens[k], loaded[k]), <<>>, screens)

\* What a search may find.
Discoveries ==
  [r \in Runs |-> {Discover(Results[r], loaded) : loaded \in [DOMAIN Results[r] -> SUBSET Anchor]}]

-----------------------------------------------------------------------------
(* open_content: two attempts; a page that can be used despite a timeout will *)
(* do, and whether its comments are there is not waited for beyond ten seconds. *)

Attempt == {"loaded", "ready", "degraded", "not_ready"}

Opens(attempts) == \E i \in DOMAIN attempts : attempts[i] # "not_ready"

\* A content may be opened, or not.
Openings == {Opens(attempts) : attempts \in [1..2 -> Attempt]}

-----------------------------------------------------------------------------
(* detect_login_state                                                      *)

PageFacts == [checkpoint : BOOLEAN, captcha : BOOLEAN, form : BOOLEAN, words : BOOLEAN,
              facebook : BOOLEAN, login : BOOLEAN]

\* From the URL, the title and the beginning of the text, in this order.
LoginState(p) ==
  CASE p.checkpoint             -> "checkpoint"
    [] ~p.checkpoint /\ p.captcha -> "captcha"
    [] ~p.checkpoint /\ ~p.captcha /\ p.form -> "logged_out"
    [] ~p.checkpoint /\ ~p.captcha /\ ~p.form /\ p.facebook /\ (p.words \/ ~p.login) -> "logged_in"
    [] OTHER -> "unknown"

LoginStates == {LoginState(p) : p \in PageFacts}

=============================================================================
