------------------------------ MODULE PageReading ------------------------------
(***************************************************************************)
(* Reading the comments of a Facebook page: how many of its comments the     *)
(* clicks and scrolls of a scan bring up, what is read of a comment's node,   *)
(* and which nodes become comments (src/facebook_leads/facebook/comments.py   *)
(* and comment_links.py).  A line of text is an element of a small set.       *)
(***************************************************************************)
EXTENDS Naturals, Sequences, FiniteSets, SequencesExt

CONSTANTS
  Contents,      \* content URLs
  FinalUrl,      \* the URL each of them ends at
  Page,          \* the comment nodes of each content, in page order
  Names, Words,  \* lines that are an author's name; lines of a comment proper
  Noise,         \* lines that are times, counts and labels of buttons
  Chrome,        \* lines only the page's own texts contain
  CommentLimit, MaxClicks

NoId == "no id"
NoName == "no name"

\* A link: where it leads in the end and whether through Facebook's redirect, whether
\* that is permalink.php, the id its query gives a comment or a story, whether its
\* text is a time, and whether it names the author.
Href == [host : {"facebook", "other"}, redirect : BOOLEAN, php : BOOLEAN, key : STRING,
         time : BOOLEAN, author : BOOLEAN]
NoHref == [host |-> "other", redirect |-> FALSE, php |-> FALSE, key |-> NoId,
           time |-> FALSE, author |-> FALSE]

\* What a node offers: its own id, its links, the text of its author's link, and
\* its text by lines.
Node == [attr : STRING, links : Seq(Href), anchor : Names \cup {NoName},
         lines : Seq(Names \cup Words \cup Noise \cup Chrome), noise : Nat]

ASSUME PageAssumption ==
  /\ FinalUrl \in [Contents -> Contents]
  /\ Page \in [Contents -> Seq(Node)]
ASSUME ReadLimitAssumption == CommentLimit \in Nat \ {0} /\ MaxClicks \in Nat

-----------------------------------------------------------------------------
(* expand_comments: what the DOM holds when it is read.                    *)

Patience == 3          \* clicks that bring nothing, or fail, before giving up
ScrollRounds == 5
ScrollPatience == 2

\* shown: comments in the DOM; clicks: that succeeded; idle: in a row without gain.
Unexpanded(n) == [shown |-> n, clicks |-> 0, idle |-> 0]

\* Comments that came.  They are counted in the dialog, overlay or page that holds
\* the most of them.
Gains(s, total) == {s.shown + k : k \in 0..(total - s.shown)}

Waited(s, shown) == [s EXCEPT !.shown = shown, !.idle = IF shown > s.shown THEN 0 ELSE @ + 1]

\* One look for the "more comments" button: there is none, it cannot be clicked,
\* or it was clicked and the comments are counted again.
Click(s, total) ==
  IF s.clicks >= MaxClicks \/ s.idle >= Patience THEN {s}
  ELSE {s, [s EXCEPT !.idle = @ + 1]}
       \cup {[Waited(s, n) EXCEPT !.clicks = @ + 1] : n \in Gains(s, total)}

\* The element with the most comments that can be scrolled is, if there is one;
\* nobody asks whether it moved.
ScrolledOnce(s, total) == {Waited(s, n) : n \in Gains(s, total)}

\* One round of scrolling the container; "clicks" counts the rounds.
Scroll(s, total) ==
  IF s.clicks >= ScrollRounds \/ s.idle >= ScrollPatience THEN {s}
  ELSE {[w EXCEPT !.clicks = @ + 1] : w \in ScrolledOnce(s, total)}

\* The panel is opened only if no comment is there yet, and then waited for.
OpenPanel(n, total) == IF n > 0 THEN {n} ELSE 0..total

\* Everything expand_comments may leave in the DOM of a page of "total" comments.
Expanded(total) ==
  LET clicked[i \in 0..(MaxClicks + Patience * (total + 1))] ==
        IF i = 0 THEN {Unexpanded(n) : n \in UNION {OpenPanel(m, total) : m \in 0..total}}
                 ELSE UNION {Click(s, total) : s \in clicked[i - 1]}
      scrolled[i \in 0..ScrollRounds] ==
        IF i = 0 THEN {Unexpanded(s.shown) : s \in clicked[MaxClicks + Patience * (total + 1)]}
                 ELSE UNION {IF s.shown = 0 THEN {s} ELSE Scroll(s, total) : s \in scrolled[i - 1]}
  IN {s.shown : s \in scrolled[ScrollRounds]}

-----------------------------------------------------------------------------
(* What is read of a node.                                                 *)

\* Links that look like one to a comment: the query of a redirect is encoded.
CommentLinks(n) ==
  SelectSeq(n.links, LAMBDA h : h.php \/ (h.key # NoId /\ ~h.redirect))

\* Of these the first whose text is a time, or else the first that is not the author's.
Picked(n) ==
  LET links == CommentLinks(n)
      times == SelectSeq(links, LAMBDA h : h.time)
      rest  == SelectSeq(links, LAMBDA h : ~h.author)
  IN CASE times # <<>> -> Head(times)
       [] times = <<>> /\ rest # <<>> -> Head(rest)
       [] times = <<>> /\ rest = <<>> /\ links # <<>> -> Head(links)
       [] OTHER -> NoHref

\* normalize_comment_permalink, is_comment_permalink: a redirect is followed, and
\* what is not of Facebook is no permalink.
Permalink(h) == IF h.host = "facebook" /\ (h.php \/ h.key # NoId) THEN h ELSE NoHref

\* extract_comment_id_from_url of the author's link.
AuthorId(n) ==
  LET mine == SelectSeq(n.links, LAMBDA h : h.author)
  IN IF mine = <<>> THEN NoId ELSE Head(mine).key

\* resolve_comment_links
CommentId(n) ==
  LET link == Permalink(Picked(n))
  IN CASE link.key # NoId                -> link.key
       [] link.key = NoId /\ link.php   -> n.attr
       [] link = NoHref /\ n.attr # NoId -> n.attr
       [] OTHER                          -> AuthorId(n)

\* The first line passes for a name if there is a body below it.
FirstLine(n) ==
  IF /\ Len(n.lines) > 1 /\ n.lines[1] \in Names
     /\ \E i \in 2..Len(n.lines) : n.lines[i] \notin Noise
  THEN n.lines[1] ELSE NoName

AuthorOf(n) == IF n.anchor # NoName THEN n.anchor ELSE FirstLine(n)

\* The text without its author's name and without noise.
BodyOf(n) == SelectSeq(n.lines, LAMBDA l : l # AuthorOf(n) /\ l \notin Noise)

IsComment(n) ==
  /\ AuthorOf(n) # NoName \/ BodyOf(n) # <<>>
  /\ Range(BodyOf(n)) \cap Chrome = {}

\* make_comment_fingerprint: a page gives no time of its own.
Fingerprint(c, n) == [content |-> FinalUrl[c], author |-> AuthorOf(n), text |-> BodyOf(n)]

ReadNode(c, n) == [id |-> CommentId(n), fp |-> Fingerprint(c, n), noise |-> n.noise]

\* Every comment that may be read.
Comments == UNION {{Fingerprint(c, n) : n \in {m \in Range(Page[c]) : IsComment(m)}} : c \in Contents}

-----------------------------------------------------------------------------
(* extract_comments                                                        *)

\* A comment with an id stands once, the least noisy way it was seen; one without
\* an id is told apart by its fingerprint alone.
Keep(list, n) ==
  LET same == {i \in DOMAIN list : n.id # NoId /\ list[i].id = n.id}
      seen == n.id = NoId /\ \E i \in DOMAIN list : list[i].id = NoId /\ list[i].fp = n.fp
  IN CASE seen      -> list
       [] same # {} -> [i \in DOMAIN list |->
                          IF i \in same /\ n.noise < list[i].noise THEN n ELSE list[i]]
       [] OTHER     -> IF Len(list) < CommentLimit THEN Append(list, n) ELSE list

Extract(c, nodes) ==
  FoldLeft(LAMBDA list, n : IF IsComment(n) THEN Keep(list, ReadNode(c, n)) ELSE list, <<>>, nodes)

=============================================================================
