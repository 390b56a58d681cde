------------------------------ MODULE ContentFacts ------------------------------
(***************************************************************************)
(* Whose a content is: what the scan makes of its page                       *)
(* (src/facebook_leads/facebook/content_metadata.py) and of its URL            *)
(* (target_policy.py).  A URL is the sequence of its segments.               *)
(***************************************************************************)
EXTENDS Naturals, Sequences, SequencesExt

CONSTANTS
  Segments, Ids,  \* what URLs are made of; names and ids of pages
  Labels,         \* link texts that name nobody: buttons, ages, "see owner's profile"
  Sections,       \* first segments that are no page's: reel, posts, watch, ...
  LinkLimit       \* links that are looked at in one part of the page

Unknown == "unknown"
RootLimit == 3

\* Whether the link leads to a content, a group or a search, and whether it can be
\* seen on the first screen.
Link == [label : Ids \cup Labels, content : BOOLEAN, shown : BOOLEAN]

\* "<name> on Facebook", "<name>'s post", "<name> - Facebook", or something else.
Title == [form : {"on", "post", "dash", "other"}, name : Ids \cup Labels]

\* key: the owner among the parameters of the URL; roots: the links of the main parts
\* and articles of the page, in page order; body: those of the whole page; titles:
\* the one meant for sharing, then the window's.
Content ==
  [url : Seq(Segments), key : Ids \cup {Unknown}, roots : Seq(Seq(Link)), body : Seq(Link),
   titles : Seq(Title)]

ASSUME LabelAssumption == Ids \cap (Labels \cup {Unknown}) = {}
ASSUME LinkLimitAssumption == LinkLimit \in Nat \ {0}

-----------------------------------------------------------------------------
\* Mutant of IsNamed: links that are not to be seen count too.
IsNamedHidden(l) == ~l.content

IsNamed(l) == ~l.content /\ l.shown

Roots(c) == IF c.roots = <<>> THEN <<c.body>> ELSE c.roots

\* Where the links stand that _CONTENT_AUTHOR_SCRIPT looks at, part by part.
Places(c) ==
  {p \in (1..RootLimit) \X (1..LinkLimit) : p[1] \in DOMAIN Roots(c) /\ p[2] \in DOMAIN Roots(c)[p[1]]}

LinkAt(c, p) == Roots(c)[p[1]][p[2]]

NamedLinks(c) == {p \in Places(c) : IsNamed(LinkAt(c, p))}

\* _clean_author
IsAuthor(name) == name \notin Labels

LinkAuthors(c) == {p \in NamedLinks(c) : IsAuthor(LinkAt(c, p).label)}

\* _author_from_title: what stands before the form's own words.
TitleAuthors(c) == {k \in DOMAIN c.titles : c.titles[k].form # "other" /\ IsAuthor(c.titles[k].name)}

FirstPlace(places) ==
  CHOOSE p \in places : \A q \in places : p[1] < q[1] \/ (p[1] = q[1] /\ p[2] <= q[2])

FirstTitle(titles) == CHOOSE k \in titles : \A l \in titles : k <= l

\* extract_content_author: the first name that is found.
ContentAuthor(c) ==
  IF LinkAuthors(c) # {} THEN LinkAt(c, FirstPlace(LinkAuthors(c))).label
  ELSE IF TitleAuthors(c) # {} THEN c.titles[FirstTitle(TitleAuthors(c))].name
  ELSE Unknown

-----------------------------------------------------------------------------
\* _source_id_from_url
OwnerInUrl(c) ==
  CASE c.key # Unknown -> c.key
    [] c.key = Unknown /\ c.url # <<>> /\ c.url[1] \notin Sections -> c.url[1]
    [] OTHER -> Unknown

\* What a lead tells of its source, by the time the target policy is asked.
SourceOf(c) ==
  [url  |-> c.url,
   id   |-> IF OwnerInUrl(c) # Unknown THEN OwnerInUrl(c) ELSE ContentAuthor(c),
   name |-> ContentAuthor(c)]

=============================================================================
