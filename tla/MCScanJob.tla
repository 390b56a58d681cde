-------------------------------- MODULE MCScanJob --------------------------------
(* A small instance of ScanJob for TLC. *)
EXTENDS ScanJobProps

CONSTANTS j1, j2, r1, r2, p1, p2

Link(key, time) == [NoHref EXCEPT !.host = "facebook", !.key = key, !.time = time]
Profile(key)    == [NoHref EXCEPT !.host = "facebook", !.key = key, !.author = TRUE]
Outside(key)    == [NoHref EXCEPT !.key = key]
Wrapped(key)    == [NoHref EXCEPT !.host = "facebook", !.redirect = TRUE, !.php = TRUE, !.key = key]

Body(attr, links, anchor, lines, n) ==
  [attr |-> attr, links |-> links, anchor |-> anchor, lines |-> lines, noise |-> n]

\* The first content shows one comment twice, more noisily at first.  The second is
\* another URL that ends at it, and shows that comment again, without its link, then
\* a text of the page and another comment.
PageOf ==
  [x \in {p1, p2} |->
     IF x = p1 THEN << Body("n1", <<Profile(NoId), Link("7", FALSE), Link("1", TRUE)>>, "Ann",
                            <<"Ann", "magkano", "See original", "Like">>, 1),
                       Body(NoId, <<Wrapped("1")>>, NoName, <<"Ann", "magkano", "2 h">>, 0) >>
     ELSE << Body(NoId, <<Profile(NoId)>>, "Ann", <<"Ann", "magkano">>, 0),
             Body(NoId, <<>>, NoName, <<"Most relevant", "magkano">>, 0),
             Body(NoId, <<Outside("7")>>, NoName, <<"Bob", "nice", "3">>, 0) >>]

FinalOf    == [x \in {p1, p2} |-> p1]
IdentityOf == [x \in {p1, p2} |-> x]

Result(url, notification) == [url |-> url, notification |-> notification]
ResultsOf ==
  [r \in {r1, r2} |-> IF r = r1 THEN << <<Result("other", FALSE), Result(p1, FALSE)>>,
                                         <<Result(p2, TRUE), Result(p2, FALSE)>> >>
                      ELSE << <<>>, <<>> >>]

Says(c, line) == line \in ToSet(c.text)
FoundIn ==
  [c \in Comments |-> CASE Says(c, "magkano") -> {[word |-> "magkano", category |-> "PRICE"]}
                       [] Says(c, "nice")    -> {[word |-> "nice", category |-> "PRODUCT_INFO"]}
                       [] OTHER              -> {}]

\* The LLM says nothing of one lead, and Bob's comment was replied to.
CharsOf     == [c \in Comments |-> 1]
OpinionOf   == [c \in Comments |-> CASE Says(c, "See original") -> "yes"
                                     [] Says(c, "magkano")      -> "silent"
                                     [] OTHER                   -> "bad"]
RepliedToOf == {c \in Comments : c.author = "Bob"}

Interchangeable == Permutations({j1, j2})

=============================================================================
