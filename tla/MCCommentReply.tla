----------------------------- MODULE MCCommentReply -----------------------------
(* Small instances of CommentReply for TLC. *)
EXTENDS CommentReplyProps, TLC

CONSTANTS s1, s2, p1, p2, c1, c2, t1, t2

\* Calls of different browsers: two accounts of a tenant, which share its history.
OwnPages == s1 :> p1 @@ s2 :> p2

Sends(cs, ts) ==
  [comment : cs, text : ts, confirm : {TRUE}, yes : {TRUE}, allowed : {TRUE},
   override : {FALSE}, preview : {FALSE}, keep : {FALSE}]

Plain == [comment |-> c1, text |-> t1, confirm |-> TRUE, yes |-> TRUE, allowed |-> TRUE,
          override |-> FALSE, preview |-> FALSE, keep |-> FALSE]

\* Real sends of two texts, and one request that stops at each of the gates.
Mixed ==
  { Plain, [Plain EXCEPT !.text = t2], [Plain EXCEPT !.override = TRUE],
    [Plain EXCEPT !.yes = FALSE], [Plain EXCEPT !.allowed = FALSE],
    [Plain EXCEPT !.text = NoText], [Plain EXCEPT !.preview = TRUE],
    [Plain EXCEPT !.confirm = FALSE, !.keep = TRUE], [Plain EXCEPT !.confirm = FALSE] }

=============================================================================
