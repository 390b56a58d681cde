--------------------------- MODULE CommentReplyProps ---------------------------
(***************************************************************************)
(* What callers of reply_to_comment rely on.                               *)
(***************************************************************************)
EXTENDS CommentReply

\* A comment gets a reply once, however often it is asked for, through crashes,
\* failed verifications and repeated calls: the history keeps a second send
\* away.  The exceptions are a caller who asks for a duplicate, a crash between
\* the click and its line, a click that raises although it posted, and calls
\* for the same reply that overlap.
RepliedOnce ==
  \A c \in Comments, t \in Texts : posted[c][t] > 1 => <<c, t>> \in excused

\* What is on Facebook is in the history, or is about to be: the line is written
\* before the verification, which may take long and fail.
PostedIsRecorded ==
  \A c \in Comments, t \in Texts : posted[c][t] > 0 =>
    \/ history[c][t].performed
    \/ <<c, t>> \in excused
    \/ \E s \in Senders : pc[s] = "clicked" /\ Pair(s) = <<c, t>>

\* The history file and Facebook tell the same story: a comment has a text once at
\* most, and whatever was posted has the line that keeps a second one away.
HistoryProtects == TypeOK /\ RepliedOnce /\ PostedIsRecorded

\* A reply appears on Facebook only through a call that was asked for exactly it
\* and confirmed, from a source replies are allowed to: neither drafts that
\* crashed calls leave in the page, nor a page rendered anew, change the text.
PostsWhatWasAsked ==
  [][\A c \in Comments, t \in Texts : posted'[c][t] # posted[c][t] =>
       \E s \in Senders :
         /\ pc[s] = "send" /\ Pair(s) = <<c, t>>
         /\ req[s].confirm /\ req[s].yes /\ req[s].allowed /\ ~req[s].preview]_vars

=============================================================================
