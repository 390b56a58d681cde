----------------------------- MODULE CommentReply -----------------------------
(***************************************************************************)
(* One reply to one Facebook comment: reply_to_comment                     *)
(* (src/facebook_leads/facebook/reply.py), called by the single-reply      *)
(* script, by a reply batch and by the execution of a reply plan.  A call  *)
(* suspends at every await on the browser page; between two awaits other   *)
(* calls go on and the process may die.  What outlives it is the history   *)
(* file, the page with the drafts typed into it, and Facebook.             *)
(*                                                                         *)
(* Texts that normalize_reply_text identifies are one element of Texts.    *)
(***************************************************************************)
EXTENDS Naturals, FiniteSets

CONSTANTS
  Senders,      \* calls of reply_to_comment that are under way at the same time
  Pages, PageOf, \* the browser page each of them was given
  Comments,
  Texts,
  Requests,     \* the requests callers make
  MaxCalls,     \* bound on calls
  MaxFaults,    \* bound on crashes and page reloads
  NoText,       \* an empty reply text, an empty input
  Mention,      \* an input Facebook filled with the name of the comment's author
  Nobody        \* no comment

ASSUME PageAssumption == PageOf \in [Senders -> Pages]
ASSUME RequestAssumption ==
  Requests \subseteq [comment : Comments, text : Texts \cup {NoText}, confirm : BOOLEAN,
                      yes : BOOLEAN, allowed : BOOLEAN, override : BOOLEAN,
                      preview : BOOLEAN, keep : BOOLEAN]
ASSUME NullAssumption ==
  NoText \notin Texts /\ Mention \notin Texts \cup {NoText} /\ Nobody \notin Comments
ASSUME BoundAssumption == MaxCalls \in Nat /\ MaxFaults \in Nat

VARIABLES
  pc, req, result,  \* each call: where it is, what was asked, what it returned
  page,             \* the pages: address, drafts in the reply inputs, focused input
  history,          \* what reply_history.jsonl says of a comment and a text
  today,            \* how many of its lines are verified and bear today's date
  posted,           \* Facebook: replies under a comment
  excused,          \* comment and text pairs the history cannot protect
  calls, faults

vars == <<pc, req, result, page, history, today, posted, excused, calls, faults>>

Drafts == Texts \cup {NoText, Mention}
\* The lines that matter to later calls: any with send_action_performed, any
\* with verified.
Line   == [performed : BOOLEAN, verified : BOOLEAN]
Page   == [at : Comments \cup {Nobody}, draft : [Comments -> Drafts], focus : Comments \cup {Nobody}]
Status == {"cancelled", "blocked", "duplicate", "blocked_unverified_previous_attempt",
           "ready", "dry_run", "send_failed", "unverified", "verified"}
Result == [status : Status, performed : BOOLEAN, verified : BOOLEAN,
           reason : {"none", "draft", "login", "disconnected"}]

\* The states a call of a real send passes after it has read the history.
Preparing == {"open", "react", "fill", "check", "compose", "send"}
Phases    == {"idle", "clicked", "verify", "done"} \cup Preparing

NoLine   == [performed |-> FALSE, verified |-> FALSE]
Fresh(c) == [at |-> c, draft |-> [d \in Comments |-> NoText], focus |-> Nobody]
Done(status, reason) ==
  [status |-> status, performed |-> FALSE, verified |-> FALSE, reason |-> reason]
NoResult  == Done("cancelled", "none")
NoRequest == [comment |-> Nobody, text |-> NoText, confirm |-> FALSE, yes |-> FALSE,
              allowed |-> FALSE, override |-> FALSE, preview |-> FALSE, keep |-> FALSE]

TypeOK ==
  /\ pc \in [Senders -> Phases]
  /\ req \in [Senders -> Requests \cup {NoRequest}]
  /\ result \in [Senders -> Result]
  /\ page \in [Pages -> Page]
  /\ history \in [Comments -> [Texts -> Line]]
  /\ today \in Nat
  /\ posted \in [Comments -> [Texts -> Nat]]
  /\ excused \subseteq Comments \X Texts
  /\ calls \in 0..MaxCalls /\ faults \in 0..MaxFaults

Init ==
  /\ pc = [s \in Senders |-> "idle"]
  /\ req = [s \in Senders |-> NoRequest]
  /\ result = [s \in Senders |-> NoResult]
  /\ page = [p \in Pages |-> Fresh(Nobody)]
  /\ history = [c \in Comments |-> [t \in Texts |-> NoLine]]
  /\ today = 0
  /\ posted = [c \in Comments |-> [t \in Texts |-> 0]]
  /\ excused = {}
  /\ calls = 0 /\ faults = 0

-----------------------------------------------------------------------------
\* Mutant of DryRun: either of the two confirmations will do.
DryRunUnlessAny(q) == ~(q.confirm \/ q.yes)

\* A real send takes --confirm-send and a confirmation; all else is a dry run.
DryRun(q) == ~(q.confirm /\ q.yes)

\* Mutant of BlockedBy: an attempt that was not verified does not block.
BlockedByVerified(c, t) ==
  IF t \in Texts /\ history[c][t].verified THEN "duplicate" ELSE "none"

\* find_blocking_reply_history
BlockedBy(c, t) ==
  IF t \notin Texts THEN "none"
  ELSE IF history[c][t].verified THEN "duplicate"
  ELSE IF history[c][t].performed THEN "blocked_unverified_previous_attempt"
  ELSE "none"

MyPage(s)    == page[PageOf[s]]
MyComment(s) == req[s].comment
MyText(s)    == req[s].text
Same(s, u)   == MyComment(s) = MyComment(u) /\ MyText(s) = MyText(u)

\* find_reply_input prefers "the focused textbox", a locator that is resolved
\* anew at each use; the input in the comment's own node is the second choice.
Input(s) == IF MyPage(s).focus = Nobody THEN MyComment(s) ELSE MyPage(s).focus

TextInPlace(s) == MyPage(s).draft[Input(s)] = MyText(s)

\* Mutant of SetDraft: what is typed comes after what is there.
SetDraftAppended(s, d) == page' = [page EXCEPT ![PageOf[s]].draft[Input(s)] = <<@, d>>]

SetDraft(s, d) == page' = [page EXCEPT ![PageOf[s]].draft[Input(s)] = d]

\* The call returns; lines of calls that clicked nothing say nothing to others.
Return(s, r) ==
  /\ result' = [result EXCEPT ![s] = r]
  /\ pc' = [pc EXCEPT ![s] = "done"]

Goto(s, phase) == pc' = [pc EXCEPT ![s] = phase] /\ UNCHANGED result

quiet == <<req, history, today, posted, excused, calls, faults>>

-----------------------------------------------------------------------------
(* The gates before the first await.                                       *)

Verdict(q) ==
  IF q.confirm /\ ~q.yes THEN "cancelled"
  ELSE IF ~q.allowed /\ ~DryRun(q) THEN "blocked"
  ELSE IF q.text = NoText THEN "blocked"
  ELSE IF BlockedBy(q.comment, q.text) # "none" /\ ~DryRun(q) /\ ~q.override
       THEN BlockedBy(q.comment, q.text)
  ELSE "open"

\* A preview that is given no page returns at once.
Call(s, q) ==
  /\ pc[s] = "idle" /\ calls < MaxCalls
  /\ calls' = calls + 1
  /\ req' = [req EXCEPT ![s] = q]
  /\ \/ Verdict(q) = "open" /\ Goto(s, "open")
     \/ Verdict(q) = "open" /\ q.preview /\ Return(s, Done("ready", "none"))
     \/ Verdict(q) # "open" /\ Return(s, Done(Verdict(q), "none"))
  /\ UNCHANGED <<page, history, today, posted, excused, faults>>

\* locate_comment_node: the one node with the comment's key, id, link, or author
\* and text; none or several end the call.
Locate(s) == Goto(s, "react") \/ Return(s, Done("blocked", "none"))

\* open_target_comment loads the page only if it shows another address; then the
\* comment is looked for, and once more after expanding the thread.
Open(s) ==
  /\ pc[s] = "open"
  /\ page' = [page EXCEPT ![PageOf[s]] = IF @.at = MyComment(s) THEN @ ELSE Fresh(MyComment(s))]
  /\ Locate(s)
  /\ UNCHANGED quiet

\* detect_page_obstructions and dismiss_safe_obstructions: a dialog, a login wall or
\* a cover that cannot be dismissed safely ends the call.
Obstructed(s) == Return(s, Done("blocked", "none")) /\ UNCHANGED page

\* click_reply_action_with_recovery: the click opens the input and focuses it,
\* at the second attempt after dismissing what covered it if need be.
ClickReply(s) ==
  /\ pc[s] = "react"
  /\ \/ /\ \E mention \in BOOLEAN :
             page' = [page EXCEPT ![PageOf[s]].focus = MyComment(s),
                                  ![PageOf[s]].draft[MyComment(s)] =
                                     IF mention /\ @ = NoText THEN Mention ELSE @]
        /\ Goto(s, "fill")
     \/ Obstructed(s)
  /\ UNCHANGED quiet

\* preview_only looks for the composer and the send action and stops there.
Preview(s) ==
  /\ pc[s] = "fill" /\ req[s].preview
  /\ \E status \in {"ready", "blocked"} : Return(s, Done(status, "none"))
  /\ UNCHANGED page /\ UNCHANGED quiet

ForeignDraft(s) == MyPage(s).draft[Input(s)] \notin {NoText, Mention, MyText(s)}

\* A real send leaves a draft that somebody else typed alone.
RefuseDraft(s) ==
  /\ pc[s] = "fill" /\ ~req[s].preview
  /\ ~DryRun(req[s]) /\ ForeignDraft(s)
  /\ Return(s, Done("blocked", "draft"))
  /\ UNCHANGED page /\ UNCHANGED quiet

\* The text is typed (its own draft is reused) and read back; filling may fail.
\* A dry run ends here, and clears the input unless keep_filled.
FillInput(s) ==
  /\ pc[s] = "fill" /\ ~req[s].preview
  /\ DryRun(req[s]) \/ ~ForeignDraft(s)
  /\ \/ /\ ~DryRun(req[s])
        /\ SetDraft(s, MyText(s)) /\ Goto(s, "check")
     \/ /\ DryRun(req[s])
        /\ SetDraft(s, IF req[s].keep THEN MyText(s) ELSE NoText)
        /\ Return(s, Done("dry_run", "none"))
     \/ /\ SetDraft(s, NoText)
        /\ Return(s, Done("blocked", "none"))
  /\ UNCHANGED quiet

\* find_successful_duplicate
Repeated(s) == history[MyComment(s)][MyText(s)].verified /\ ~req[s].override

\* preflight_reply_send
PreflightPasses(s) == ~Repeated(s) /\ TextInPlace(s)

\* Before the send the session, the text and the comment are looked at once more,
\* and the history for a verified reply.
Preflight(s) ==
  /\ pc[s] = "check"
  /\ \/ Repeated(s) /\ Return(s, Done("duplicate", "none"))
     \/ \E reason \in {"none", "login"} : Return(s, Done("blocked", reason))
     \/ PreflightPasses(s) /\ Goto(s, "compose")
  /\ UNCHANGED page /\ UNCHANGED quiet

\* final_send_precheck: the composer still holds the input, its text and one
\* enabled send action.
SendPasses(s) == TextInPlace(s)

\* find_reply_composer and find_send_action.
Compose(s) ==
  /\ pc[s] = "compose"
  /\ \/ SendPasses(s) /\ Goto(s, "send")
     \/ Return(s, Done("blocked", "none"))
  /\ UNCHANGED page /\ UNCHANGED quiet

\* An await that raises ends in the handler around the whole call; it leaves no
\* line that would block a later call.
Raise(s) ==
  /\ pc[s] \in Preparing
  /\ \E reason \in {"none", "disconnected"} :
       Return(s, Done(IF DryRun(req[s]) THEN "blocked" ELSE "send_failed", reason))
  /\ UNCHANGED page /\ UNCHANGED quiet

-----------------------------------------------------------------------------
(* The click, its record and the verification.                             *)

\* The click posts what is in the input.
Deliver(s) ==
  /\ MyPage(s).draft[Input(s)] \in Texts
  /\ posted' = [posted EXCEPT ![Input(s)][MyPage(s).draft[Input(s)]] = @ + 1]
  /\ SetDraft(s, NoText)

Pair(s) == <<MyComment(s), MyText(s)>>

\* Another call for the same reply has read the history and not yet added its line.
Overtaken(s) == \E u \in Senders \ {s} : Same(s, u) /\ pc[u] \in Preparing \cup {"clicked"}

\* Pairs the history does not protect from here on: the caller asked for a
\* duplicate, a click that posted has raised, or two calls overlap.
Click(s) ==
  /\ pc[s] = "send"
  /\ \E delivered \in BOOLEAN, raised \in BOOLEAN :
       /\ IF delivered THEN Deliver(s) ELSE UNCHANGED <<posted, page>>
       /\ IF raised
          THEN Return(s, Done("send_failed", "none"))
          ELSE Goto(s, "clicked")
       /\ excused' = IF req[s].override \/ raised \/ Overtaken(s)
                     THEN excused \cup {Pair(s)} ELSE excused
  /\ UNCHANGED <<req, history, today, calls, faults>>

\* Mutant of RecordClick: the line is written after the verification only.
RecordClickLate(s) ==
  /\ pc[s] = "clicked"
  /\ excused' = IF Overtaken(s) THEN excused \cup {Pair(s)} ELSE excused
  /\ Goto(s, "verify")
  /\ UNCHANGED <<req, page, history, today, posted, calls, faults>>

\* The line "unverified" is appended before anything else is awaited.
RecordClick(s) ==
  /\ pc[s] = "clicked"
  /\ history' = [history EXCEPT ![MyComment(s)][MyText(s)].performed = TRUE]
  /\ excused' = IF Overtaken(s) THEN excused \cup {Pair(s)} ELSE excused
  /\ Goto(s, "verify")
  /\ UNCHANGED <<req, page, today, posted, calls, faults>>

\* verify_reply_sent looks for the text anywhere in the page: under any comment,
\* or still in an input.
Visible(s) ==
  \E c \in Comments : posted[c][MyText(s)] > 0 \/ MyPage(s).draft[c] = MyText(s)

Verify(s) ==
  /\ pc[s] = "verify"
  /\ \/ /\ Visible(s)
        /\ history' = [history EXCEPT ![MyComment(s)][MyText(s)].verified = TRUE]
        /\ today' = today + 1
        /\ Return(s, [status |-> "verified", performed |-> TRUE, verified |-> TRUE,
                      reason |-> "none"])
     \/ /\ Return(s, [status |-> "unverified", performed |-> TRUE, verified |-> FALSE,
                      reason |-> "none"])
        /\ UNCHANGED <<history, today>>
  /\ UNCHANGED <<req, page, posted, excused, calls, faults>>

Leave(s) ==
  /\ pc' = [pc EXCEPT ![s] = "idle"]
  /\ req' = [req EXCEPT ![s] = NoRequest]
  /\ result' = [result EXCEPT ![s] = NoResult]

\* The caller takes the result.
Take(s) ==
  /\ pc[s] = "done"
  /\ Leave(s)
  /\ UNCHANGED <<page, history, today, posted, excused, calls, faults>>

\* The process dies.  After a click nobody knows of it.
Crash(s) ==
  /\ pc[s] \in Preparing \cup {"clicked", "verify"} /\ faults < MaxFaults
  /\ Leave(s)
  /\ excused' = IF pc[s] = "clicked" THEN excused \cup {Pair(s)} ELSE excused
  /\ faults' = faults + 1
  /\ UNCHANGED <<page, history, today, posted, calls>>

\* Facebook renders the page again: drafts and the focus are gone.
Rerender(p) ==
  /\ faults < MaxFaults
  /\ faults' = faults + 1
  /\ page' = [page EXCEPT ![p] = Fresh(@.at)]
  /\ UNCHANGED <<pc, req, result, history, today, posted, excused, calls>>

ReplyStep(s) ==
  \/ Open(s) \/ ClickReply(s) \/ Preview(s) \/ RefuseDraft(s) \/ FillInput(s)
  \/ Preflight(s) \/ Compose(s) \/ Raise(s) \/ Click(s) \/ RecordClick(s) \/ Verify(s)

Next ==
  \/ \E s \in Senders, q \in Requests : Call(s, q)
  \/ \E s \in Senders : ReplyStep(s) \/ Take(s) \/ Crash(s)
  \/ \E p \in Pages : Rerender(p)

Spec == Init /\ [][Next]_vars

=============================================================================
