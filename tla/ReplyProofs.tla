------------------------------- MODULE ReplyProofs -------------------------------
(***************************************************************************)
(* Proofs about replies and batches of replies, for any number of calls,   *)
(* comments, texts, reports and leads and any bounds.  One reply           *)
(* (reply_to_comment): the history file keeps a second reply away, and a   *)
(* click posts what its caller asked for.  Batches (reply_batch.py): only  *)
(* sources of the policy are answered, and the limits hold.                *)
(***************************************************************************)
EXTENDS ReplyBatchProps, FiniteSetTheorems, WellFoundedInduction, TLAPS

\* Calls that overlap are on pages of their own, as those of different accounts'
\* browsers are, and those of a batch, which makes them one after the other.
PagesAreOwn == \A s, u \in Senders : PageOf[s] = PageOf[u] => s = u

-----------------------------------------------------------------------------
(* The inductive invariant.                                                *)

Sending == {"check", "compose", "send", "clicked", "verify"}
AtWork  == Preparing \cup Sending

\* Whoever is at work passed the gates: there is a text, and unless it is a dry run
\* replies are allowed.
PassedGates(s) ==
  /\ req[s] \in Requests /\ MyText(s) # NoText
  /\ req[s].allowed \/ DryRun(req[s])

\* Whoever typed to send has the confirmations.
SendsForReal(s) == ~DryRun(req[s]) /\ ~req[s].preview

\* A call that has opened its comment is on the comment's page.
AtComment(s) == MyPage(s).at = MyComment(s)

\* Until it clicks the comment's input holds its text, or was rendered anew.
DraftKept(s) == MyPage(s).draft[MyComment(s)] \in {MyText(s), NoText}

\* The history was silent when the call read it; whoever adds a line meanwhile
\* overlaps with the call.
StillUnrecorded(s) ==
  \/ DryRun(req[s]) \/ req[s].override
  \/ ~history[MyComment(s)][MyText(s)].performed
  \/ Pair(s) \in excused

CallOK(s) ==
  /\ pc[s] \in AtWork => PassedGates(s)
  /\ pc[s] \in Sending => SendsForReal(s)
  /\ pc[s] \in AtWork \ {"open"} => AtComment(s)
  /\ pc[s] \in {"check", "compose", "send"} => DraftKept(s)
  /\ pc[s] \in Preparing => StillUnrecorded(s)

CallInv == \A s \in Senders : CallOK(s)

\* An input has the focus only in the thread that the page shows.
FocusInv == \A p \in Pages : page[p].focus \in {Nobody, page[p].at}

Inv == TypeOK /\ CallInv /\ FocusInv /\ RepliedOnce /\ PostedIsRecorded

\* What a request that is at work names.
LEMMA RequestType ==
  ASSUME TypeOK, NEW s \in Senders, CallOK(s), pc[s] \in AtWork
  PROVE  MyComment(s) \in Comments /\ MyText(s) \in Texts
  BY RequestAssumption DEF CallOK, PassedGates, MyComment, MyText

\* Where the call has opened its comment, its input is that comment's.
LEMMA InputIsOwn ==
  ASSUME TypeOK, FocusInv, NEW s \in Senders, AtComment(s)
  PROVE  Input(s) = MyComment(s)
  BY PageAssumption DEF FocusInv, AtComment, Input, MyPage

LEMMA FreshType ==
  ASSUME NEW c \in Comments \cup {Nobody}
  PROVE  Fresh(c) \in Page /\ Fresh(c).focus = Nobody /\ Fresh(c).at = c
  BY DEF Fresh, Page, Drafts

LEMMA InvInit == Init => Inv
  <1> SUFFICES ASSUME Init PROVE Inv
    OBVIOUS
  <1>1. Fresh(Nobody) \in Page /\ Fresh(Nobody).focus = Nobody
    BY FreshType
  <1>2. TypeOK
    BY <1>1, BoundAssumption DEF Init, TypeOK, Phases, NoResult, Done, Result, Status, NoLine, Line
  <1>3. CallInv
    BY DEF Init, CallInv, CallOK, AtWork, Preparing, Sending
  <1> QED
    BY <1>1, <1>2, <1>3 DEF Init, Inv, FocusInv, RepliedOnce, PostedIsRecorded

-----------------------------------------------------------------------------
(* Frames.                                                                 *)

\* A call keeps its invariant while nobody touches its state, its page and what
\* the history says of its reply.
LEMMA CallFrame ==
  ASSUME NEW u \in Senders, CallOK(u),
         pc'[u] = pc[u], req'[u] = req[u], page'[PageOf[u]] = page[PageOf[u]],
         pc[u] \in Preparing /\ StillUnrecorded(u) => StillUnrecorded(u)'
  PROVE  CallOK(u)'
  BY DEF CallOK, PassedGates, SendsForReal, AtComment, DraftKept, MyPage, MyComment, MyText

\* What one call's step does to the others, where the page it writes is its own.
LEMMA OthersFrame ==
  ASSUME Inv, PagesAreOwn, NEW s \in Senders, NEW r,
         NEW phase, pc' = [pc EXCEPT ![s] = phase],
         req' = req \/ req' = [req EXCEPT ![s] = r],
         \A p \in Pages \ {PageOf[s]} : page'[p] = page[p],
         UNCHANGED history, excused \subseteq excused'
  PROVE  \A u \in Senders \ {s} : CallOK(u)'
  <1> SUFFICES ASSUME NEW u \in Senders, u # s PROVE CallOK(u)'
    OBVIOUS
  <1>1. pc'[u] = pc[u] /\ req'[u] = req[u]
    BY DEF Inv, TypeOK
  <1>2. page'[PageOf[u]] = page[PageOf[u]]
    BY PageAssumption DEF PagesAreOwn
  <1>3. StillUnrecorded(u) => StillUnrecorded(u)'
    BY <1>1 DEF StillUnrecorded, MyComment, MyText, Pair
  <1> QED
    BY <1>1, <1>2, <1>3, CallFrame DEF Inv, CallInv

\* While no click and no line comes, Facebook and the history keep agreeing: only a
\* call that has clicked may not go on.
LEMMA AgreementFrame ==
  ASSUME Inv, NEW s \in Senders, NEW phase, pc' = [pc EXCEPT ![s] = phase],
         pc[s] # "clicked", req' = req, UNCHANGED <<history, posted, excused>>
  PROVE  RepliedOnce' /\ PostedIsRecorded'
  <1>1. RepliedOnce'
    BY DEF Inv, RepliedOnce
  <1>2. ASSUME NEW c \in Comments, NEW t \in Texts, posted[c][t] > 0,
               NEW u \in Senders, pc[u] = "clicked", Pair(u) = <<c, t>>
        PROVE  pc'[u] = "clicked" /\ Pair(u)' = <<c, t>>
    BY <1>2 DEF Inv, TypeOK, Pair, MyComment, MyText
  <1> QED
    BY <1>1, <1>2 DEF Inv, PostedIsRecorded

-----------------------------------------------------------------------------
(* Steps.                                                                  *)

LEMMA ResultType ==
  ASSUME NEW status \in Status, NEW reason \in {"none", "draft", "login", "disconnected"}
  PROVE  Done(status, reason) \in Result
  BY DEF Done, Result

\* A gate that refuses says why.
LEMMA VerdictType ==
  ASSUME NEW q
  PROVE  Verdict(q) = "open" \/ Verdict(q) \in Status
  BY DEF Verdict, BlockedBy, Status

\* Passing the gates is passing the gates.
LEMMA CallStep ==
  ASSUME Inv, PagesAreOwn, NEW s \in Senders, NEW q \in Requests, Call(s, q)
  PROVE  Inv'
  <1>1. pc[s] = "idle" /\ req' = [req EXCEPT ![s] = q]
    BY DEF Call
  <1>2. \/ Verdict(q) = "open" /\ pc' = [pc EXCEPT ![s] = "open"] /\ UNCHANGED result
        \/ pc' = [pc EXCEPT ![s] = "done"] /\ \E r \in Result : result' = [result EXCEPT ![s] = r]
    BY ResultType, VerdictType DEF Call, Goto, Return, Status
  <1>3. TypeOK'
    BY <1>1, <1>2, BoundAssumption DEF Inv, TypeOK, Call, Phases, Preparing
  <1>4. \A u \in Senders \ {s} : CallOK(u)'
    BY <1>1, <1>2, OthersFrame DEF Call
  <1>5. CallOK(s)'
    <2>1. CASE pc'[s] = "done"
      BY <2>1 DEF CallOK, AtWork, Preparing, Sending
    <2>2. CASE pc'[s] = "open" /\ Verdict(q) = "open"
      <3>1. q.text # NoText /\ (q.allowed \/ DryRun(q)) /\ q.text \in Texts
        BY <2>2, RequestAssumption DEF Verdict
      <3>2. DryRun(q) \/ q.override \/ BlockedBy(q.comment, q.text) = "none"
        BY <2>2 DEF Verdict, BlockedBy
      <3>3. req'[s] = q
        BY <1>1 DEF Inv, TypeOK
      <3>4. PassedGates(s)'
        BY <3>1, <3>3 DEF PassedGates, MyText, DryRun
      <3>5. StillUnrecorded(s)'
        BY <3>1, <3>2, <3>3 DEF StillUnrecorded, MyText, MyComment, BlockedBy, DryRun, Call
      <3> QED
        BY <2>2, <3>4, <3>5 DEF CallOK, Sending
    <2> QED
      BY <1>2, <2>1, <2>2 DEF Inv, TypeOK
  <1>6. FocusInv' /\ RepliedOnce'
    BY DEF Call, Inv, FocusInv, RepliedOnce
  <1>7. PostedIsRecorded'
    <2>1. ASSUME NEW u \in Senders, pc[u] = "clicked"
          PROVE  pc'[u] = "clicked" /\ Pair(u)' = Pair(u)
      BY <1>1, <1>2, <2>1 DEF Inv, TypeOK, Pair, MyComment, MyText
    <2> QED
      BY <2>1 DEF Call, Inv, PostedIsRecorded
  <1> QED
    BY <1>3, <1>4, <1>5, <1>6, <1>7 DEF Inv, CallInv

\* A step that ends a call before its click, or takes it one look further, while the
\* page keeps what it holds.
LEMMA LookingStep ==
  ASSUME Inv, PagesAreOwn, NEW s \in Senders,
         Preview(s) \/ RefuseDraft(s) \/ Preflight(s) \/ Compose(s) \/ Raise(s)
  PROVE  Inv'
  <1>1. pc[s] \in Preparing /\ UNCHANGED <<page, req, history, today, posted, excused, calls, faults>>
    BY DEF Preview, RefuseDraft, Preflight, Compose, Raise, Preparing, quiet
  <1>2. \/ /\ pc[s] = "check" /\ pc' = [pc EXCEPT ![s] = "compose"]
           /\ UNCHANGED result
        \/ /\ pc[s] = "compose" /\ pc' = [pc EXCEPT ![s] = "send"]
           /\ UNCHANGED result
        \/ /\ pc' = [pc EXCEPT ![s] = "done"]
           /\ \E r \in Result : result' = [result EXCEPT ![s] = r]
    BY ResultType DEF Preview, RefuseDraft, Preflight, Compose, Raise, Goto, Return, Status
  <1>3. TypeOK'
    BY <1>1, <1>2 DEF Inv, TypeOK, Phases, Preparing
  <1>4. \A u \in Senders \ {s} : CallOK(u)'
    BY <1>1, <1>2, OthersFrame
  <1>5. CallOK(s)'
    BY <1>1, <1>2 DEF Inv, TypeOK, CallInv, CallOK, AtWork, Preparing, Sending, PassedGates,
          SendsForReal, AtComment, DraftKept, StillUnrecorded, MyPage, MyComment, MyText, Pair
  <1>6. FocusInv'
    BY <1>1 DEF Inv, FocusInv
  <1>7. RepliedOnce' /\ PostedIsRecorded'
    BY <1>1, <1>2, AgreementFrame DEF Preparing
  <1> QED
    BY <1>3, <1>4, <1>5, <1>6, <1>7 DEF Inv, CallInv

\* Opening shows the comment, with drafts of earlier calls at most in the thread shown.
LEMMA OpenStep ==
  ASSUME Inv, PagesAreOwn, NEW s \in Senders, Open(s)
  PROVE  Inv'
  <1>1. pc[s] = "open" /\ UNCHANGED <<req, history, today, posted, excused, calls, faults>>
    BY DEF Open, quiet
  <1>2. MyComment(s) \in Comments /\ CallOK(s)
    BY <1>1, RequestType DEF Inv, CallInv, AtWork, Preparing
  <1>3. \E x \in Page : /\ page' = [page EXCEPT ![PageOf[s]] = x]
                        /\ x.at = MyComment(s) /\ x.focus \in {Nobody, x.at}
    <2>1. PageOf[s] \in Pages /\ MyPage(s) \in Page /\ MyPage(s).focus \in {Nobody, MyPage(s).at}
      BY PageAssumption DEF Inv, TypeOK, FocusInv, MyPage
    <2> QED
      BY <1>2, <2>1, FreshType DEF Open, MyPage
  <1>4. \/ pc' = [pc EXCEPT ![s] = "react"] /\ UNCHANGED result
        \/ pc' = [pc EXCEPT ![s] = "done"] /\ \E r \in Result : result' = [result EXCEPT ![s] = r]
    BY ResultType DEF Open, Locate, Goto, Return, Status
  <1>5. TypeOK'
    BY <1>1, <1>3, <1>4 DEF Inv, TypeOK, Phases, Preparing
  <1>6. \A u \in Senders \ {s} : CallOK(u)'
    <2>1. \A p \in Pages \ {PageOf[s]} : page'[p] = page[p]
      BY <1>3 DEF Inv, TypeOK
    <2> QED
      BY <1>1, <1>4, <2>1, OthersFrame
  <1>7. CallOK(s)'
    <2>1. AtComment(s)'
      BY <1>1, <1>3, PageAssumption DEF Inv, TypeOK, AtComment, MyPage, MyComment
    <2> QED
      BY <1>1, <1>2, <1>4, <2>1 DEF Inv, TypeOK, CallOK, AtWork, Preparing, Sending, PassedGates,
            StillUnrecorded, MyComment, MyText, Pair
  <1>8. FocusInv'
    BY <1>3 DEF Inv, TypeOK, FocusInv
  <1>9. RepliedOnce' /\ PostedIsRecorded'
    BY <1>1, <1>4, AgreementFrame
  <1> QED
    BY <1>5, <1>6, <1>7, <1>8, <1>9 DEF Inv, CallInv

\* The click on the reply action gives the comment's own input the focus.
LEMMA ClickReplyStep ==
  ASSUME Inv, PagesAreOwn, NEW s \in Senders, ClickReply(s)
  PROVE  Inv'
  <1>1. pc[s] = "react" /\ UNCHANGED <<req, history, today, posted, excused, calls, faults>>
    BY DEF ClickReply, quiet
  <1>2. MyComment(s) \in Comments /\ CallOK(s) /\ AtComment(s)
    BY <1>1, RequestType DEF Inv, CallInv, CallOK, AtWork, Preparing
  <1>3. \E x \in Page : /\ page' = [page EXCEPT ![PageOf[s]] = x]
                        /\ x.at = MyComment(s) /\ x.focus \in {Nobody, x.at}
    <2>1. PageOf[s] \in Pages /\ MyPage(s) \in Page /\ MyPage(s).focus \in {Nobody, MyPage(s).at}
      BY PageAssumption DEF Inv, TypeOK, FocusInv, MyPage
    <2>2. CASE page' = page
      <3>1. page' = [page EXCEPT ![PageOf[s]] = MyPage(s)]
        BY <2>1, <2>2 DEF MyPage, Inv, TypeOK
      <3> QED  BY <1>2, <2>1, <3>1 DEF AtComment
    <2>3. ASSUME NEW mention \in BOOLEAN,
                 page' = [page EXCEPT ![PageOf[s]].focus = MyComment(s),
                                      ![PageOf[s]].draft[MyComment(s)] =
                                         IF mention /\ @ = NoText THEN Mention ELSE @]
          PROVE  \E x \in Page : /\ page' = [page EXCEPT ![PageOf[s]] = x]
                                 /\ x.at = MyComment(s) /\ x.focus \in {Nobody, x.at}
      <3> DEFINE x == [MyPage(s) EXCEPT !.focus = MyComment(s),
                                        !.draft[MyComment(s)] =
                                           IF mention /\ @ = NoText THEN Mention ELSE @]
      <3>1. x \in Page /\ x.at = MyComment(s) /\ x.focus = MyComment(s)
        BY <1>2, <2>1 DEF Page, Drafts, AtComment
      <3>2. page' = [page EXCEPT ![PageOf[s]] = x]
        BY <2>1, <2>3 DEF MyPage, Inv, TypeOK
      <3> QED  BY <3>1, <3>2
    <2> QED
      BY <2>2, <2>3 DEF ClickReply, Obstructed
  <1>4. \/ pc' = [pc EXCEPT ![s] = "fill"] /\ UNCHANGED result
        \/ pc' = [pc EXCEPT ![s] = "done"] /\ \E r \in Result : result' = [result EXCEPT ![s] = r]
    BY ResultType DEF ClickReply, Obstructed, Goto, Return, Status
  <1>5. TypeOK'
    BY <1>1, <1>3, <1>4 DEF Inv, TypeOK, Phases, Preparing
  <1>6. \A u \in Senders \ {s} : CallOK(u)'
    <2>1. \A p \in Pages \ {PageOf[s]} : page'[p] = page[p]
      BY <1>3 DEF Inv, TypeOK
    <2> QED
      BY <1>1, <1>4, <2>1, OthersFrame
  <1>7. CallOK(s)'
    <2>1. AtComment(s)'
      BY <1>1, <1>3, PageAssumption DEF Inv, TypeOK, AtComment, MyPage, MyComment
    <2> QED
      BY <1>1, <1>2, <1>4, <2>1 DEF Inv, TypeOK, CallOK, AtWork, Preparing, Sending, PassedGates,
            StillUnrecorded, MyComment, MyText, Pair
  <1>8. FocusInv'
    BY <1>3 DEF Inv, TypeOK, FocusInv
  <1>9. RepliedOnce' /\ PostedIsRecorded'
    BY <1>1, <1>4, AgreementFrame
  <1> QED
    BY <1>5, <1>6, <1>7, <1>8, <1>9 DEF Inv, CallInv

\* Typing into the call's input changes the draft of its comment and nothing else.
LEMMA SetDraftIsOwn ==
  ASSUME Inv, NEW s \in Senders, MyComment(s) \in Comments, AtComment(s),
         NEW d \in Drafts, SetDraft(s, d)
  PROVE  /\ page' \in [Pages -> Page] /\ FocusInv'
         /\ \A p \in Pages \ {PageOf[s]} : page'[p] = page[p]
         /\ page'[PageOf[s]].at = MyPage(s).at
         /\ page'[PageOf[s]].draft[MyComment(s)] = d
  <1>1. PageOf[s] \in Pages /\ MyPage(s) \in Page /\ page \in [Pages -> Page]
    BY PageAssumption DEF Inv, TypeOK, MyPage
  <1>2. page' = [page EXCEPT ![PageOf[s]].draft[MyComment(s)] = d]
    BY InputIsOwn DEF Inv, SetDraft
  <1> DEFINE x == [MyPage(s) EXCEPT !.draft[MyComment(s)] = d]
  <1>3. x \in Page /\ x.at = MyPage(s).at /\ x.focus = MyPage(s).focus
        /\ x.draft[MyComment(s)] = d
    BY <1>1 DEF Page
  <1>4. page' = [page EXCEPT ![PageOf[s]] = x]
    BY <1>1, <1>2 DEF MyPage
  <1> HIDE DEF x
  <1>5. FocusInv'
    BY <1>1, <1>3, <1>4 DEF Inv, FocusInv, MyPage
  <1> QED
    BY <1>1, <1>3, <1>4, <1>5

LEMMA FillStep ==
  ASSUME Inv, PagesAreOwn, NEW s \in Senders, FillInput(s)
  PROVE  Inv'
  <1>1. /\ pc[s] = "fill" /\ ~req[s].preview
        /\ UNCHANGED <<req, history, today, posted, excused, calls, faults>>
    BY DEF FillInput, quiet
  <1>2. MyComment(s) \in Comments /\ MyText(s) \in Texts /\ CallOK(s) /\ AtComment(s)
    BY <1>1, RequestType DEF Inv, CallInv, CallOK, AtWork, Preparing
  <1>3. \/ /\ ~DryRun(req[s]) /\ SetDraft(s, MyText(s))
           /\ pc' = [pc EXCEPT ![s] = "check"] /\ UNCHANGED result
        \/ /\ \E d \in Drafts : SetDraft(s, d)
           /\ pc' = [pc EXCEPT ![s] = "done"]
           /\ \E r \in Result : result' = [result EXCEPT ![s] = r]
    BY <1>2, ResultType DEF FillInput, Goto, Return, Status, Drafts
  <1>4. PICK d \in Drafts : SetDraft(s, d) /\ (pc'[s] = "check" => d = MyText(s))
    BY <1>2, <1>3 DEF Drafts, Inv, TypeOK
  <1>5. /\ page' \in [Pages -> Page] /\ FocusInv'
        /\ \A p \in Pages \ {PageOf[s]} : page'[p] = page[p]
        /\ page'[PageOf[s]].at = MyPage(s).at
        /\ page'[PageOf[s]].draft[MyComment(s)] = d
    BY <1>2, <1>4, SetDraftIsOwn
  <1>6. TypeOK'
    BY <1>1, <1>3, <1>5 DEF Inv, TypeOK, Phases, Preparing
  <1>7. \A u \in Senders \ {s} : CallOK(u)'
    BY <1>1, <1>3, <1>5, OthersFrame
  <1>8. CallOK(s)'
    <2>1. CASE pc'[s] = "done"
      BY <2>1 DEF CallOK, AtWork, Preparing, Sending
    <2>2. CASE pc'[s] = "check" /\ ~DryRun(req[s])
      <3>1. AtComment(s)' /\ DraftKept(s)'
        BY <1>1, <1>2, <1>4, <1>5, <2>2 DEF AtComment, DraftKept, MyPage, MyComment, MyText
      <3>2. PassedGates(s)' /\ SendsForReal(s)' /\ StillUnrecorded(s)'
        BY <1>1, <1>2, <2>2 DEF CallOK, AtWork, Preparing, PassedGates, SendsForReal,
              StillUnrecorded, MyComment, MyText, Pair
      <3> QED
        BY <2>2, <3>1, <3>2 DEF CallOK
    <2> QED
      BY <1>3, <2>1, <2>2 DEF Inv, TypeOK
  <1>9. RepliedOnce' /\ PostedIsRecorded'
    BY <1>1, <1>3, AgreementFrame
  <1> QED
    BY <1>5, <1>6, <1>7, <1>8, <1>9 DEF Inv, CallInv

\* A click that lands posts the call's own text under its own comment.
LEMMA DeliverPostsOwn ==
  ASSUME Inv, NEW s \in Senders, pc[s] = "send", Deliver(s)
  PROVE  posted' = [posted EXCEPT ![MyComment(s)][MyText(s)] = @ + 1]
  <1>1. AtComment(s) /\ DraftKept(s)
    BY DEF Inv, CallInv, CallOK, AtWork, Preparing
  <1>2. Input(s) = MyComment(s)
    BY <1>1, InputIsOwn DEF Inv
  <1>3. MyPage(s).draft[MyComment(s)] = MyText(s)
    BY <1>1, <1>2, NullAssumption DEF Deliver, DraftKept
  <1> QED
    BY <1>2, <1>3 DEF Deliver

\* Whoever clicks with no line in the history, unseen by anybody, is the first.
LEMMA FirstClick ==
  ASSUME Inv, NEW s \in Senders, pc[s] = "send", ~req[s].override, ~Overtaken(s),
         posted[MyComment(s)][MyText(s)] > 0
  PROVE  Pair(s) \in excused
  <1>1. MyComment(s) \in Comments /\ MyText(s) \in Texts /\ CallOK(s)
    BY RequestType DEF Inv, CallInv, AtWork, Preparing
  <1>2. CASE \E u \in Senders : pc[u] = "clicked" /\ Pair(u) = Pair(s)
    <2>1. PICK u \in Senders : pc[u] = "clicked" /\ Pair(u) = Pair(s)
      BY <1>2
    <2>2. u # s /\ Same(s, u)
      BY <2>1 DEF Pair, Same
    <2> QED
      BY <2>1, <2>2 DEF Overtaken
  <1>3. CASE history[MyComment(s)][MyText(s)].performed
    BY <1>1, <1>3 DEF CallOK, Preparing, Sending, SendsForReal, StillUnrecorded
  <1> QED
    BY <1>1, <1>2, <1>3 DEF Inv, PostedIsRecorded, Pair

LEMMA ClickStep ==
  ASSUME Inv, PagesAreOwn, NEW s \in Senders, Click(s)
  PROVE  Inv'
  <1>1. pc[s] = "send" /\ UNCHANGED <<req, history, today, calls, faults>>
    BY DEF Click
  <1>2. MyComment(s) \in Comments /\ MyText(s) \in Texts /\ CallOK(s) /\ AtComment(s)
    BY <1>1, RequestType DEF Inv, CallInv, CallOK, AtWork, Preparing
  <1>3. PICK delivered \in BOOLEAN, raised \in BOOLEAN :
       /\ IF delivered THEN Deliver(s) ELSE UNCHANGED <<posted, page>>
       /\ IF raised
          THEN Return(s, Done("send_failed", "none"))
          ELSE Goto(s, "clicked")
       /\ excused' = IF req[s].override \/ raised \/ Overtaken(s)
                     THEN excused \cup {Pair(s)} ELSE excused
    BY DEF Click
  <1>4. /\ page' \in [Pages -> Page] /\ FocusInv'
        /\ \A p \in Pages \ {PageOf[s]} : page'[p] = page[p]
        /\ page'[PageOf[s]].at = MyPage(s).at
    BY <1>2, <1>3, SetDraftIsOwn DEF Deliver, Drafts, Inv, TypeOK, MyPage, FocusInv
  <1>5. /\ excused \subseteq excused' /\ excused' \subseteq excused \cup {Pair(s)}
        /\ raised => Pair(s) \in excused'
    BY <1>3
  <1>6. \/ ~raised /\ pc' = [pc EXCEPT ![s] = "clicked"] /\ UNCHANGED result
        \/ /\ raised /\ pc' = [pc EXCEPT ![s] = "done"]
           /\ \E r \in Result : result' = [result EXCEPT ![s] = r]
    BY <1>3, ResultType DEF Goto, Return, Status
  <1>7. posted' = posted \/ posted' = [posted EXCEPT ![MyComment(s)][MyText(s)] = @ + 1]
    BY <1>1, <1>3, DeliverPostsOwn
  <1>8. TypeOK'
    <2>1. posted' \in [Comments -> [Texts -> Nat]]
      BY <1>2, <1>7 DEF Inv, TypeOK
    <2>2. excused' \subseteq Comments \X Texts
      BY <1>2, <1>5 DEF Inv, TypeOK, Pair
    <2>3. pc' \in [Senders -> Phases] /\ result' \in [Senders -> Result]
      BY <1>6 DEF Inv, TypeOK, Phases
    <2> QED
      BY <1>1, <1>4, <2>1, <2>2, <2>3 DEF Inv, TypeOK
  <1>9. \A u \in Senders \ {s} : CallOK(u)'
    BY <1>1, <1>4, <1>5, <1>6, OthersFrame
  <1>10. CallOK(s)'
    BY <1>1, <1>2, <1>4, <1>6 DEF Inv, TypeOK, CallOK, AtWork, Preparing, Sending, PassedGates,
       SendsForReal, AtComment, MyPage, MyComment, MyText
  <1>11. RepliedOnce'
    <2>1. ASSUME posted[MyComment(s)][MyText(s)] > 0
          PROVE  Pair(s) \in excused'
      BY <1>1, <1>3, <1>5, <2>1, FirstClick
    <2>2. ASSUME NEW c \in Comments, NEW t \in Texts, posted'[c][t] > 1
          PROVE  <<c, t>> \in excused'
      <3>1. CASE posted'[c][t] = posted[c][t]
        BY <1>5, <2>2, <3>1 DEF Inv, RepliedOnce
      <3>2. CASE posted'[c][t] # posted[c][t]
        <4>1. c = MyComment(s) /\ t = MyText(s) /\ posted'[c][t] = posted[c][t] + 1
          BY <1>7, <3>2 DEF Inv, TypeOK
        <4>2. posted[c][t] \in Nat
          BY DEF Inv, TypeOK
        <4> QED
          BY <2>1, <2>2, <4>1, <4>2 DEF Pair
      <3> QED  BY <3>1, <3>2
    <2> QED  BY <2>2 DEF RepliedOnce
  <1>12. PostedIsRecorded'
    <2> SUFFICES ASSUME NEW c \in Comments, NEW t \in Texts, posted'[c][t] > 0
                 PROVE  \/ history[c][t].performed
                        \/ <<c, t>> \in excused'
                        \/ \E u \in Senders : pc'[u] = "clicked" /\ Pair(u)' = <<c, t>>
      BY <1>1 DEF PostedIsRecorded
    <2>1. CASE <<c, t>> = Pair(s)
      BY <1>1, <1>5, <1>6, <2>1 DEF Inv, TypeOK, Pair, MyComment, MyText
    <2>2. CASE <<c, t>> # Pair(s)
      <3>1. posted[c][t] > 0
        BY <1>2, <1>7, <2>2 DEF Inv, TypeOK, Pair
      <3>2. ASSUME NEW u \in Senders, pc[u] = "clicked"
            PROVE  pc'[u] = "clicked" /\ Pair(u)' = Pair(u)
        BY <1>1, <1>6, <3>2 DEF Inv, TypeOK, Pair, MyComment, MyText
      <3> QED
        BY <1>5, <3>1, <3>2 DEF Inv, PostedIsRecorded
    <2> QED  BY <2>1, <2>2
  <1> QED
    BY <1>4, <1>8, <1>9, <1>10, <1>11, <1>12 DEF Inv, CallInv

\* A line written for one reply leaves those of the others alone.
LEMMA LineFrame ==
  ASSUME TypeOK, NEW c \in Comments, NEW t \in Texts, NEW line \in Line,
         history' = [history EXCEPT ![c][t] = line]
  PROVE  /\ history' \in [Comments -> [Texts -> Line]] /\ history'[c][t] = line
         /\ \A d \in Comments, u \in Texts : <<d, u>> # <<c, t>> => history'[d][u] = history[d][u]
  BY DEF TypeOK

\* The line is written while no other call for the reply has read the history, or
\* the pair is excused.
LEMMA RecordClickStep ==
  ASSUME Inv, PagesAreOwn, NEW s \in Senders, RecordClick(s)
  PROVE  Inv'
  <1>1. /\ pc[s] = "clicked" /\ pc' = [pc EXCEPT ![s] = "verify"]
        /\ UNCHANGED <<req, result, page, today, posted, calls, faults>>
        /\ history' = [history EXCEPT ![MyComment(s)][MyText(s)].performed = TRUE]
    BY DEF RecordClick, Goto
  <1>2. MyComment(s) \in Comments /\ MyText(s) \in Texts /\ CallOK(s)
    BY <1>1, RequestType DEF Inv, CallInv, AtWork, Sending
  <1>3. /\ excused \subseteq excused' /\ excused' \subseteq excused \cup {Pair(s)}
        /\ Overtaken(s) => Pair(s) \in excused'
    BY DEF RecordClick
  <1>4. /\ history' \in [Comments -> [Texts -> Line]]
        /\ history'[MyComment(s)][MyText(s)].performed
        /\ \A c \in Comments, t \in Texts : <<c, t>> # Pair(s) => history'[c][t] = history[c][t]
    <2> DEFINE line == [history[MyComment(s)][MyText(s)] EXCEPT !.performed = TRUE]
    <2>1. history[MyComment(s)][MyText(s)] \in Line
      BY <1>2 DEF Inv, TypeOK
    <2>2. line \in Line /\ line.performed
      BY <2>1 DEF Line
    <2>3. history' = [history EXCEPT ![MyComment(s)][MyText(s)] = line]
      BY <1>1, <1>2 DEF Inv, TypeOK
    <2> HIDE DEF line
    <2> QED
      BY <1>2, <2>2, <2>3, LineFrame DEF Inv, Pair
  <1>5. TypeOK'
    <2>1. excused' \subseteq Comments \X Texts
      BY <1>2, <1>3 DEF Inv, TypeOK, Pair
    <2> QED
      BY <1>1, <1>4, <2>1 DEF Inv, TypeOK, Phases
  <1>6. ASSUME NEW u \in Senders, u # s
        PROVE  CallOK(u)'
    <2>1. pc'[u] = pc[u] /\ req'[u] = req[u]
      BY <1>1, <1>6 DEF Inv, TypeOK
    <2>2. ASSUME pc[u] \in Preparing, StillUnrecorded(u)
          PROVE  StillUnrecorded(u)'
      <3>1. MyComment(u) \in Comments /\ MyText(u) \in Texts
        BY <2>2, RequestType DEF Inv, CallInv, AtWork
      <3>2. CASE Pair(u) = Pair(s)
        <4>1. Overtaken(s)
          BY <1>6, <2>2, <3>2 DEF Overtaken, Same, Pair
        <4> QED
          BY <1>3, <2>1, <3>2, <4>1 DEF StillUnrecorded, Pair, MyComment, MyText
      <3>3. CASE Pair(u) # Pair(s)
        BY <1>3, <1>4, <2>1, <2>2, <3>1, <3>3 DEF StillUnrecorded, Pair, MyComment, MyText
      <3> QED  BY <3>2, <3>3
    <2> QED
      BY <1>1, <2>1, <2>2, CallFrame DEF Inv, CallInv
  <1>7. CallOK(s)'
    BY <1>1, <1>2 DEF Inv, TypeOK, CallOK, AtWork, Preparing, Sending, PassedGates, SendsForReal,
       AtComment, MyPage, MyComment, MyText
  <1>8. FocusInv'
    BY <1>1 DEF Inv, FocusInv
  <1>9. RepliedOnce'
    BY <1>1, <1>3 DEF Inv, RepliedOnce
  <1>10. PostedIsRecorded'
    <2> SUFFICES ASSUME NEW c \in Comments, NEW t \in Texts, posted[c][t] > 0
                 PROVE  \/ history'[c][t].performed
                        \/ <<c, t>> \in excused'
                        \/ \E u \in Senders : pc'[u] = "clicked" /\ Pair(u)' = <<c, t>>
      BY <1>1 DEF PostedIsRecorded
    <2>1. CASE <<c, t>> = Pair(s)
      BY <1>4, <2>1 DEF Pair
    <2>2. CASE <<c, t>> # Pair(s)
      <3>1. ASSUME NEW u \in Senders, pc[u] = "clicked", Pair(u) = <<c, t>>
            PROVE  pc'[u] = "clicked" /\ Pair(u)' = <<c, t>>
        BY <1>1, <2>2, <3>1 DEF Inv, TypeOK, Pair, MyComment, MyText
      <3> QED
        BY <1>3, <1>4, <2>2, <3>1 DEF Inv, PostedIsRecorded
    <2> QED  BY <2>1, <2>2
  <1> QED
    BY <1>5, <1>6, <1>7, <1>8, <1>9, <1>10 DEF Inv, CallInv

\* A verification adds to a line and takes nothing away.
LEMMA VerifyStep ==
  ASSUME Inv, PagesAreOwn, NEW s \in Senders, Verify(s)
  PROVE  Inv'
  <1>1. /\ pc[s] = "verify" /\ pc' = [pc EXCEPT ![s] = "done"]
        /\ UNCHANGED <<req, page, posted, excused, calls, faults>>
    BY DEF Verify, Return
  <1>2. MyComment(s) \in Comments /\ MyText(s) \in Texts
    BY <1>1, RequestType DEF Inv, CallInv, AtWork, Sending
  <1>3. \/ history' = [history EXCEPT ![MyComment(s)][MyText(s)].verified = TRUE] /\ today' = today + 1
        \/ UNCHANGED <<history, today>>
    BY DEF Verify
  <1>4. /\ history' \in [Comments -> [Texts -> Line]] /\ today' \in Nat
        /\ \A c \in Comments, t \in Texts : history'[c][t].performed = history[c][t].performed
    <2> DEFINE line == [history[MyComment(s)][MyText(s)] EXCEPT !.verified = TRUE]
    <2>1. history[MyComment(s)][MyText(s)] \in Line /\ today \in Nat
      BY <1>2 DEF Inv, TypeOK
    <2>2. line \in Line /\ line.performed = history[MyComment(s)][MyText(s)].performed
      BY <2>1 DEF Line
    <2>3. CASE UNCHANGED <<history, today>>
      BY <2>1, <2>3 DEF Inv, TypeOK
    <2>4. CASE /\ history' = [history EXCEPT ![MyComment(s)][MyText(s)].verified = TRUE]
               /\ today' = today + 1
      <3>1. history' = [history EXCEPT ![MyComment(s)][MyText(s)] = line]
        BY <1>2, <2>4 DEF Inv, TypeOK
      <3> HIDE DEF line
      <3>2. /\ history' \in [Comments -> [Texts -> Line]]
            /\ history'[MyComment(s)][MyText(s)] = line
            /\ \A c \in Comments, t \in Texts :
                 <<c, t>> # <<MyComment(s), MyText(s)>> => history'[c][t] = history[c][t]
        BY <1>2, <2>2, <3>1, LineFrame DEF Inv
      <3> QED
        BY <2>1, <2>2, <2>4, <3>2
    <2> QED
      BY <1>3, <2>3, <2>4
  <1>5. result' \in [Senders -> Result]
    <2>1. \A status \in {"verified", "unverified"}, verified \in BOOLEAN :
            [status |-> status, performed |-> TRUE, verified |-> verified, reason |-> "none"]
              \in Result
      BY DEF Result, Status
    <2>2. \E r \in Result : result' = [result EXCEPT ![s] = r]
      BY <2>1 DEF Verify, Return
    <2> QED
      BY <2>2 DEF Inv, TypeOK
  <1>6. TypeOK'
    BY <1>1, <1>4, <1>5 DEF Inv, TypeOK, Phases
  <1>7. ASSUME NEW u \in Senders, u # s
        PROVE  CallOK(u)'
    <2>1. pc'[u] = pc[u] /\ req'[u] = req[u]
      BY <1>1, <1>7 DEF Inv, TypeOK
    <2>2. ASSUME pc[u] \in Preparing, StillUnrecorded(u)
          PROVE  StillUnrecorded(u)'
      <3>1. MyComment(u) \in Comments /\ MyText(u) \in Texts
        BY <2>2, RequestType DEF Inv, CallInv, AtWork
      <3> QED
        BY <1>1, <1>4, <2>1, <2>2, <3>1 DEF StillUnrecorded, Pair, MyComment, MyText
    <2> QED
      BY <1>1, <2>1, <2>2, CallFrame DEF Inv, CallInv
  <1>8. CallOK(s)'
    BY <1>1 DEF Inv, TypeOK, CallOK, AtWork, Preparing, Sending
  <1>9. FocusInv' /\ RepliedOnce'
    BY <1>1 DEF Inv, FocusInv, RepliedOnce
  <1>10. PostedIsRecorded'
    <2>1. ASSUME NEW u \in Senders, pc[u] = "clicked"
          PROVE  pc'[u] = "clicked" /\ Pair(u)' = Pair(u)
      BY <1>1, <2>1 DEF Inv, TypeOK, Pair, MyComment, MyText
    <2> QED
      BY <1>1, <1>4, <2>1 DEF Inv, PostedIsRecorded
  <1> QED
    BY <1>6, <1>7, <1>8, <1>9, <1>10 DEF Inv, CallInv

\* A call that ends, or dies, is forgotten; a click nobody will record is excused.
LEMMA LeaveStep ==
  ASSUME Inv, PagesAreOwn, NEW s \in Senders, Take(s) \/ Crash(s)
  PROVE  Inv'
  <1>1. /\ pc' = [pc EXCEPT ![s] = "idle"] /\ req' = [req EXCEPT ![s] = NoRequest]
        /\ result' = [result EXCEPT ![s] = NoResult]
        /\ UNCHANGED <<page, history, today, posted, calls>>
    BY DEF Take, Crash, Leave
  <1>2. /\ excused \subseteq excused' /\ excused' \subseteq excused \cup {Pair(s)}
        /\ pc[s] = "clicked" => Pair(s) \in excused'
        /\ pc[s] # "clicked" => excused' = excused
    BY DEF Take, Crash
  <1>3. TypeOK'
    <2>1. NoResult \in Result
      BY ResultType DEF NoResult, Status
    <2>2. excused' \subseteq Comments \X Texts
      <3>1. CASE pc[s] = "clicked"
        BY <1>2, <3>1, RequestType DEF Inv, TypeOK, CallInv, AtWork, Sending, Pair
      <3> QED  BY <1>2, <3>1 DEF Inv, TypeOK
    <2>3. faults' \in 0..MaxFaults
      BY BoundAssumption DEF Take, Crash, Inv, TypeOK
    <2> QED
      BY <1>1, <2>1, <2>2, <2>3 DEF Inv, TypeOK, Phases
  <1>4. \A u \in Senders \ {s} : CallOK(u)'
    BY <1>1, <1>2, OthersFrame
  <1>5. CallOK(s)'
    BY <1>1 DEF Inv, TypeOK, CallOK, AtWork, Preparing, Sending
  <1>6. FocusInv' /\ RepliedOnce'
    BY <1>1, <1>2 DEF Inv, FocusInv, RepliedOnce
  <1>7. PostedIsRecorded'
    <2>1. ASSUME NEW u \in Senders, u # s
          PROVE  pc'[u] = pc[u] /\ Pair(u)' = Pair(u)
      BY <1>1, <2>1 DEF Inv, TypeOK, Pair, MyComment, MyText
    <2> QED
      BY <1>1, <1>2, <2>1 DEF Inv, PostedIsRecorded
  <1> QED
    BY <1>3, <1>4, <1>5, <1>6, <1>7 DEF Inv, CallInv

\* A page rendered anew shows the same comment, with empty inputs.
LEMMA RerenderStep ==
  ASSUME Inv, NEW p \in Pages, Rerender(p)
  PROVE  Inv'
  <1>1. /\ page' = [page EXCEPT ![p] = Fresh(page[p].at)] /\ faults' = faults + 1 /\ faults < MaxFaults
        /\ UNCHANGED <<pc, req, result, history, today, posted, excused, calls>>
    BY DEF Rerender, Inv, TypeOK
  <1>2. page[p].at \in Comments \cup {Nobody}
    BY DEF Inv, TypeOK, Page
  <1>3. Fresh(page[p].at) \in Page /\ Fresh(page[p].at).at = page[p].at
        /\ Fresh(page[p].at).focus = Nobody
    BY <1>2, FreshType
  <1>4. TypeOK'
    BY <1>1, <1>3, BoundAssumption DEF Inv, TypeOK
  <1>5. FocusInv'
    BY <1>1, <1>3 DEF Inv, TypeOK, FocusInv
  <1>6. ASSUME NEW u \in Senders
        PROVE  CallOK(u)'
    <2>1. AtComment(u) => AtComment(u)'
      BY <1>1, <1>3, PageAssumption DEF Inv, TypeOK, AtComment, MyPage, MyComment
    <2>2. ASSUME pc[u] \in {"check", "compose", "send"}, DraftKept(u)
          PROVE  DraftKept(u)'
      <3>1. MyComment(u) \in Comments
        BY <2>2, RequestType DEF Inv, CallInv, AtWork, Sending
      <3>2. Fresh(page[p].at).draft[MyComment(u)] = NoText
        BY <3>1 DEF Fresh
      <3> QED
        BY <1>1, <2>2, <3>2, PageAssumption DEF Inv, TypeOK, DraftKept, MyPage, MyComment, MyText
    <2> QED
      BY <1>1, <2>1, <2>2 DEF Inv, CallInv, CallOK, PassedGates, SendsForReal, StillUnrecorded,
         MyComment, MyText, Pair
  <1>7. RepliedOnce' /\ PostedIsRecorded'
    BY <1>1 DEF Inv, RepliedOnce, PostedIsRecorded, Pair, MyComment, MyText
  <1> QED
    BY <1>4, <1>5, <1>6, <1>7 DEF Inv, CallInv

LEMMA InvStep ==
  ASSUME PagesAreOwn, Inv, [Next]_vars
  PROVE  Inv'
  <1>1. ASSUME NEW s \in Senders, NEW q \in Requests, Call(s, q)
        PROVE  Inv'
    BY <1>1, CallStep
  <1>2. ASSUME NEW s \in Senders, ReplyStep(s)
        PROVE  Inv'
    BY <1>2, OpenStep, ClickReplyStep, LookingStep, FillStep, ClickStep, RecordClickStep, VerifyStep
       DEF ReplyStep
  <1>3. ASSUME NEW s \in Senders, Take(s) \/ Crash(s)
        PROVE  Inv'
    BY <1>3, LeaveStep
  <1>4. ASSUME NEW p \in Pages, Rerender(p)
        PROVE  Inv'
    BY <1>4, RerenderStep
  <1>5. CASE UNCHANGED vars
    BY <1>5 DEF vars, Inv, TypeOK, CallInv, CallOK, PassedGates, SendsForReal, AtComment, DraftKept,
       StillUnrecorded, FocusInv, RepliedOnce, PostedIsRecorded, MyPage, MyComment, MyText, Pair
  <1> QED
    BY <1>1, <1>2, <1>3, <1>4, <1>5 DEF Next

-----------------------------------------------------------------------------
(* The theorems.                                                           *)

LEMMA InvHolds ==
  ASSUME PagesAreOwn
  PROVE  Spec => []Inv
  BY InvInit, InvStep, PTL DEF Spec

\* The history file and Facebook tell the same story, whatever calls overlap, crash
\* or are repeated: reply_to_comment replies to a comment with a text once, and the
\* line that keeps a second reply away is there as soon as anybody could send one.
THEOREM HistoryAlwaysProtects ==
  ASSUME PagesAreOwn
  PROVE  Spec => []HistoryProtects
  <1>1. Inv => HistoryProtects
    BY DEF Inv, HistoryProtects
  <1> QED
    BY <1>1, InvHolds, PTL

\* What a click posts is the text that was asked for, under the comment it was asked
\* for, with both confirmations and the policy's leave: no draft of a dead call, no
\* mention and no page rendered anew gets between the check and the click.
THEOREM OnlyAskedIsPosted ==
  ASSUME PagesAreOwn
  PROVE  Spec => PostsWhatWasAsked
  <1> DEFINE AskedPost(c, t) ==
        \E s \in Senders :
          /\ pc[s] = "send" /\ Pair(s) = <<c, t>>
          /\ req[s].confirm /\ req[s].yes /\ req[s].allowed /\ ~req[s].preview
  <1>1. ASSUME Inv, Next, NEW c \in Comments, NEW t \in Texts, posted'[c][t] # posted[c][t]
        PROVE  AskedPost(c, t)
    <2>1. PICK s \in Senders : Click(s)
      BY <1>1 DEF Next, ReplyStep, Call, Open, ClickReply, Preview, RefuseDraft, FillInput,
         Preflight, Compose, Raise, RecordClick, Verify, Take, Crash, Rerender, quiet
    <2>2. pc[s] = "send" /\ Deliver(s)
      BY <1>1, <2>1 DEF Click
    <2>3. CallOK(s) /\ MyComment(s) \in Comments /\ MyText(s) \in Texts
      BY <1>1, <2>2, RequestType DEF Inv, CallInv, AtWork, Preparing
    <2>4. Pair(s) = <<c, t>>
      <3>1. posted' = [posted EXCEPT ![MyComment(s)][MyText(s)] = @ + 1]
        BY <1>1, <2>2, DeliverPostsOwn
      <3>2. c = MyComment(s) /\ t = MyText(s)
        BY <1>1, <2>3, <3>1 DEF Inv, TypeOK
      <3> QED
        BY <3>2 DEF Pair
    <2>5. req[s].confirm /\ req[s].yes /\ req[s].allowed /\ ~req[s].preview
      BY <2>2, <2>3 DEF CallOK, AtWork, Preparing, Sending, PassedGates, SendsForReal, DryRun
    <2> QED
      BY <2>2, <2>4, <2>5
  <1>2. Inv /\ [Next]_vars
        => [\A c \in Comments, t \in Texts : posted'[c][t] # posted[c][t] => AskedPost(c, t)]_vars
    BY <1>1
  <1> QED
    BY <1>2, InvHolds, PTL DEF Spec, PostsWhatWasAsked

-----------------------------------------------------------------------------
(* Batches: the sources a plan allows, and the leads it selects.           *)

LEMMA LeastOf ==
  ASSUME NEW S \in SUBSET Nat, S # {}
  PROVE  \E n \in S : \A m \in S : n <= m
  <1>1. PICK n \in S : \A m \in S : ~(<<m, n>> \in OpToRel(<, Nat))
    BY NatLessThanWellFounded, WFMin, Zenon
  <1>2. \A m \in S : ~(m < n)
    BY <1>1, Zenon DEF OpToRel
  <1> QED
    BY <1>2

\* The first name that is found is one of those that were looked for.
LEMMA FirstPlaceFound ==
  ASSUME NEW places \in SUBSET (Nat \X Nat), places # {}
  PROVE  FirstPlace(places) \in places
  <1>1. PICK m \in {p[1] : p \in places} : \A n \in {p[1] : p \in places} : m <= n
    <2>1. {p[1] : p \in places} \in SUBSET Nat /\ {p[1] : p \in places} # {}
      OBVIOUS
    <2> QED
      BY <2>1, LeastOf
  <1> DEFINE part == {p \in places : p[1] = m}
  <1>2. PICK k \in {p[2] : p \in part} : \A n \in {p[2] : p \in part} : k <= n
    <2>1. {p[2] : p \in part} \in SUBSET Nat /\ {p[2] : p \in part} # {}
      BY <1>1
    <2> QED
      BY <2>1, LeastOf
  <1>3. PICK p \in places : p[1] = m /\ p[2] = k
    BY <1>2
  <1>4. ASSUME NEW q \in places
        PROVE  p[1] < q[1] \/ (p[1] = q[1] /\ p[2] <= q[2])
    <2>1. m <= q[1]
      BY <1>1
    <2>2. q[1] = m => k <= q[2]
      BY <1>2
    <2>3. p[1] \in Nat /\ q[1] \in Nat
      OBVIOUS
    <2> QED
      BY <1>3, <2>1, <2>2, <2>3
  <1> QED
    BY <1>4 DEF FirstPlace

LEMMA FirstTitleFound ==
  ASSUME NEW titles \in SUBSET Nat, titles # {}
  PROVE  FirstTitle(titles) \in titles
  BY LeastOf DEF FirstTitle

\* The author of a content is a name its page shows.
LEMMA AuthorIsShown ==
  ASSUME NEW c \in Content, ContentAuthor(c) # Unknown
  PROVE  ContentAuthor(c) \in ShownNames(c)
  <1>1. CASE LinkAuthors(c) # {}
    <2>1. LinkAuthors(c) \in SUBSET (Nat \X Nat)
      BY LinkLimitAssumption DEF LinkAuthors, NamedLinks, Places, RootLimit
    <2>2. PICK p : p = FirstPlace(LinkAuthors(c)) /\ p \in LinkAuthors(c)
      BY <1>1, <2>1, FirstPlaceFound
    <2>3. /\ p[1] \in DOMAIN Roots(c) /\ p[2] \in DOMAIN Roots(c)[p[1]]
          /\ IsNamed(LinkAt(c, p))
      BY <2>2 DEF LinkAuthors, NamedLinks, Places
    <2>4. Roots(c)[p[1]] \in ToSet(c.roots) \cup {c.body}
      BY <2>3 DEF Roots, ToSet
    <2>5. LinkAt(c, p) \in ToSet(Roots(c)[p[1]])
      BY <2>3 DEF LinkAt, ToSet
    <2>6. LinkAt(c, p) \in UNION {ToSet(part) : part \in ToSet(c.roots) \cup {c.body}}
      BY <2>4, <2>5
    <2>7. ContentAuthor(c) = LinkAt(c, p).label
      BY <1>1, <2>2 DEF ContentAuthor
    <2> QED
      BY <2>3, <2>6, <2>7 DEF ShownNames, IsNamed
  <1>2. CASE LinkAuthors(c) = {}
    <2>1. TitleAuthors(c) # {} /\ ContentAuthor(c) = c.titles[FirstTitle(TitleAuthors(c))].name
      BY <1>2 DEF ContentAuthor
    <2>2. TitleAuthors(c) \in SUBSET Nat
      BY DEF TitleAuthors, Content
    <2>3. PICK k \in TitleAuthors(c) : ContentAuthor(c) = c.titles[k].name
      BY <2>1, <2>2, FirstTitleFound
    <2>4. c.titles[k] \in ToSet(c.titles) /\ c.titles[k].form # "other"
      BY DEF TitleAuthors, ToSet
    <2> QED
      BY <2>3, <2>4 DEF ShownNames
  <1> QED  BY <1>1, <1>2

\* evaluate_source_policy allows no more than the policy covers.
LEMMA AllowedIsCovered ==
  ASSUME NEW policy \in TargetPolicy, NEW c \in Content, ReplyAllowed(policy, SourceOf(c))
  PROVE  Covered(policy, c)
  <1>1. policy.kind \in {"owned_only", "allowlist"} /\ policy.owned \subseteq Ids
        /\ policy.urls \subseteq Seq(Segments) /\ c.url \in Seq(Segments)
    BY DEF ReplyAllowed, TargetPolicy, PolicyKinds, Content
  <1>2. CASE policy.kind = "allowlist"
    <2>1. UrlAllowed(policy, c.url)
      BY <1>2 DEF ReplyAllowed, SourceOf
    <2>2. PICK allowed \in policy.urls : IsPrefix(allowed, c.url)
      BY <2>1 DEF UrlAllowed
    <2>3. allowed \in Seq(Segments)
      BY <1>1
    <2>4. Len(allowed) \in 0..Len(c.url) /\ SubSeq(c.url, 1, Len(allowed)) = allowed
      BY <1>1, <2>2, <2>3 DEF IsPrefix
    <2> QED
      BY <1>2, <2>4 DEF Covered
  <1>3. CASE policy.kind = "owned_only"
    <2>1. PICK name \in {SourceOf(c).id, SourceOf(c).name} : name \in policy.owned
      BY <1>3 DEF ReplyAllowed, Owned
    <2>2. name # Unknown
      BY <1>1, <2>1, LabelAssumption
    <2>3. name = ContentAuthor(c) \/ name = OwnerInUrl(c)
      BY DEF SourceOf
    <2>4. name = OwnerInUrl(c) => name \in ShownNames(c)
      <3>1. OwnerInUrl(c) # Unknown => OwnerInUrl(c) = c.key \/ (c.url # <<>> /\ OwnerInUrl(c) = c.url[1])
        BY DEF OwnerInUrl
      <3>2. c.url # <<>> => 1 \in DOMAIN c.url
        BY <1>1
      <3> QED
        BY <2>2, <3>1, <3>2 DEF ShownNames
    <2>5. name \in ShownNames(c)
      BY <2>2, <2>3, <2>4, AuthorIsShown
    <2> QED
      BY <1>3, <2>1, <2>5 DEF Covered
  <1> QED  BY <1>1, <1>2, <1>3

\* Among finitely many leads there is one of every rank.
LEMMA RankExists ==
  ASSUME NEW leads, NEW last \in Nat, leads \subseteq 1..last, NEW n \in 1..Cardinality(leads)
  PROVE  \E i \in leads : Rank(i, leads) = n
  <1> DEFINE UpTo(m) == {j \in leads : j <= m}
  <1>0. \A j \in leads : j \in Nat /\ 1 <= j /\ j <= last
    OBVIOUS
  <1>1. IsFiniteSet(leads) /\ Cardinality(leads) \in Nat
    <2>1. IsFiniteSet(1..last)
      BY FS_Interval
    <2> QED
      BY <2>1, FS_Subset, FS_CardinalityType
  <1>2. \A m \in 0..last : IsFiniteSet(UpTo(m)) /\ Cardinality(UpTo(m)) \in Nat
    <2> SUFFICES ASSUME NEW m \in 0..last PROVE IsFiniteSet(UpTo(m)) /\ Cardinality(UpTo(m)) \in Nat
      OBVIOUS
    <2>1. UpTo(m) \in SUBSET leads
      OBVIOUS
    <2> HIDE DEF UpTo
    <2> QED
      BY <1>1, <2>1, FS_Subset, FS_CardinalityType
  <1> DEFINE enough == {m \in 0..last : Cardinality(UpTo(m)) >= n}
  <1>3. UpTo(last) = leads /\ UpTo(0) = {}
    <2>1. \A j : j \in UpTo(last) <=> j \in leads
      BY <1>0
    <2>2. \A j : j \notin UpTo(0)
      <3>1. \A j \in leads : ~(j <= 0)
        BY <1>0
      <3> QED
        BY <3>1
    <2> HIDE DEF UpTo
    <2> QED
      BY <2>1, <2>2
  <1>4. PICK m \in enough : \A k \in enough : m <= k
    <2>1. last \in enough
      BY <1>1, <1>3
    <2>2. enough \in SUBSET Nat
      OBVIOUS
    <2> HIDE DEF enough
    <2> QED
      BY <2>1, <2>2, LeastOf
  <1>5. m # 0
    <2>1. Cardinality(UpTo(0)) = 0
      BY <1>3, FS_EmptySet
    <2> QED
      BY <1>4, <2>1
  <1>6. m - 1 \in 0..last /\ Cardinality(UpTo(m - 1)) < n
    <2>1. m \in Nat /\ m - 1 \in 0..last
      BY <1>4, <1>5
    <2>2. m - 1 \notin enough
      <3>1. \A k \in enough : m <= k
        BY <1>4
      <3>2. ~(m <= m - 1)
        BY <2>1
      <3> HIDE DEF enough
      <3> QED
        BY <3>1, <3>2
    <2>3. Cardinality(UpTo(m - 1)) \in Nat
      BY <1>2, <2>1
    <2> HIDE DEF UpTo
    <2> QED
      BY <2>1, <2>2, <2>3
  <1>7. m \in leads
    <2>1. \A j \in leads : j # m => (j <= m <=> j <= m - 1)
      BY <1>0, <1>4
    <2>2. m \notin leads => \A j : j \in UpTo(m) <=> j \in UpTo(m - 1)
      BY <2>1
    <2>3. m \notin leads => UpTo(m) = UpTo(m - 1)
      <3> HIDE DEF UpTo
      <3> QED
        BY <2>2
    <2> HIDE DEF UpTo
    <2> QED
      BY <1>2, <1>4, <1>6, <2>3
  <1>8. UpTo(m) = UpTo(m - 1) \cup {m} /\ m \notin UpTo(m - 1)
    <2>1. \A j \in leads : (j <= m <=> j <= m - 1 \/ j = m) /\ ~(m <= m - 1)
      BY <1>0, <1>4
    <2>2. /\ \A j : j \in UpTo(m) <=> j \in UpTo(m - 1) \/ j = m
          /\ m \notin UpTo(m - 1)
      BY <1>0, <1>7, <2>1
    <2> HIDE DEF UpTo
    <2> QED
      BY <2>2
  <1>9. Cardinality(UpTo(m)) = Cardinality(UpTo(m - 1)) + 1
    <2> HIDE DEF UpTo
    <2> QED
      BY <1>2, <1>6, <1>8, FS_AddElement
  <1>10. Cardinality(UpTo(m)) = n
    <2> HIDE DEF UpTo
    <2> QED
      BY <1>2, <1>4, <1>6, <1>9
  <1> QED
    BY <1>7, <1>10 DEF Rank

-----------------------------------------------------------------------------
(* Batches: the inductive invariant.                                       *)

\* Batches are run one after the other, by an operator at the command line.
OneAtATime == \E b : Senders = {b}

BatchTypes ==
  /\ review \in [DOMAIN Leads -> Reviews]
  /\ plan \in [Reports -> {<< >>} \cup [DOMAIN Leads -> Item]]
  /\ batch \in [Senders -> Batch]
  /\ batches \in 0..MaxBatches

ResultOK(s) ==
  /\ pc[s] # "done" => result[s] = NoResult
  /\ result[s].verified <=> result[s].status = "verified"

\* A batch that waits has made the call for the first of what it has to do, which its
\* plan allows; who has no batch has no call either.
HandOK(b) ==
  /\ batch[b].phase = "idle" => batch[b] = NoBatch
  /\ batch[b].phase = "waiting" <=> pc[b] # "idle"
  /\ batch[b].phase = "waiting" =>
       /\ batch[b].todo # << >> /\ Allowed[Head(batch[b].todo)]
       /\ req[b] = RequestFor(Head(batch[b].todo), batch[b].mode)
       /\ result[b].verified => batch[b].mode = "execute"

\* Whatever was posted, the plan of some report allowed its lead.
PostedWasAllowed ==
  \A c \in Comments : (\E t \in Texts : posted[c][t] > 0) => \E i \in DOMAIN Leads : Leads[i].comment = c /\ Allowed[i]

HandInv ==
  /\ Inv /\ BatchTypes /\ PostedWasAllowed
  /\ \A b \in Senders : ResultOK(b) /\ HandOK(b)

\* A verified reply that its batch has not counted yet.
Pending(b) == IF result[b].verified THEN 1 ELSE 0

\* The counts of a batch and today's verified lines: what is still to be sent has room
\* in the day, and what was sent today was counted or will be, unless midnight passed.
CountOK(b) ==
  LET x     == batch[b]
      total == x.before + x.counts.verified + Pending(b)
  IN /\ x.counts.verified + x.counts.unverified <= x.attempted
     /\ x.test => x.attempted + Len(x.todo) <= AcceptanceMax
     /\ x.phase # "idle" => today = total \/ (today < total /\ faults > 0)
     /\ today + Len(x.todo) <= DailyLimit + Pending(b)
     /\ x.counts.unverified > 0 => x.phase = "finished"

\* A lead that may be written to.
Clear(i) == BlockedBy(Leads[i].comment, Leads[i].text) = "none" /\ Allowed[i]

\* What a batch that sends nothing has found out stays true: its room in the day, and
\* of a rehearsal the leads that passed, which are the first of its subset.
RehearsalOK(b) ==
  LET x == batch[b]
  IN /\ x.attempted + Len(x.todo) <= x.remaining
     /\ x.phase # "idle" /\ x.mode # "execute" => x.remaining <= Remaining
     /\ x.test => /\ x.attempted + Len(x.todo) <= Len(x.subset)
                  /\ \A k \in 1..Len(x.todo) : x.todo[k] = x.subset[x.attempted + k]
     /\ x.passed <= x.attempted
     /\ x.mode = "preflight_only" =>
          /\ x.phase = "waiting" => Clear(Head(x.todo))
          /\ x.test /\ x.passed = x.attempted => \A k \in 1..x.attempted : Clear(x.subset[k])
     /\ x.ready => Ready(x)

BatchInv == HandInv /\ \A b \in Senders : CountOK(b) /\ RehearsalOK(b)

\* A call that did not send says so.
LEMMA DoneIsUnverified ==
  ASSUME NEW status, status # "verified", NEW reason
  PROVE  Done(status, reason).verified = FALSE /\ Done(status, reason).status # "verified"
  BY DEF Done

LEMMA NoResultIsUnverified == NoResult.verified = FALSE /\ NoResult.status # "verified"
  BY DEF Done, NoResult

\* What a call's own steps do to what its batch looks at.
LEMMA ReplyStepFacts ==
  ASSUME Inv, NEW s \in Senders, ResultOK(s), ReplyStep(s)
  PROVE  /\ pc[s] \in AtWork /\ pc'[s] # "idle"
         /\ \A u \in Senders \ {s} : pc'[u] = pc[u] /\ result'[u] = result[u]
         /\ UNCHANGED <<req, calls, faults>>
         /\ ResultOK(s)'
         /\ result'[s].verified => ~DryRun(req[s]) /\ today' = today + 1
         /\ ~result'[s].verified => today' = today
         /\ DryRun(req[s]) => UNCHANGED <<history, posted>>
  <1>1. pc[s] \in AtWork /\ UNCHANGED <<req, calls, faults>>
    BY DEF ReplyStep, Open, ClickReply, Preview, RefuseDraft, FillInput, Preflight, Compose, Raise,
       Click, RecordClick, Verify, quiet, AtWork, Preparing, Sending
  <1>2. CallOK(s) /\ result[s] = NoResult
    BY <1>1 DEF Inv, CallInv, ResultOK, AtWork, Preparing, Sending
  <1>3. CASE Verify(s)
    <2>1. ~DryRun(req[s])
      BY <1>2, <1>3 DEF Verify, CallOK, Sending, SendsForReal
    <2>2. \E r : /\ pc' = [pc EXCEPT ![s] = "done"] /\ result' = [result EXCEPT ![s] = r]
                 /\ r.verified <=> r.status = "verified"
                 /\ r.verified => today' = today + 1
                 /\ ~r.verified => today' = today
      <3>1. CASE today' = today + 1 /\ Return(s, [status |-> "verified", performed |-> TRUE,
                                                 verified |-> TRUE, reason |-> "none"])
        <4>1. PICK r : r = [status |-> "verified", performed |-> TRUE, verified |-> TRUE, reason |-> "none"]
          OBVIOUS
        <4>2. r.verified /\ r.status = "verified"
          BY <4>1
        <4>3. pc' = [pc EXCEPT ![s] = "done"] /\ result' = [result EXCEPT ![s] = r]
          BY <3>1, <4>1, Zenon DEF Return
        <4> QED
          BY <3>1, <4>2, <4>3
      <3>2. CASE today' = today /\ Return(s, [status |-> "unverified", performed |-> TRUE,
                                             verified |-> FALSE, reason |-> "none"])
        <4>1. PICK r : r = [status |-> "unverified", performed |-> TRUE, verified |-> FALSE, reason |-> "none"]
          OBVIOUS
        <4> QED
          BY <3>2, <4>1 DEF Return
      <3> QED
        BY <1>3, <3>1, <3>2 DEF Verify
    <2> QED
      BY <1>1, <2>1, <2>2 DEF Inv, TypeOK, ResultOK
  <1>4. CASE ~Verify(s)
    <2>1. UNCHANGED today
      BY <1>4 DEF ReplyStep, Open, ClickReply, Preview, RefuseDraft, FillInput, Preflight, Compose,
         Raise, Click, RecordClick, quiet
    <2>2. \/ \E phase \in AtWork : pc' = [pc EXCEPT ![s] = phase] /\ UNCHANGED result
          \/ \E reason : \E status \in Status \ {"verified"} :
               pc' = [pc EXCEPT ![s] = "done"] /\ result' = [result EXCEPT ![s] = Done(status, reason)]
      BY <1>4 DEF ReplyStep, Open, Locate, ClickReply, Obstructed, Preview, RefuseDraft, FillInput,
         Preflight, Compose, Raise, Click, RecordClick, Goto, Return, AtWork, Preparing, Sending, Status
    <2>3. pc'[s] # "idle" /\ ResultOK(s)' /\ ~result'[s].verified
      <3>1. ASSUME NEW phase \in AtWork, pc' = [pc EXCEPT ![s] = phase], UNCHANGED result
            PROVE  pc'[s] # "idle" /\ ResultOK(s)' /\ ~result'[s].verified
        <4>1. NoResult.verified = FALSE /\ NoResult.status # "verified"
          BY NoResultIsUnverified
        <4> QED
          BY <1>2, <3>1, <4>1 DEF Inv, TypeOK, ResultOK, AtWork, Preparing, Sending
      <3>2. ASSUME NEW r, r.verified = FALSE, r.status # "verified",
                   pc' = [pc EXCEPT ![s] = "done"], result' = [result EXCEPT ![s] = r]
            PROVE  pc'[s] # "idle" /\ ResultOK(s)' /\ ~result'[s].verified
        BY <3>2 DEF Inv, TypeOK, ResultOK
      <3> QED
        BY <2>2, <3>1, <3>2, DoneIsUnverified
    <2>4. \A u \in Senders \ {s} : pc'[u] = pc[u] /\ result'[u] = result[u]
      BY <2>2 DEF Inv, TypeOK
    <2>5. DryRun(req[s]) => UNCHANGED <<history, posted>>
      <3>1. DryRun(req[s]) => ~Click(s) /\ ~RecordClick(s)
        BY <1>2 DEF Click, RecordClick, CallOK, Sending, SendsForReal
      <3> QED
        BY <1>4, <3>1 DEF ReplyStep, Open, ClickReply, Preview, RefuseDraft, FillInput, Preflight,
           Compose, Raise, quiet
    <2> QED
      BY <1>1, <2>1, <2>3, <2>4, <2>5
  <1> QED
    BY <1>3, <1>4 DEF Verify

\* A call that is made has answered nothing yet, or refuses without having sent.
LEMMA CallFacts ==
  ASSUME Inv, NEW s \in Senders, NEW q \in Requests, ResultOK(s), Call(s, q)
  PROVE  /\ pc[s] = "idle" /\ pc'[s] # "idle" /\ req'[s] = q
         /\ \A u \in Senders \ {s} : pc'[u] = pc[u] /\ result'[u] = result[u] /\ req'[u] = req[u]
         /\ UNCHANGED <<history, today, posted, faults>>
         /\ ResultOK(s)' /\ ~result'[s].verified
  <1>1. Verdict(q) # "verified"
    BY DEF Verdict, BlockedBy
  <1>2. \/ pc' = [pc EXCEPT ![s] = "open"] /\ UNCHANGED result
        \/ \E status :
             /\ status # "verified"
             /\ pc' = [pc EXCEPT ![s] = "done"] /\ result' = [result EXCEPT ![s] = Done(status, "none")]
    BY <1>1 DEF Call, Goto, Return
  <1>3. pc[s] = "idle" /\ result[s] = NoResult /\ req' = [req EXCEPT ![s] = q]
    BY DEF Call, ResultOK
  <1>4. ResultOK(s)' /\ ~result'[s].verified
    <2>1. NoResult.verified = FALSE /\ NoResult.status # "verified"
      BY NoResultIsUnverified
    <2>2. CASE pc' = [pc EXCEPT ![s] = "open"] /\ UNCHANGED result
      BY <1>3, <2>1, <2>2 DEF ResultOK
    <2>3. ASSUME NEW r, r.verified = FALSE, r.status # "verified",
                 pc' = [pc EXCEPT ![s] = "done"], result' = [result EXCEPT ![s] = r]
          PROVE  ResultOK(s)' /\ ~result'[s].verified
      BY <2>3 DEF Inv, TypeOK, ResultOK
    <2> QED
      BY <1>2, <2>2, <2>3, DoneIsUnverified
  <1> QED
    BY <1>2, <1>3, <1>4 DEF Inv, TypeOK, Call

\* Who leaves has no call and no answer any more.
LEMMA LeaveFacts ==
  ASSUME Inv, NEW s \in Senders, Take(s) \/ Crash(s)
  PROVE  /\ pc[s] # "idle" /\ pc'[s] = "idle"
         /\ \A u \in Senders \ {s} : pc'[u] = pc[u] /\ result'[u] = result[u] /\ req'[u] = req[u]
         /\ UNCHANGED <<history, today, posted>>
         /\ ResultOK(s)' /\ ~result'[s].verified
  <1>1. NoResult.verified = FALSE /\ NoResult.status # "verified"
    BY NoResultIsUnverified
  <1>2. Leave(s) /\ pc[s] # "idle" /\ UNCHANGED <<history, today, posted>>
    BY DEF Take, Crash, Preparing
  <1> QED
    BY <1>1, <1>2 DEF Leave, Inv, TypeOK, ResultOK

LEMMA LeadFields ==
  ASSUME NEW i \in DOMAIN Leads
  PROVE  /\ Leads[i].comment \in Comments /\ Leads[i].text \in Texts
         /\ Leads[i].content \in Content /\ Leads[i].report \in Reports
  <1> DEFINE Lead == [comment : Comments, text : Texts, content : Content, report : Reports]
  <1>1. Leads \in Seq(Lead)
    BY LeadAssumption
  <1>2. Leads[i] \in Lead
    <2> HIDE DEF Lead
    <2> QED
      BY <1>1
  <1> QED
    BY <1>2

\* The leads a plan selects, in its order.
LEMMA SelectedAreLeads ==
  ASSUME NEW r \in Reports, plan[r] \in {<< >>} \cup [DOMAIN Leads -> Item]
  PROVE  SelectedItems(r) \in Seq(DOMAIN Leads)
  <1>1. DOMAIN Leads = 1..Len(Leads) /\ Len(Leads) \in Nat
    BY LeadAssumption
  <1>2. Selected(r) \in SUBSET (1..Len(Leads))
    BY <1>1 DEF Selected
  <1>3. Cardinality(Selected(r)) \in Nat
    <2>1. IsFiniteSet(1..Len(Leads))
      BY <1>1, FS_Interval
    <2> QED
      BY <1>2, <2>1, FS_Subset, FS_CardinalityType
  <1>4. \A n \in 1..Cardinality(Selected(r)) : \E i \in Selected(r) : Rank(i, Selected(r)) = n
    BY <1>1, <1>2, RankExists
  <1> DEFINE item(n) == CHOOSE i \in Selected(r) : Rank(i, Selected(r)) = n
  <1>5. \A n \in 1..Cardinality(Selected(r)) : item(n) \in DOMAIN Leads
    BY <1>1, <1>2, <1>4
  <1>6. SelectedItems(r) = [n \in 1..Cardinality(Selected(r)) |-> item(n)]
    BY DEF SelectedItems
  <1> HIDE DEF item
  <1> QED
    BY <1>3, <1>5, <1>6

\* What the counts become: those of a verified and of an unverified reply grow with it.
LEMMA CountedFacts ==
  ASSUME NEW x \in Batch, NEW r \in Result
  PROVE  /\ CountedIn(x, r) \in Counts
         /\ CountedIn(x, r).verified =
              IF r.status = "verified" /\ x.mode # "preflight_only" THEN x.counts.verified + 1
              ELSE x.counts.verified
         /\ CountedIn(x, r).unverified =
              IF r.status = "unverified" /\ x.mode # "preflight_only" THEN x.counts.unverified + 1
              ELSE x.counts.unverified
  <1>1. PICK c \in Counts : c = x.counts
    BY DEF Batch
  <1>2. /\ Counted(c, r) \in Counts
        /\ Counted(c, r).verified = IF r.status = "verified" THEN c.verified + 1 ELSE c.verified
        /\ Counted(c, r).unverified = IF r.status = "unverified" THEN c.unverified + 1 ELSE c.unverified
    BY DEF Counted, Counts
  <1>3. CountedIn(x, r) = IF x.mode = "preflight_only" /\ r.status # "duplicate" THEN c ELSE Counted(c, r)
    BY <1>1 DEF CountedIn
  <1> QED
    BY <1>1, <1>2, <1>3

\* The end of the loop gives a status and keeps the rest.
LEMMA FinishedFacts ==
  ASSUME NEW w \in Batch
  PROVE  LET v == Finished(w)
         IN  /\ v \in Batch /\ v.phase = "finished" /\ v.todo = << >>
             /\ v.mode = w.mode /\ v.test = w.test /\ v.subset = w.subset /\ v.lock = w.lock
             /\ v.remaining = w.remaining /\ v.before = w.before
             /\ v.attempted = w.attempted /\ v.counts = w.counts /\ v.passed = w.passed
             /\ v.ready = w.ready
  <1>1. PICK f \in BatchStatus : f = FinalStatus(w)
    BY DEF FinalStatus, Batch, BatchStatus
  <1>2. PICK v : v = [w EXCEPT !.phase = "finished", !.status = f, !.todo = << >>]
    OBVIOUS
  <1>3. << >> \in Seq(DOMAIN Leads)
    OBVIOUS
  <1>4. v \in Batch /\ v.phase = "finished" /\ v.todo = << >> /\ v.ready = w.ready
    BY <1>1, <1>2, <1>3 DEF Batch
  <1>5. /\ v.mode = w.mode /\ v.test = w.test /\ v.subset = w.subset /\ v.lock = w.lock
        /\ v.remaining = w.remaining /\ v.before = w.before
        /\ v.attempted = w.attempted /\ v.counts = w.counts /\ v.passed = w.passed
    BY <1>2 DEF Batch
  <1> QED
    BY <1>1, <1>2, <1>4, <1>5 DEF Finished

\* What the entry of an item leaves of the batch.
LEMMA AfterFacts ==
  ASSUME NEW x \in Batch, x.todo # << >>, NEW r \in Result
  PROVE  LET y == After(x, r)
         IN  /\ y \in Batch /\ y.phase \in {"next", "interval", "finished"}
             /\ y.mode = x.mode /\ y.test = x.test /\ y.subset = x.subset /\ y.lock = x.lock
             /\ y.remaining = x.remaining /\ y.before = x.before
             /\ y.todo \in {Tail(x.todo), << >>}
             /\ y.attempted = x.attempted + 1 /\ y.counts = CountedIn(x, r)
             /\ y.passed = IF Passes(x, r) THEN x.passed + 1 ELSE x.passed
             /\ y.ready => Ready(y)
             /\ r.status = "unverified" => y.phase = "finished"
  <1> DEFINE z == [x EXCEPT !.attempted = @ + 1, !.counts = CountedIn(x, r), !.todo = Tail(@),
                            !.passed = IF Passes(x, r) THEN @ + 1 ELSE @]
             y == [z EXCEPT !.ready = Ready(z)]
             Kept(w) ==
               /\ w \in Batch
               /\ w.mode = x.mode /\ w.test = x.test /\ w.subset = x.subset /\ w.lock = x.lock
               /\ w.remaining = x.remaining /\ w.before = x.before
               /\ w.attempted = x.attempted + 1 /\ w.counts = CountedIn(x, r)
               /\ w.passed = IF Passes(x, r) THEN x.passed + 1 ELSE x.passed
  <1>1. CountedIn(x, r) \in Counts
    BY CountedFacts
  <1>2. Tail(x.todo) \in Seq(DOMAIN Leads) /\ x.attempted + 1 \in Nat /\ x.passed + 1 \in Nat
    BY DEF Batch
  <1>3. Kept(z) /\ z.todo = Tail(x.todo)
    BY <1>1, <1>2 DEF Batch
  <1>4. Ready(z) \in BOOLEAN
    BY DEF Ready
  <1> HIDE DEF z
  <1>5. Kept(y) /\ y.todo = Tail(x.todo) /\ y.ready = Ready(z)
    BY <1>3, <1>4 DEF Batch
  <1>6. y.ready => Ready(y)
    BY <1>3, <1>5 DEF Ready
  <1> HIDE DEF y
  <1>7. ASSUME NEW w, Kept(w), w.ready => Ready(w)
        PROVE  /\ Kept(Finished(w)) /\ Finished(w).phase = "finished" /\ Finished(w).todo = << >>
               /\ Finished(w).ready => Ready(Finished(w))
    <2>1. Kept(Finished(w)) /\ Finished(w).phase = "finished" /\ Finished(w).todo = << >>
          /\ Finished(w).ready = w.ready
      BY <1>7, FinishedFacts
    <2>2. Ready(w) => Ready(Finished(w))
      BY <1>7, <2>1 DEF Ready
    <2> QED
      BY <1>7, <2>1, <2>2
  <1>8. PICK status : status = StopStatus(r)
    OBVIOUS
  <1>9. (status # "none" => status \in BatchStatus) /\ (r.status = "unverified" => status # "none")
    BY <1>8 DEF StopStatus, BatchStatus
  <1>10. PICK v : v = [y EXCEPT !.status = status]
    OBVIOUS
  <1>11. status # "none" => Kept(v) /\ v.ready = y.ready
    BY <1>5, <1>9, <1>10 DEF Batch
  <1>12. status # "none" => (v.ready => Ready(v))
    BY <1>5, <1>6, <1>11 DEF Ready
  <1>13. PICK phase \in {"next", "interval"} : phase = IF Sends(x.mode) THEN "interval" ELSE "next"
    OBVIOUS
  <1>14. PICK u : u = [y EXCEPT !.phase = phase]
    OBVIOUS
  <1>15. Kept(u) /\ u.ready = y.ready /\ u.todo = y.todo /\ u.phase = phase
    BY <1>5, <1>13, <1>14 DEF Batch
  <1>16. u.ready => Ready(u)
    BY <1>5, <1>6, <1>15 DEF Ready
  <1>17. After(x, r) = IF status # "none" THEN Finished(v) ELSE IF y.todo = << >> THEN Finished(y) ELSE u
    BY <1>8, <1>10, <1>13, <1>14 DEF After, y, z
  <1>18. CASE status # "none"
    BY <1>7, <1>11, <1>12, <1>17, <1>18
  <1>19. CASE status = "none" /\ y.todo = << >>
    <2>1. After(x, r) = Finished(y)
      BY <1>17, <1>19
    <2>2. Kept(Finished(y)) /\ Finished(y).phase = "finished" /\ Finished(y).todo = << >>
          /\ (Finished(y).ready => Ready(Finished(y)))
      BY <1>5, <1>6, <1>7
    <2> QED
      BY <2>1, <2>2
  <1>20. CASE status = "none" /\ y.todo # << >>
    BY <1>5, <1>9, <1>13, <1>15, <1>16, <1>17, <1>20
  <1> QED
    BY <1>18, <1>19, <1>20

\* An entry made without a call sent nothing.
LEMMA WithoutCallType ==
  ASSUME NEW b, NEW r \in WithoutCall(b)
  PROVE  r \in Result /\ r.verified = FALSE /\ r.status \notin {"verified", "unverified", "dry_run"}
  <1>1. \E status \in {"blocked", "duplicate", "blocked_unverified_previous_attempt"} :
          r = Done(status, "none")
    <2>1. ASSUME NEW c, NEW t, BlockedBy(c, t) # "none"
          PROVE  BlockedBy(c, t) \in {"duplicate", "blocked_unverified_previous_attempt"}
      BY <2>1 DEF BlockedBy
    <2> QED
      BY <2>1 DEF WithoutCall, NotAllowed
  <1> QED
    BY <1>1 DEF Done, Result, Status

LEMMA NoBatchFacts == NoBatch \in Batch /\ NoBatch.phase = "idle"
  <1>1. << >> \in Seq(DOMAIN Leads) /\ NoCounts \in Counts
    BY DEF NoCounts, Counts
  <1> QED
    BY <1>1 DEF NoBatch, Batch, BatchStatus, Modes

\* A batch starts with nothing done.
LEMMA LoadedFacts ==
  ASSUME HandInv, NEW r \in Reports, plan[r] # << >>, NEW mode \in Modes, NEW test \in BOOLEAN
  PROVE  LET x     == Loaded(r, mode, test)
             items == SelectedItems(r)
         IN  /\ x \in Batch /\ items \in Seq(DOMAIN Leads) /\ Remaining \in Nat
             /\ x.mode = mode /\ x.test = test /\ x.lock = UnverifiedLock(r) /\ x.ready = FALSE
             /\ x.subset = IF test THEN SubSeq(items, 1, Least(AcceptanceMax, Len(items))) ELSE << >>
             /\ x.remaining = Remaining /\ x.before = today /\ x.attempted = 0 /\ x.passed = 0
             /\ x.counts = NoCounts /\ x.todo = << >>
  <1>1. PICK items \in Seq(DOMAIN Leads) : items = SelectedItems(r)
    BY SelectedAreLeads DEF HandInv, BatchTypes
  <1>2. today \in Nat /\ Remaining \in Nat
    BY LimitAssumption DEF HandInv, Inv, TypeOK, Remaining
  <1>3. PICK rem \in Nat : rem = Remaining
    BY <1>2
  <1>4. PICK lock \in BOOLEAN : lock = UnverifiedLock(r)
    BY DEF UnverifiedLock
  <1>5. Least(AcceptanceMax, Len(items)) \in Nat /\ Least(AcceptanceMax, Len(items)) <= Len(items)
    BY LimitAssumption DEF Least
  <1>6. PICK subset \in Seq(DOMAIN Leads) :
          subset = IF test THEN SubSeq(items, 1, Least(AcceptanceMax, Len(items))) ELSE << >>
    <2>1. SubSeq(items, 1, Least(AcceptanceMax, Len(items))) \in Seq(DOMAIN Leads)
      BY <1>5
    <2>2. << >> \in Seq(DOMAIN Leads)
      OBVIOUS
    <2>3. CASE test
      BY <2>1, <2>3
    <2>4. CASE ~test
      BY <2>2, <2>4
    <2> QED
      BY <2>3, <2>4
  <1>7. PICK n \in Batch : n = NoBatch
    BY NoBatchFacts
  <1>8. n.attempted = 0 /\ n.passed = 0 /\ n.counts = NoCounts /\ n.todo = << >> /\ n.ready = FALSE
    BY <1>7 DEF NoBatch
  <1>9. PICK x : x = [n EXCEPT !.mode = mode, !.test = test, !.subset = subset, !.lock = lock,
                               !.selected = Len(items), !.remaining = rem, !.before = today]
    OBVIOUS
  <1>10. Loaded(r, mode, test) = x
    BY <1>1, <1>3, <1>4, <1>6, <1>7, <1>9 DEF Loaded
  <1>11. /\ x \in Batch
         /\ x.mode = mode /\ x.test = test /\ x.lock = lock /\ x.subset = subset
         /\ x.remaining = rem /\ x.before = today
    <2>1. PICK len \in Nat : len = Len(items)
      BY <1>1
    <2> QED
      BY <1>2, <1>9, <2>1 DEF Batch
  <1>12. /\ x.attempted = 0 /\ x.passed = 0 /\ x.counts = NoCounts /\ x.todo = << >> /\ x.ready = FALSE
    BY <1>8, <1>9 DEF Batch
  <1> QED
    BY <1>1, <1>2, <1>3, <1>4, <1>6, <1>10, <1>11, <1>12

\* What the others hold is theirs.
LEMMA HandFrame ==
  ASSUME HandInv, NEW b \in Senders, Inv', BatchTypes', PostedWasAllowed', ResultOK(b)', HandOK(b)',
         \A u \in Senders \ {b} : /\ batch'[u] = batch[u] /\ pc'[u] = pc[u]
                                  /\ req'[u] = req[u] /\ result'[u] = result[u]
  PROVE  HandInv'
  <1>1. ASSUME NEW u \in Senders, u # b
        PROVE  ResultOK(u)' /\ HandOK(u)'
    BY <1>1 DEF HandInv, ResultOK, HandOK
  <1> QED
    BY <1>1 DEF HandInv

\* A batch that goes on between two calls.
LEMMA BetweenCalls ==
  ASSUME HandInv, PagesAreOwn, NEW b \in Senders, NEW y \in Batch, batch' = [batch EXCEPT ![b] = y],
         UNCHANGED <<vars, review, plan>>, batches' \in 0..MaxBatches,
         batch[b].phase # "waiting", y.phase # "waiting", y.phase = "idle" => y = NoBatch
  PROVE  HandInv'
  <1>1. Inv'
    BY InvStep DEF HandInv
  <1>2. BatchTypes'
    BY DEF HandInv, BatchTypes
  <1>3. PostedWasAllowed' /\ ResultOK(b)'
    BY DEF HandInv, PostedWasAllowed, ResultOK, vars
  <1>4. batch'[b] = y /\ \A u \in Senders \ {b} : batch'[u] = batch[u]
    BY DEF HandInv, BatchTypes
  <1>5. HandOK(b)'
    BY <1>4 DEF HandInv, HandOK, vars
  <1> QED
    BY <1>1, <1>2, <1>3, <1>4, <1>5, HandFrame DEF vars

\* Reviewing and planning change the reports and the plans, and no batch.
LEMMA PlanningStep ==
  ASSUME HandInv, PagesAreOwn, NEW b \in Senders, NEW r \in Reports, ReviewMissing(b, r) \/ BuildPlan(b, r)
  PROVE  HandInv'
  <1>1. Inv'
    BY InvStep DEF HandInv, ReviewMissing, BuildPlan
  <1>2. batches' \in 0..MaxBatches
    BY LimitAssumption DEF HandInv, BatchTypes, ReviewMissing, BuildPlan
  <1>3. review' \in [DOMAIN Leads -> Reviews]
    <2> SUFFICES ASSUME ReviewMissing(b, r) PROVE review' \in [DOMAIN Leads -> Reviews]
      BY DEF HandInv, BatchTypes, BuildPlan
    <2> DEFINE asked == {i \in LeadsOf(r) : review[i] \in {"missing", "fallback"}
                                             /\ ~Replied(Leads[i].comment)}
    <2>1. PICK answer \in [asked -> {"fallback", "reply", "no_reply"}] :
            review' = [i \in DOMAIN Leads |-> IF i \in asked THEN answer[i] ELSE review[i]]
      BY DEF ReviewMissing
    <2> HIDE DEF asked
    <2> QED
      BY <2>1 DEF HandInv, BatchTypes, Reviews
  <1>4. plan' \in [Reports -> {<< >>} \cup [DOMAIN Leads -> Item]]
    <2>1. CASE ReviewMissing(b, r)
      BY <2>1 DEF HandInv, BatchTypes, ReviewMissing
    <2>2. CASE BuildPlan(b, r)
      <3> DEFINE eligible == {i \in LeadsOf(r) : BlockingReasons(i) = {}}
                 item(i)  == [blocked  |-> BlockingReasons(i),
                              selected |-> i \in eligible /\ Rank(i, eligible) <= Least(BatchMax, Remaining)]
      <3>1. ASSUME NEW i \in DOMAIN Leads
            PROVE  item(i) \in Item
        <4>1. BlockingReasons(i) \in SUBSET {"review", "unverified_previous_attempt", "duplicate_history",
                                             "source_not_allowed"}
          BY DEF BlockingReasons
        <4>2. (i \in eligible /\ Rank(i, eligible) <= Least(BatchMax, Remaining)) \in BOOLEAN
          OBVIOUS
        <4> QED
          BY <4>1, <4>2 DEF Item
      <3>2. plan' = [plan EXCEPT ![r] = [i \in DOMAIN Leads |-> item(i)]]
        BY <2>2 DEF BuildPlan
      <3> HIDE DEF item
      <3> QED
        BY <3>1, <3>2 DEF HandInv, BatchTypes
    <2> QED
      BY <2>1, <2>2
  <1>5. UNCHANGED <<vars, batch>>
    BY DEF ReviewMissing, BuildPlan
  <1> QED
    BY <1>1, <1>2, <1>3, <1>4, <1>5 DEF HandInv, BatchTypes, PostedWasAllowed, ResultOK, HandOK, vars

\* What a batch starts with: at most the attempts that its plan, its mode and the day allow.
LEMMA AttemptsBound ==
  ASSUME HandInv, NEW r \in Reports, NEW test \in BOOLEAN
  PROVE  LET n == AttemptsAllowed(r, test)
         IN  /\ n \in Nat /\ n <= Len(SelectedItems(r)) /\ n <= Remaining
             /\ test => n <= AcceptanceMax
  <1>1. PICK items \in Seq(DOMAIN Leads) : items = SelectedItems(r)
    BY SelectedAreLeads DEF HandInv, BatchTypes
  <1>2. PICK rem \in Nat : rem = Remaining
    <2>1. today \in Nat /\ DailyLimit \in Nat
      BY LimitAssumption DEF HandInv, Inv, TypeOK
    <2>2. Remaining \in Nat
      BY <2>1 DEF Remaining
    <2> QED
      BY <2>2
  <1>3. PICK limit \in Nat : limit = ModeLimit(test) /\ (test => limit = AcceptanceMax)
    BY LimitAssumption DEF ModeLimit
  <1>4. PICK len \in Nat : len = Len(items)
    BY <1>1
  <1>5. AttemptsAllowed(r, test) = Least(Least(len, limit), rem)
    BY <1>1, <1>2, <1>3, <1>4 DEF AttemptsAllowed
  <1> QED
    BY <1>1, <1>2, <1>3, <1>4, <1>5 DEF Least

\* What a batch has at its start.
Given(y, r, mode, test) ==
  /\ y.phase \in {"next", "finished"}
  /\ y.todo \in {<< >>, SubSeq(SelectedItems(r), 1, AttemptsAllowed(r, test))}
  /\ y.mode = mode /\ y.test = test /\ y.ready = FALSE
  /\ y.subset = IF test THEN SubSeq(SelectedItems(r), 1, Least(AcceptanceMax, Len(SelectedItems(r))))
                ELSE << >>
  /\ y.remaining = Remaining /\ y.before = today
  /\ y.attempted = 0 /\ y.passed = 0 /\ y.counts = NoCounts

LEMMA StartFacts ==
  ASSUME HandInv, NEW b \in Senders, NEW r \in Reports, NEW mode \in Modes, NEW test \in BOOLEAN,
         StartBatch(b, r, mode, test) \/ RefuseBatch(b, r, mode, test)
  PROVE  \E y \in Batch : batch' = [batch EXCEPT ![b] = y] /\ Given(y, r, mode, test)
  <1>1. plan[r] # << >>
    BY DEF StartBatch, RefuseBatch, Free
  <1>2. PICK x \in Batch : x = Loaded(r, mode, test)
    BY <1>1, LoadedFacts
  <1>3. PICK items \in Seq(DOMAIN Leads) : items = SelectedItems(r)
    BY SelectedAreLeads DEF HandInv, BatchTypes
  <1> DEFINE Kept(y) ==
        /\ y.mode = mode /\ y.test = test /\ y.ready = FALSE
        /\ y.subset = IF test THEN SubSeq(items, 1, Least(AcceptanceMax, Len(items))) ELSE << >>
        /\ y.remaining = Remaining /\ y.before = today
        /\ y.attempted = 0 /\ y.passed = 0 /\ y.counts = NoCounts
  <1>4. Kept(x) /\ x.todo = << >>
    BY <1>1, <1>2, <1>3, LoadedFacts
  <1>5. CASE RefuseBatch(b, r, mode, test)
    <2>1. PICK status \in BatchStatus : status = IF mode = "execute" THEN "cancelled" ELSE "blocked"
      BY DEF BatchStatus
    <2>2. PICK y : y = [x EXCEPT !.phase = "finished", !.status = status]
      OBVIOUS
    <2>3. batch' = [batch EXCEPT ![b] = y]
      BY <1>2, <1>5, <2>1, <2>2 DEF RefuseBatch
    <2>4. y \in Batch /\ y.phase = "finished" /\ y.todo = << >>
      BY <1>4, <2>1, <2>2 DEF Batch
    <2>5. Kept(y)
      BY <1>4, <2>2 DEF Batch
    <2> QED
      BY <1>3, <2>3, <2>4, <2>5 DEF Given
  <1>6. CASE StartBatch(b, r, mode, test)
    <2>1. PICK status \in BatchStatus : status = IF Remaining = 0 THEN "daily_limit_reached"
                                                  ELSE IF mode = "execute" THEN "completed" ELSE mode
      BY DEF BatchStatus
    <2>2. PICK phase \in {"next", "finished"} : phase = IF Remaining = 0 THEN "finished" ELSE "next"
      OBVIOUS
    <2>3. PICK todo \in Seq(DOMAIN Leads) : todo = SubSeq(items, 1, AttemptsAllowed(r, test))
      <3>1. PICK n \in Nat : n = AttemptsAllowed(r, test) /\ n <= Len(items)
        BY <1>3, AttemptsBound
      <3>2. SubSeq(items, 1, n) \in Seq(DOMAIN Leads)
        BY <3>1
      <3> QED
        BY <3>1, <3>2
    <2>4. PICK y : y = [x EXCEPT !.phase = phase, !.todo = todo, !.status = status]
      OBVIOUS
    <2>5. batch' = [batch EXCEPT ![b] = y]
      BY <1>2, <1>3, <1>6, <2>1, <2>2, <2>3, <2>4 DEF StartBatch
    <2>6. y \in Batch /\ y.phase = phase /\ y.todo = todo
      BY <2>1, <2>2, <2>3, <2>4 DEF Batch
    <2>7. Kept(y)
      BY <1>4, <2>4 DEF Batch
    <2> QED
      BY <1>3, <2>2, <2>3, <2>5, <2>6, <2>7 DEF Given
  <1> QED
    BY <1>5, <1>6

LEMMA StartStep ==
  ASSUME HandInv, PagesAreOwn, NEW b \in Senders, NEW r \in Reports, NEW mode \in Modes, NEW test \in BOOLEAN,
         StartBatch(b, r, mode, test) \/ RefuseBatch(b, r, mode, test)
  PROVE  HandInv'
  <1>1. PICK y \in Batch : batch' = [batch EXCEPT ![b] = y] /\ y.phase \in {"next", "finished"}
    <2>1. PICK y \in Batch : batch' = [batch EXCEPT ![b] = y] /\ Given(y, r, mode, test)
      BY StartFacts
    <2> QED
      BY <2>1 DEF Given
  <1>2. batch[b].phase = "idle" /\ UNCHANGED <<vars, review, plan>> /\ batches' \in 0..MaxBatches
    BY LimitAssumption DEF HandInv, BatchTypes, StartBatch, RefuseBatch, Free
  <1> QED
    BY <1>1, <1>2, BetweenCalls

\* An entry without a call, the end of the loop, of the interval or of the process.
LEMMA OnStep ==
  ASSUME HandInv, PagesAreOwn, NEW b \in Senders,
         \/ NothingSelected(b) \/ IntervalOver(b) \/ EndBatch(b)
         \/ NextItem(b) /\ WithoutCall(b) # {}
  PROVE  HandInv'
  <1>1. batch \in [Senders -> Batch] /\ batch[b].phase # "waiting"
    BY DEF HandInv, BatchTypes, NothingSelected, IntervalOver, EndBatch, NextItem
  <1>2. UNCHANGED <<vars, review, plan, batches>> /\ batches' \in 0..MaxBatches
    BY DEF NothingSelected, IntervalOver, EndBatch, NextItem, HandInv, BatchTypes
  <1>3. \E y \in Batch : /\ batch' = [batch EXCEPT ![b] = y]
                         /\ y.phase # "waiting" /\ (y.phase = "idle" => y = NoBatch)
    <2>1. CASE NothingSelected(b)
      <3>1. Finished(batch[b]) \in Batch /\ Finished(batch[b]).phase = "finished"
        BY <1>1, FinishedFacts
      <3> QED
        BY <2>1, <3>1 DEF NothingSelected
    <2>2. CASE IntervalOver(b)
      <3>1. PICK y : y = [batch[b] EXCEPT !.phase = "next"]
        OBVIOUS
      <3>2. y \in Batch /\ y.phase = "next"
        BY <1>1, <3>1 DEF Batch
      <3> QED
        BY <1>1, <2>2, <3>1, <3>2 DEF IntervalOver
    <2>3. CASE EndBatch(b)
      BY <2>3, NoBatchFacts DEF EndBatch
    <2>4. CASE NextItem(b) /\ WithoutCall(b) # {}
      <3>1. PICK r \in WithoutCall(b) : batch' = [batch EXCEPT ![b] = After(batch[b], r)]
        BY <2>4 DEF NextItem
      <3>2. r \in Result
        BY <3>1, WithoutCallType
      <3>3. After(batch[b], r) \in Batch /\ After(batch[b], r).phase \in {"next", "interval", "finished"}
        BY <1>1, <2>4, <3>2, AfterFacts DEF NextItem
      <3> QED
        BY <3>1, <3>3
    <2> QED
      BY <2>1, <2>2, <2>3, <2>4
  <1> QED
    BY <1>1, <1>2, <1>3, BetweenCalls

\* A call is made only for a lead that is allowed.
LEMMA NextCallStep ==
  ASSUME HandInv, PagesAreOwn, NEW b \in Senders, NextItem(b), WithoutCall(b) = {}
  PROVE  HandInv'
  <1> DEFINE i == Head(batch[b].todo)
             q == RequestFor(i, batch[b].mode)
  <1>1. /\ batch[b] \in Batch /\ batch \in [Senders -> Batch] /\ batch[b].phase = "next"
        /\ batch[b].todo # << >> /\ i \in DOMAIN Leads
    BY DEF HandInv, BatchTypes, NextItem, Batch
  <1>2. Call(b, q) /\ batch' = [batch EXCEPT ![b].phase = "waiting"] /\ UNCHANGED <<review, plan, batches>>
    BY DEF NextItem
  <1>3. q \in Requests
    BY <1>1, CallAssumption DEF Batch
  <1>4. Allowed[i]
    BY DEF WithoutCall
  <1> HIDE DEF q, i
  <1>5. Inv'
    BY <1>2, <1>3, InvStep DEF HandInv, Next
  <1>6. PICK y : y = [batch[b] EXCEPT !.phase = "waiting"]
    OBVIOUS
  <1>7. y \in Batch /\ y.phase = "waiting" /\ y.todo = batch[b].todo /\ y.mode = batch[b].mode
    BY <1>1, <1>6 DEF Batch
  <1>8. batch' = [batch EXCEPT ![b] = y]
    BY <1>1, <1>2, <1>6
  <1>9. BatchTypes'
    BY <1>1, <1>2, <1>7, <1>8 DEF HandInv, BatchTypes
  <1>10. PostedWasAllowed'
    BY <1>2 DEF HandInv, PostedWasAllowed, Call
  <1>11. /\ pc'[b] # "idle" /\ req'[b] = q /\ ResultOK(b)' /\ ~result'[b].verified
         /\ \A u \in Senders \ {b} : pc'[u] = pc[u] /\ result'[u] = result[u] /\ req'[u] = req[u]
    BY <1>2, <1>3, CallFacts DEF HandInv
  <1>12. batch'[b] = y /\ \A u \in Senders \ {b} : batch'[u] = batch[u]
    BY <1>1, <1>8
  <1>13. HandOK(b)'
    BY <1>1, <1>4, <1>7, <1>11, <1>12 DEF HandOK, q, i
  <1> QED
    BY <1>5, <1>9, <1>10, <1>11, <1>12, <1>13, HandFrame

\* Who takes an answer, or dies within a call, has none any more.
LEMMA CallEndsStep ==
  ASSUME HandInv, PagesAreOwn, NEW b \in Senders, Take(b) \/ Crash(b), NEW y \in Batch,
         batch' = [batch EXCEPT ![b] = y], UNCHANGED <<review, plan, batches>>,
         y.phase # "waiting", y.phase = "idle" => y = NoBatch
  PROVE  HandInv'
  <1>1. Inv'
    BY InvStep DEF HandInv, Next
  <1>2. BatchTypes'
    BY DEF HandInv, BatchTypes
  <1>3. /\ pc'[b] = "idle" /\ ResultOK(b)'
        /\ \A u \in Senders \ {b} : pc'[u] = pc[u] /\ result'[u] = result[u] /\ req'[u] = req[u]
        /\ UNCHANGED posted
    BY LeaveFacts DEF HandInv
  <1>4. batch'[b] = y /\ \A u \in Senders \ {b} : batch'[u] = batch[u]
    BY DEF HandInv, BatchTypes
  <1>5. HandOK(b)'
    BY <1>3, <1>4 DEF HandOK
  <1>6. PostedWasAllowed'
    BY <1>3 DEF HandInv, PostedWasAllowed
  <1> QED
    BY <1>1, <1>2, <1>3, <1>4, <1>5, <1>6, HandFrame

LEMMA ReturnsStep ==
  ASSUME HandInv, PagesAreOwn, NEW b \in Senders, CallReturns(b)
  PROVE  HandInv'
  <1>1. batch[b] \in Batch /\ batch[b].todo # << >> /\ result[b] \in Result
    BY DEF CallReturns, HandInv, HandOK, BatchTypes, Inv, TypeOK
  <1>2. After(batch[b], result[b]) \in Batch
        /\ After(batch[b], result[b]).phase \in {"next", "interval", "finished"}
    BY <1>1, AfterFacts
  <1>3. Take(b) /\ batch' = [batch EXCEPT ![b] = After(batch[b], result[b])]
        /\ UNCHANGED <<review, plan, batches>>
    BY DEF CallReturns
  <1> QED
    BY <1>2, <1>3, CallEndsStep

\* Nothing but the day and the count of faults.
LEMMA FaultFrame ==
  ASSUME Inv, UNCHANGED <<pc, req, result, page, history, posted, excused, calls>>,
         faults < MaxFaults, faults' = faults + 1, today' \in Nat
  PROVE  Inv'
  <1>1. faults' \in 0..MaxFaults
    BY BoundAssumption DEF Inv, TypeOK
  <1> QED
    BY <1>1 DEF Inv, TypeOK, CallInv, CallOK, PassedGates, SendsForReal, AtComment, DraftKept,
       StillUnrecorded, FocusInv, RepliedOnce, PostedIsRecorded, MyPage, MyComment, MyText, Pair

LEMMA BatchCrashStep ==
  ASSUME HandInv, PagesAreOwn, NEW b \in Senders, BatchCrash(b)
  PROVE  HandInv'
  <1>1. batch' = [batch EXCEPT ![b] = NoBatch] /\ UNCHANGED <<review, plan, batches>>
    BY DEF BatchCrash
  <1>2. CASE Crash(b)
    BY <1>1, <1>2, NoBatchFacts, CallEndsStep
  <1>3. CASE ~Crash(b)
    <2>1. /\ batch[b].phase \in {"next", "interval"} /\ faults < MaxFaults /\ faults' = faults + 1
          /\ UNCHANGED <<pc, req, result, page, history, today, posted, excused, calls>>
      BY <1>3 DEF BatchCrash
    <2>2. Inv'
      BY <2>1, FaultFrame DEF HandInv, Inv, TypeOK
    <2>3. BatchTypes'
      BY <1>1, NoBatchFacts DEF HandInv, BatchTypes
    <2>4. batch'[b] = NoBatch /\ \A u \in Senders \ {b} : batch'[u] = batch[u]
      BY <1>1 DEF HandInv, BatchTypes
    <2>5. PostedWasAllowed' /\ ResultOK(b)'
      BY <2>1 DEF HandInv, PostedWasAllowed, ResultOK
    <2>6. HandOK(b)'
      BY <2>1, <2>4, NoBatchFacts DEF HandInv, HandOK
    <2> QED
      BY <2>1, <2>2, <2>3, <2>4, <2>5, <2>6, HandFrame
  <1> QED
    BY <1>2, <1>3

LEMMA NewDayStep ==
  ASSUME HandInv, NewDay
  PROVE  HandInv'
  <1>1. Inv'
    BY FaultFrame DEF HandInv, NewDay
  <1> QED
    BY <1>1 DEF HandInv, NewDay, batchVars, BatchTypes, PostedWasAllowed, ResultOK, HandOK

LEMMA RerenderBatchStep ==
  ASSUME HandInv, PagesAreOwn, NEW p \in Pages, Rerender(p), UNCHANGED batchVars
  PROVE  HandInv'
  <1>1. Inv'
    BY InvStep DEF HandInv, Next
  <1> QED
    BY <1>1 DEF HandInv, Rerender, batchVars, BatchTypes, PostedWasAllowed, ResultOK, HandOK

\* A call's own step: what it posts is the lead its batch handed it.
LEMMA CallGoesOnStep ==
  ASSUME HandInv, PagesAreOwn, NEW s \in Senders, ReplyStep(s), UNCHANGED batchVars
  PROVE  HandInv'
  <1>1. Inv'
    BY InvStep DEF HandInv, Next
  <1>2. BatchTypes' /\ UNCHANGED batch
    BY DEF HandInv, BatchTypes, batchVars
  <1>3. /\ pc[s] \in AtWork /\ pc'[s] # "idle"
        /\ \A u \in Senders \ {s} : pc'[u] = pc[u] /\ result'[u] = result[u]
        /\ UNCHANGED req /\ ResultOK(s)'
        /\ result'[s].verified => ~DryRun(req[s])
    BY ReplyStepFacts DEF HandInv
  <1>4. /\ batch[s].phase = "waiting" /\ Head(batch[s].todo) \in DOMAIN Leads
        /\ Allowed[Head(batch[s].todo)] /\ batch[s].todo # << >>
        /\ req[s] = RequestFor(Head(batch[s].todo), batch[s].mode)
    BY <1>3 DEF HandInv, HandOK, BatchTypes, Batch, AtWork, Preparing, Sending
  <1>5. result'[s].verified => batch[s].mode = "execute"
    <2>1. PICK sends \in BOOLEAN : sends = Sends(batch[s].mode)
      BY DEF Sends
    <2>2. req[s].confirm = sends
      BY <1>4, <2>1 DEF RequestFor
    <2>3. ~DryRun(req[s]) => sends
      BY <2>2 DEF DryRun
    <2> QED
      BY <1>3, <2>1, <2>3 DEF Sends
  <1>6. HandOK(s)'
    BY <1>2, <1>3, <1>4, <1>5 DEF HandOK
  <1>7. PostedWasAllowed'
    <2>1. CASE UNCHANGED posted
      BY <2>1 DEF HandInv, PostedWasAllowed
    <2>2. CASE ~UNCHANGED posted
      <3>1. pc[s] = "send" /\ Deliver(s)
        BY <2>2 DEF ReplyStep, Open, ClickReply, Preview, RefuseDraft, FillInput, Preflight, Compose,
           Raise, Click, RecordClick, Verify, quiet
      <3>2. posted' = [posted EXCEPT ![MyComment(s)][MyText(s)] = @ + 1]
        BY <3>1, DeliverPostsOwn DEF HandInv
      <3>3. MyComment(s) = Leads[Head(batch[s].todo)].comment
        BY <1>4 DEF MyComment, RequestFor
      <3>4. ASSUME NEW c \in Comments, c # MyComment(s)
            PROVE  posted'[c] = posted[c]
        BY <3>2, <3>4 DEF HandInv, Inv, TypeOK
      <3> QED
        BY <1>4, <3>3, <3>4 DEF HandInv, PostedWasAllowed
    <2> QED
      BY <2>1, <2>2
  <1> QED
    BY <1>1, <1>2, <1>3, <1>6, <1>7, HandFrame

LEMMA HandInit == BatchInit => HandInv
  <1> SUFFICES ASSUME BatchInit PROVE HandInv
    OBVIOUS
  <1>1. Inv
    BY InvInit DEF BatchInit
  <1>2. BatchTypes
    BY NoBatchFacts, ScannedAssumption, LimitAssumption DEF BatchInit, BatchTypes
  <1>3. PostedWasAllowed
    BY DEF BatchInit, Init, PostedWasAllowed
  <1>4. ASSUME NEW b \in Senders
        PROVE  ResultOK(b) /\ HandOK(b)
    BY NoBatchFacts, NoResultIsUnverified DEF BatchInit, Init, ResultOK, HandOK
  <1> QED
    BY <1>1, <1>2, <1>3, <1>4 DEF HandInv

LEMMA HandStep ==
  ASSUME PagesAreOwn, HandInv, [BatchNext]_allVars
  PROVE  HandInv'
  <1>1. ASSUME NEW b \in Senders, NEW r \in Reports, ReviewMissing(b, r) \/ BuildPlan(b, r)
        PROVE  HandInv'
    BY <1>1, PlanningStep
  <1>2. ASSUME NEW b \in Senders, NEW r \in Reports, NEW mode \in Modes, NEW test \in BOOLEAN,
               StartBatch(b, r, mode, test) \/ RefuseBatch(b, r, mode, test)
        PROVE  HandInv'
    BY <1>2, StartStep
  <1>3. ASSUME NEW b \in Senders,
               NextItem(b) \/ NothingSelected(b) \/ CallReturns(b) \/ IntervalOver(b) \/ EndBatch(b)
        PROVE  HandInv'
    BY <1>3, OnStep, NextCallStep, ReturnsStep
  <1>4. ASSUME NEW b \in Senders, BatchCrash(b)
        PROVE  HandInv'
    BY <1>4, BatchCrashStep
  <1>5. ASSUME NEW b \in Senders, ReplyStep(b), UNCHANGED batchVars
        PROVE  HandInv'
    BY <1>5, CallGoesOnStep
  <1>6. ASSUME NEW p \in Pages, Rerender(p), UNCHANGED batchVars
        PROVE  HandInv'
    BY <1>6, RerenderBatchStep
  <1>7. CASE NewDay
    BY <1>7, NewDayStep
  <1>8. CASE UNCHANGED allVars
    <2>1. Inv'
      BY <1>8, InvStep DEF HandInv, allVars
    <2> QED
      BY <1>8, <2>1 DEF allVars, batchVars, vars, HandInv, BatchTypes, PostedWasAllowed, ResultOK, HandOK
  <1> QED
    BY <1>1, <1>2, <1>3, <1>4, <1>5, <1>6, <1>7, <1>8 DEF BatchNext

\* What is posted lies below an allowed URL, or in the name of a page the operator owns
\* and the content's page shows: build_plan_item and execute_batch_plan ask
\* evaluate_source_policy of every lead, and no plan that is kept, rebuilt or executed
\* again gets a reply past it.
THEOREM CoveredSourcesAlways ==
  ASSUME PagesAreOwn
  PROVE  BatchSpec => []OnlyCoveredSources
  <1>1. HandInv => OnlyCoveredSources
    <2> SUFFICES ASSUME HandInv, NEW c \in Comments, \E t \in Texts : posted[c][t] > 0
                 PROVE  \E i \in CoveredLeads : Leads[i].comment = c
      BY DEF OnlyCoveredSources
    <2>1. PICK i \in DOMAIN Leads : Leads[i].comment = c /\ Allowed[i]
      BY DEF HandInv, PostedWasAllowed
    <2>2. Leads[i].content \in Content /\ Leads[i].report \in Reports
      BY LeadFields
    <2>3. Covered(Policy[Leads[i].report], Leads[i].content)
      BY <2>1, <2>2, PolicyAssumption, AllowedIsCovered DEF Allowed
    <2> QED
      BY <2>1, <2>3 DEF CoveredLeads
  <1> QED
    BY <1>1, HandInit, HandStep, PTL DEF BatchSpec

-----------------------------------------------------------------------------
(* Batches that are run one after the other: counts and rehearsals.        *)

LEMMA BatchNumbers ==
  ASSUME NEW x \in Batch
  PROVE  /\ x.attempted \in Nat /\ x.passed \in Nat /\ x.remaining \in Nat /\ x.before \in Nat
         /\ x.counts.verified \in Nat /\ x.counts.unverified \in Nat /\ Len(x.todo) \in Nat
         /\ x.todo \in Seq(DOMAIN Leads) /\ x.subset \in Seq(DOMAIN Leads) /\ Len(x.subset) \in Nat
  BY DEF Batch, Counts

\* What a batch that starts has been given keeps both.
LEMMA GivenKeeps ==
  ASSUME BatchInv, NEW b \in Senders, NEW r \in Reports, NEW mode \in Modes, NEW test \in BOOLEAN,
         batch[b].phase = "idle", NEW y \in Batch, Given(y, r, mode, test),
         batch'[b] = y, UNCHANGED vars
  PROVE  CountOK(b)' /\ RehearsalOK(b)'
  <1>1. PICK items \in Seq(DOMAIN Leads) : items = SelectedItems(r)
    BY SelectedAreLeads DEF BatchInv, HandInv, BatchTypes
  <1>2. PICK n \in Nat : /\ n = AttemptsAllowed(r, test) /\ n <= Len(items) /\ n <= Remaining
                         /\ test => n <= AcceptanceMax
    BY <1>1, AttemptsBound DEF BatchInv
  <1>11. n \in Nat /\ n <= Len(items) /\ n <= Remaining /\ (test => n <= AcceptanceMax)
    BY <1>2, Zenon
  <1>3. Len(y.todo) <= n /\ \A k \in 1..Len(y.todo) : y.todo[k] = items[k]
    BY <1>1, <1>2 DEF Given
  <1>4. /\ today \in Nat /\ today <= DailyLimit /\ Pending(b) = 0
    <2>1. batch[b] = NoBatch /\ pc[b] = "idle" /\ ~result[b].verified
      BY NoResultIsUnverified DEF BatchInv, HandInv, HandOK, ResultOK
    <2>2. today + Len(NoBatch.todo) <= DailyLimit + Pending(b)
      BY <2>1 DEF BatchInv, CountOK
    <2> QED
      BY <2>1, <2>2, LimitAssumption DEF NoBatch, Pending, BatchInv, HandInv, Inv, TypeOK
  <1>5. Remaining = DailyLimit - today /\ Remaining \in Nat
    BY <1>4, LimitAssumption DEF Remaining
  <1>6. y.counts.verified = 0 /\ y.counts.unverified = 0
    BY DEF Given, NoCounts
  <1> DEFINE Numbers == /\ y.attempted = 0 /\ y.passed = 0 /\ y.remaining = Remaining /\ y.before = today
                        /\ Len(y.todo) \in Nat /\ y.subset \in Seq(DOMAIN Leads) /\ y.mode = mode
                        /\ (y.test <=> test) /\ y.phase \in {"next", "finished"}
  <1>0. Numbers
    BY BatchNumbers DEF Given, Batch
  <1>7. CountOK(b)'
    <2>1. Pending(b)' = 0 /\ today' = today
      BY <1>4 DEF Pending, vars
    <2>2. y.test => y.attempted + Len(y.todo) <= AcceptanceMax
      BY <1>0, <1>3, <1>11, LimitAssumption
    <2>3. today + Len(y.todo) <= DailyLimit
      BY <1>0, <1>2, <1>3, <1>4, <1>5, LimitAssumption
    <2> QED
      <3>1. y.counts.verified + y.counts.unverified <= y.attempted
        BY <1>0, <1>6
      <3>2. today' = y.before + y.counts.verified + Pending(b)'
        BY <1>0, <1>4, <1>6, <2>1
      <3>3. today' + Len(y.todo) <= DailyLimit + Pending(b)'
        BY <1>0, <1>4, <2>1, <2>3, LimitAssumption
      <3>4. ~(y.counts.unverified > 0)
        BY <1>6
      <3> QED
        BY <2>2, <3>1, <3>2, <3>3, <3>4 DEF CountOK
  <1>8. test => /\ Len(y.todo) <= Len(y.subset)
                /\ \A k \in 1..Len(y.todo) : y.todo[k] = y.subset[k]
    <2> SUFFICES ASSUME test PROVE /\ Len(y.todo) <= Len(y.subset)
                                   /\ \A k \in 1..Len(y.todo) : y.todo[k] = y.subset[k]
      OBVIOUS
    <2>1. PICK m \in Nat : m = Least(AcceptanceMax, Len(items)) /\ m <= Len(items) /\ n <= m
      <3>1. PICK len \in Nat : len = Len(items)
        BY <1>1
      <3>2. Least(AcceptanceMax, len) \in Nat /\ Least(AcceptanceMax, len) <= len /\ n <= Least(AcceptanceMax, len)
        BY <1>11, <3>1, LimitAssumption DEF Least
      <3> QED
        BY <3>1, <3>2
    <2>2. y.subset = SubSeq(items, 1, m)
      BY <1>1, <2>1 DEF Given
    <2>3. Len(y.subset) = m /\ \A k \in 1..m : y.subset[k] = items[k]
      BY <1>1, <2>1, <2>2
    <2>4. \A k \in 1..Len(y.todo) : k \in 1..m
      BY <1>0, <1>3, <1>11, <2>1
    <2> QED
      BY <1>0, <1>2, <1>3, <2>1, <2>3, <2>4
  <1>9. Remaining' = Remaining
    BY DEF Remaining, vars
  <1>10. ~y.ready
    BY DEF Given
  <1> QED
    <2>1. y.attempted + Len(y.todo) <= y.remaining
      BY <1>0, <1>2, <1>3, <1>5
    <2>2. \A k \in 1..Len(y.todo) : y.attempted + k = k
      BY <1>0
    <2>3. y.test => /\ y.attempted + Len(y.todo) <= Len(y.subset)
                    /\ \A k \in 1..Len(y.todo) : y.todo[k] = y.subset[y.attempted + k]
      BY <1>0, <1>8, <2>2
    <2>4. 1..y.attempted = {} /\ y.passed <= y.attempted
      BY <1>0
    <2>5. y.remaining <= Remaining'
      BY <1>0, <1>5, <1>9
    <2>6. RehearsalOK(b)'
      BY <1>0, <1>10, <2>1, <2>3, <2>4, <2>5 DEF RehearsalOK
    <2> QED
      BY <1>7, <2>6

\* So does the entry of an item.
LEMMA AfterKeeps ==
  ASSUME BatchInv, NEW b \in Senders, batch[b].phase \in {"next", "waiting"}, batch[b].todo # << >>,
         NEW r \in Result, r.verified <=> r.status = "verified", r.verified <=> result[b].verified,
         r.verified => batch[b].mode = "execute",
         Passes(batch[b], r) => Clear(Head(batch[b].todo)),
         ~result'[b].verified, UNCHANGED <<today, history, faults>>,
         batch'[b] = After(batch[b], r)
  PROVE  CountOK(b)' /\ RehearsalOK(b)'
  <1>1. PICK x \in Batch : x = batch[b]
    BY DEF BatchInv, HandInv, BatchTypes
  <1>2. PICK y \in Batch : y = After(x, r)
    BY <1>1, AfterFacts
  <1>3. /\ y.phase \in {"next", "interval", "finished"}
        /\ y.mode = x.mode /\ y.test = x.test /\ y.subset = x.subset
        /\ y.remaining = x.remaining /\ y.before = x.before
        /\ y.todo \in {Tail(x.todo), << >>}
        /\ y.attempted = x.attempted + 1 /\ y.counts = CountedIn(x, r)
        /\ y.passed = IF Passes(x, r) THEN x.passed + 1 ELSE x.passed
        /\ y.ready => Ready(y)
        /\ r.status = "unverified" => y.phase = "finished"
    BY <1>1, <1>2, AfterFacts
  <1>12. y.remaining = x.remaining /\ y.before = x.before /\ y.attempted = x.attempted + 1
    BY <1>3, Zenon
  <1>13. y.test <=> x.test
    BY <1>1, <1>2, <1>3 DEF Batch
  <1>4. batch'[b] = y /\ Pending(b)' = 0 /\ today' = today /\ today \in Nat /\ faults' = faults
    BY <1>1, <1>2 DEF Pending, BatchInv, HandInv, Inv, TypeOK
  <1> DEFINE Numbers(z) ==
        /\ z.attempted \in Nat /\ z.passed \in Nat /\ z.remaining \in Nat /\ z.before \in Nat
        /\ z.counts.verified \in Nat /\ z.counts.unverified \in Nat /\ Len(z.todo) \in Nat
        /\ Len(z.subset) \in Nat
  <1>0. Numbers(x) /\ Numbers(y)
    BY <1>1, <1>2, BatchNumbers
  <1>5. /\ Len(y.todo) <= Len(x.todo) - 1 /\ Len(x.todo) >= 1
        /\ \A k \in 1..Len(y.todo) : y.todo[k] = x.todo[k + 1]
    <2>1. PICK todo \in Seq(DOMAIN Leads) : todo = x.todo /\ todo # << >>
      BY <1>1, BatchNumbers
    <2>2. Len(Tail(todo)) = Len(todo) - 1 /\ \A k \in 1..Len(Tail(todo)) : Tail(todo)[k] = todo[k + 1]
      BY <2>1
    <2> QED
      BY <1>3, <2>1, <2>2
  <1>14. Len(y.todo) <= Len(x.todo) - 1 /\ Len(x.todo) >= 1
    BY <1>5, Zenon
  <1>15. /\ x.attempted \in Nat /\ x.remaining \in Nat /\ Len(x.todo) \in Nat /\ Len(y.todo) \in Nat
    BY <1>0, Zenon
  <1>6. /\ y.counts.verified = x.counts.verified + Pending(b)
        /\ y.counts.unverified > 0 => x.counts.unverified > 0 \/ r.status = "unverified"
        /\ y.counts.verified + y.counts.unverified <= x.counts.verified + x.counts.unverified + 1
    <2>1. /\ y.counts.verified = IF r.status = "verified" /\ x.mode # "preflight_only"
                                 THEN x.counts.verified + 1 ELSE x.counts.verified
          /\ y.counts.unverified = IF r.status = "unverified" /\ x.mode # "preflight_only"
                                   THEN x.counts.unverified + 1 ELSE x.counts.unverified
      BY <1>3, CountedFacts
    <2>2. Pending(b) = IF r.status = "verified" THEN 1 ELSE 0
      BY DEF Pending
    <2>3. r.status = "verified" => x.mode # "preflight_only"
      BY <1>1
    <2>4. PICK v \in Nat, u \in Nat : v = x.counts.verified /\ u = x.counts.unverified
      BY <1>0
    <2> QED
      BY <2>1, <2>2, <2>3, <2>4
  <1>7. CountOK(b)'
    <2>1. CountOK(b) /\ Pending(b) \in 0..1
      BY DEF BatchInv, Pending
    <2>2. y.counts.verified + y.counts.unverified <= y.attempted
      <3>1. x.counts.verified + x.counts.unverified <= x.attempted
        BY <1>1, <2>1, Zenon DEF CountOK
      <3> QED
        BY <1>0, <1>6, <1>12, <3>1
    <2>3. y.test => y.attempted + Len(y.todo) <= AcceptanceMax
      <3>1. x.test => x.attempted + Len(x.todo) <= AcceptanceMax
        BY <1>1, <2>1, Zenon DEF CountOK
      <3> QED
        BY <1>0, <1>12, <1>13, <1>14, <3>1, LimitAssumption
    <2>4. y.before + y.counts.verified + Pending(b)' = x.before + x.counts.verified + Pending(b)
      <3>1. x.before \in Nat /\ x.counts.verified \in Nat /\ y.before = x.before
        BY <1>0, <1>12, Zenon
      <3>2. y.counts.verified = x.counts.verified + Pending(b) /\ Pending(b)' = 0 /\ Pending(b) \in Nat
        BY <1>4, <1>6, <2>1
      <3> QED
        BY <3>1, <3>2
    <2>5. today' + Len(y.todo) <= DailyLimit + Pending(b)'
      BY <1>0, <1>1, <1>4, <1>5, <2>1, LimitAssumption DEF CountOK
    <2>6. y.counts.unverified > 0 => y.phase = "finished"
      BY <1>1, <1>3, <1>6, <2>1 DEF CountOK
    <2> QED
      BY <1>1, <1>4, <2>1, <2>2, <2>3, <2>4, <2>5, <2>6 DEF CountOK
  <1>8. Remaining' = Remaining
    BY DEF Remaining
  <1>9. \A i \in DOMAIN Leads : Clear(i) => Clear(i)'
    BY DEF Clear, BlockedBy
  <1>10. ASSUME x.mode = "preflight_only", x.test, y.passed = y.attempted, NEW k \in 1..y.attempted
         PROVE  Clear(y.subset[k])'
    <2>1. Passes(x, r) /\ x.passed = x.attempted /\ x.passed <= x.attempted
      <3>1. x.passed <= x.attempted
        BY <1>1 DEF BatchInv, RehearsalOK
      <3> QED
        BY <1>0, <1>3, <1>10, <3>1
    <2>2. x.attempted + Len(x.todo) <= Len(x.subset) /\ x.todo[1] = x.subset[x.attempted + 1]
      BY <1>1, <1>5, <1>10, BatchNumbers DEF BatchInv, RehearsalOK
    <2>3. x.subset[k] \in DOMAIN Leads
      BY <1>3, <1>5, <2>2, BatchNumbers
    <2>4. CASE k <= x.attempted
      BY <1>1, <1>3, <1>9, <1>10, <2>1, <2>3, <2>4, BatchNumbers DEF BatchInv, RehearsalOK
    <2>5. CASE k = x.attempted + 1
      <3>1. x.subset[k] = Head(x.todo)
        BY <1>1, <2>2, <2>5, BatchNumbers
      <3> QED
        BY <1>1, <1>3, <1>9, <2>1, <2>3, <3>1
    <2> QED
      BY <1>3, <2>4, <2>5, BatchNumbers
  <1>11. RehearsalOK(b)'
    <2>1. y.attempted + Len(y.todo) <= y.remaining
      <3>1. x.attempted + Len(x.todo) <= x.remaining
        BY <1>1 DEF BatchInv, RehearsalOK
      <3> QED
        BY <1>12, <1>14, <1>15, <3>1
    <2>2. y.mode # "execute" => y.remaining <= Remaining'
      BY <1>1, <1>3, <1>8 DEF BatchInv, RehearsalOK
    <2>3. y.test => /\ y.attempted + Len(y.todo) <= Len(y.subset)
                    /\ \A k \in 1..Len(y.todo) : y.todo[k] = y.subset[y.attempted + k]
      <3>1. ASSUME x.test, NEW k \in 1..Len(y.todo)
            PROVE  y.todo[k] = y.subset[y.attempted + k]
        <4>1. k + 1 \in 1..Len(x.todo) /\ x.attempted + (k + 1) = y.attempted + k
          BY <1>12, <1>14, <1>15
        <4>2. x.todo[k + 1] = x.subset[x.attempted + (k + 1)]
          BY <1>1, <3>1, <4>1 DEF BatchInv, RehearsalOK
        <4> QED
          BY <1>3, <1>5, <4>1, <4>2
      <3> QED
        <4>1. x.test => x.attempted + Len(x.todo) <= Len(x.subset)
          BY <1>1 DEF BatchInv, RehearsalOK
        <4> QED
          <5>1. y.test => y.attempted + Len(y.todo) <= Len(x.subset)
            BY <1>0, <1>12, <1>13, <1>14, <4>1
          <5> QED
            BY <1>3, <1>13, <3>1, <5>1
    <2>4. y.passed <= y.attempted
      BY <1>1, <1>3, BatchNumbers DEF BatchInv, RehearsalOK
    <2> QED
      BY <1>3, <1>4, <1>10, <2>1, <2>2, <2>3, <2>4 DEF RehearsalOK
  <1> QED
    BY <1>7, <1>11

\* A rehearsal stays good while the history is left alone and the day has room.
LEMMA RehearsalFrame ==
  ASSUME BatchInv, NEW b \in Senders, batch'[b] = batch[b], Remaining \in Nat, Remaining' \in Nat,
         batch[b].phase # "idle" /\ batch[b].mode # "execute" => Remaining <= Remaining',
         batch[b].mode = "preflight_only" => UNCHANGED history
  PROVE  RehearsalOK(b)'
  <1>1. RehearsalOK(b)
    BY DEF BatchInv
  <1>2. PICK x \in Batch : x = batch[b]
    BY DEF BatchInv, HandInv, BatchTypes
  <1>3. x.phase # "idle" /\ x.mode # "execute" => x.remaining <= Remaining'
    <2>1. x.phase # "idle" /\ x.mode # "execute" => x.remaining <= Remaining
      BY <1>1, <1>2 DEF RehearsalOK
    <2>2. x.remaining \in Nat
      BY BatchNumbers
    <2> QED
      BY <1>2, <2>1, <2>2
  <1>4. x.mode = "preflight_only" => \A i \in DOMAIN Leads : Clear(i) => Clear(i)'
    BY <1>2 DEF Clear, BlockedBy
  <1>5. x.mode = "preflight_only" =>
          /\ x.phase = "waiting" => Clear(Head(x.todo))'
          /\ x.test /\ x.passed = x.attempted => \A k \in 1..x.attempted : Clear(x.subset[k])'
    <2> SUFFICES ASSUME x.mode = "preflight_only"
                 PROVE  /\ x.phase = "waiting" => Clear(Head(x.todo))'
                        /\ x.test /\ x.passed = x.attempted => \A k \in 1..x.attempted : Clear(x.subset[k])'
      OBVIOUS
    <2>1. x.phase = "waiting" => Head(x.todo) \in DOMAIN Leads
      BY <1>2, BatchNumbers DEF BatchInv, HandInv, HandOK
    <2>2. x.test => \A k \in 1..x.attempted : x.subset[k] \in DOMAIN Leads
      <3>1. x.test => x.attempted + Len(x.todo) <= Len(x.subset)
        BY <1>1, <1>2 DEF RehearsalOK
      <3>2. x.attempted \in Nat /\ Len(x.todo) \in Nat /\ Len(x.subset) \in Nat
        BY BatchNumbers
      <3>3. x.test => x.attempted <= Len(x.subset)
        BY <3>1, <3>2
      <3>4. x.subset \in Seq(DOMAIN Leads)
        BY BatchNumbers
      <3> QED
        BY <3>2, <3>3, <3>4
    <2> QED
      BY <1>1, <1>2, <1>4, <2>1, <2>2 DEF RehearsalOK
  <1> QED
    BY <1>1, <1>2, <1>3, <1>5 DEF RehearsalOK

\* Steps that leave a batch and its day alone.
LEMMA StayKeeps ==
  ASSUME BatchInv, NEW b \in Senders, batch'[b] = batch[b], result'[b] = result[b],
         UNCHANGED <<today, history>>, faults > 0 => faults' > 0
  PROVE  CountOK(b)' /\ RehearsalOK(b)'
  <1>1. CountOK(b)'
    BY DEF BatchInv, CountOK, Pending
  <1>2. Remaining \in Nat /\ Remaining' = Remaining
    BY LimitAssumption DEF BatchInv, HandInv, Inv, TypeOK, Remaining
  <1>3. RehearsalOK(b)'
    BY <1>2, RehearsalFrame
  <1> QED
    BY <1>1, <1>3

\* A batch that goes on to another phase, and leaves its work or ends it.
LEMMA PhaseKeeps ==
  ASSUME BatchInv, NEW b \in Senders, batch[b].phase # "idle",
         NEW y \in Batch, batch'[b] = y,
         y.attempted = batch[b].attempted, y.passed = batch[b].passed,
         y.remaining = batch[b].remaining, y.before = batch[b].before, y.counts = batch[b].counts,
         y.mode = batch[b].mode, y.test = batch[b].test, y.subset = batch[b].subset,
         y.todo = batch[b].todo \/ y.todo = << >>, y.ready => Ready(y),
         y.phase # "idle", y.phase = "finished" \/ batch[b].phase # "finished",
         y.phase = "waiting" /\ y.mode = "preflight_only" => Clear(Head(y.todo)),
         Pending(b) = 0, ~result'[b].verified, UNCHANGED <<today, history, faults>>
  PROVE  CountOK(b)' /\ RehearsalOK(b)'
  <1>1. PICK x \in Batch : x = batch[b]
    BY DEF BatchInv, HandInv, BatchTypes
  <1>2. CountOK(b) /\ RehearsalOK(b)
    BY DEF BatchInv
  <1>3. Pending(b)' = 0 /\ Pending(b) = 0 /\ today \in Nat
    BY DEF Pending, BatchInv, HandInv, Inv, TypeOK
  <1>4. /\ Len(x.todo) \in Nat /\ Len(y.todo) \in Nat /\ Len(y.todo) <= Len(x.todo)
        /\ x.attempted \in Nat /\ x.remaining \in Nat
    <2>1. Len(x.todo) \in Nat /\ Len(y.todo) \in Nat /\ x.attempted \in Nat /\ x.remaining \in Nat
      BY BatchNumbers
    <2>2. y.todo = << >> => Len(y.todo) = 0
      OBVIOUS
    <2>3. y.todo = x.todo => Len(y.todo) = Len(x.todo)
      OBVIOUS
    <2> QED
      BY <1>1, <2>1, <2>2, <2>3
  <1>5. CountOK(b)'
    <2>1. y.test => y.attempted + Len(y.todo) <= AcceptanceMax
      <3>1. x.test => x.attempted + Len(x.todo) <= AcceptanceMax
        BY <1>1, <1>2, Zenon DEF CountOK
      <3>2. (y.test <=> x.test) /\ y.attempted = x.attempted
        BY <1>1
      <3> QED
        BY <1>4, <3>1, <3>2, LimitAssumption
    <2>2. today + Len(y.todo) <= DailyLimit
      <3>1. today + Len(x.todo) <= DailyLimit + 0
        BY <1>1, <1>2, <1>3 DEF CountOK
      <3> QED
        BY <1>3, <1>4, <3>1, LimitAssumption
    <2>3. y.counts.unverified > 0 => y.phase = "finished"
      BY <1>2 DEF CountOK
    <2>4. y.counts.verified + y.counts.unverified <= y.attempted
      BY <1>2 DEF CountOK
    <2>5. LET total == y.before + y.counts.verified + Pending(b)'
          IN  today = total \/ (today < total /\ faults > 0)
      BY <1>2, <1>3 DEF CountOK
    <2>6. today + Len(y.todo) <= DailyLimit + Pending(b)'
      BY <1>3, <2>2, LimitAssumption
    <2> QED
      BY <2>1, <2>3, <2>4, <2>5, <2>6 DEF CountOK
  <1>6. RehearsalOK(b)'
    <2>1. y.attempted + Len(y.todo) <= y.remaining
      <3>1. x.attempted + Len(x.todo) <= x.remaining
        BY <1>1, <1>2 DEF RehearsalOK
      <3>2. y.attempted = x.attempted /\ y.remaining = x.remaining
        BY <1>1
      <3> QED
        BY <1>4, <3>1, <3>2
    <2>2. y.mode # "execute" => y.remaining <= Remaining'
      BY <1>2 DEF RehearsalOK, Remaining
    <2>3. y.test => y.attempted + Len(y.todo) <= Len(y.subset)
      <3>1. x.test => x.attempted + Len(x.todo) <= Len(x.subset)
        BY <1>1, <1>2 DEF RehearsalOK
      <3>2. (y.test <=> x.test) /\ y.attempted = x.attempted /\ Len(y.subset) = Len(x.subset)
        BY <1>1
      <3>3. Len(x.subset) \in Nat
        BY BatchNumbers
      <3> QED
        BY <1>4, <3>1, <3>2, <3>3
    <2>4. y.test => \A k \in 1..Len(y.todo) : y.todo[k] = y.subset[y.attempted + k]
      <3>1. CASE y.todo = << >>
        BY <3>1
      <3>2. CASE y.todo = batch[b].todo
        BY <1>2, <3>2 DEF RehearsalOK
      <3> QED
        BY <3>1, <3>2
    <2>5. y.passed <= y.attempted
      BY <1>2 DEF RehearsalOK
    <2>6. y.mode = "preflight_only" =>
            /\ y.phase = "waiting" => Clear(Head(y.todo))'
            /\ y.test /\ y.passed = y.attempted => \A k \in 1..y.attempted : Clear(y.subset[k])'
      BY <1>2 DEF RehearsalOK, Clear, BlockedBy
    <2> QED
      BY <2>1, <2>2, <2>3, <2>4, <2>5, <2>6 DEF RehearsalOK
  <1> QED
    BY <1>5, <1>6

\* A batch that is over, or has died, leaves the day within its limit.
LEMMA NoBatchKeeps ==
  ASSUME BatchInv, NEW b \in Senders, batch'[b] = NoBatch, Pending(b) = 0, ~result'[b].verified,
         today' = today
  PROVE  CountOK(b)' /\ RehearsalOK(b)'
  <1>1. today \in Nat /\ today <= DailyLimit
    <2>1. today + Len(batch[b].todo) <= DailyLimit + 0 /\ Len(batch[b].todo) \in Nat
      BY BatchNumbers DEF BatchInv, HandInv, BatchTypes, CountOK
    <2> QED
      BY <2>1, LimitAssumption DEF BatchInv, HandInv, Inv, TypeOK
  <1>2. PICK n : n = NoBatch
    OBVIOUS
  <1>3. /\ n.attempted = 0 /\ n.passed = 0 /\ n.remaining = 0 /\ n.before = 0 /\ n.counts = NoCounts
        /\ Len(n.todo) = 0 /\ n.phase = "idle" /\ ~n.test /\ ~n.ready /\ n.mode = "dry_run"
    BY <1>2 DEF NoBatch
  <1>4. n.counts.verified = 0 /\ n.counts.unverified = 0
    BY <1>3 DEF NoCounts
  <1>5. Pending(b)' = 0
    BY DEF Pending
  <1>6. CountOK(b)'
    BY <1>1, <1>2, <1>3, <1>4, <1>5, LimitAssumption DEF CountOK
  <1>7. RehearsalOK(b)'
    BY <1>2, <1>3 DEF RehearsalOK
  <1> QED
    BY <1>6, <1>7

LEMMA OneIsOwn ==
  ASSUME OneAtATime
  PROVE  PagesAreOwn
  BY DEF OneAtATime, PagesAreOwn

\* Nobody has answered yet where no call is at work.
LEMMA NothingPending ==
  ASSUME HandInv, NEW b \in Senders, batch[b].phase # "waiting" \/ pc[b] # "done"
  PROVE  Pending(b) = 0 /\ ~result[b].verified
  BY NoResultIsUnverified DEF HandInv, HandOK, ResultOK, Pending

LEMMA StepKeepsPlanning ==
  ASSUME BatchInv, NEW b \in Senders, NEW r \in Reports,
         \/ ReviewMissing(b, r) \/ BuildPlan(b, r)
         \/ \E mode \in Modes, test \in BOOLEAN : StartBatch(b, r, mode, test) \/ RefuseBatch(b, r, mode, test)
  PROVE  CountOK(b)' /\ RehearsalOK(b)'
  <1>1. CASE ReviewMissing(b, r) \/ BuildPlan(b, r)
    BY <1>1, StayKeeps DEF ReviewMissing, BuildPlan, vars
  <1>2. ASSUME NEW mode \in Modes, NEW test \in BOOLEAN,
               StartBatch(b, r, mode, test) \/ RefuseBatch(b, r, mode, test)
        PROVE  CountOK(b)' /\ RehearsalOK(b)'
    <2>1. PICK y \in Batch : batch' = [batch EXCEPT ![b] = y] /\ Given(y, r, mode, test)
      BY <1>2, StartFacts DEF BatchInv
    <2>2. batch'[b] = y
      BY <2>1, Zenon DEF BatchInv, HandInv, BatchTypes
    <2>3. batch[b].phase = "idle" /\ UNCHANGED vars
      BY <1>2 DEF StartBatch, RefuseBatch, Free
    <2> QED
      BY <2>1, <2>2, <2>3, GivenKeeps
  <1> QED
    BY <1>1, <1>2

LEMMA StepKeepsItem ==
  ASSUME BatchInv, NEW b \in Senders, NextItem(b)
  PROVE  CountOK(b)' /\ RehearsalOK(b)'
  <1>1. /\ batch[b].phase = "next" /\ batch[b].todo # << >> /\ batch[b] \in Batch
        /\ batch \in [Senders -> Batch] /\ HandInv
    BY DEF NextItem, BatchInv, HandInv, BatchTypes
  <1>2. Pending(b) = 0 /\ ~result[b].verified
    BY <1>1, NothingPending
  <1>3. CASE WithoutCall(b) # {}
    <2>1. PICK r \in WithoutCall(b) : batch' = [batch EXCEPT ![b] = After(batch[b], r)] /\ UNCHANGED vars
      BY <1>3 DEF NextItem
    <2>2. /\ r \in Result /\ ~r.verified /\ r.status \notin {"verified", "unverified", "dry_run"}
      BY WithoutCallType
    <2>3. ~Passes(batch[b], r)
      BY <2>2 DEF Passes
    <2>4. batch'[b] = After(batch[b], r)
      BY <1>1, <2>1
    <2>5. ~result'[b].verified /\ UNCHANGED <<today, history, faults>>
      BY <1>2, <2>1 DEF vars
    <2> QED
      BY <1>1, <1>2, <2>2, <2>3, <2>4, <2>5, AfterKeeps
  <1>4. CASE WithoutCall(b) = {}
    <2> DEFINE i == Head(batch[b].todo)
               q == RequestFor(i, batch[b].mode)
    <2>1. Call(b, q) /\ batch' = [batch EXCEPT ![b].phase = "waiting"]
      BY <1>4 DEF NextItem
    <2>2. q \in Requests
      BY <1>1, CallAssumption DEF Batch
    <2>3. batch[b].mode = "preflight_only" => Clear(i)
      BY <1>4 DEF WithoutCall, Clear
    <2>4. ~result'[b].verified /\ UNCHANGED <<history, today, faults>>
      <3> HIDE DEF q
      <3>1. ResultOK(b) /\ Inv
        BY <1>1 DEF HandInv
      <3> QED
        BY <2>1, <2>2, <3>1, CallFacts
    <2>5. PICK y : y = [batch[b] EXCEPT !.phase = "waiting"]
      OBVIOUS
    <2>6. batch'[b] = y
      BY <1>1, <2>1, <2>5
    <2>7. /\ y \in Batch /\ y.phase = "waiting" /\ y.todo = batch[b].todo
          /\ y.attempted = batch[b].attempted /\ y.passed = batch[b].passed
          /\ y.remaining = batch[b].remaining /\ y.before = batch[b].before /\ y.counts = batch[b].counts
          /\ y.mode = batch[b].mode /\ y.test = batch[b].test /\ y.subset = batch[b].subset
          /\ y.ready = batch[b].ready /\ y.lock = batch[b].lock
      BY <1>1, <2>5 DEF Batch
    <2>8. y.ready => Ready(y)
      BY <2>7 DEF BatchInv, RehearsalOK, Ready
    <2> HIDE DEF q
    <2> QED
      BY <1>1, <1>2, <2>3, <2>4, <2>6, <2>7, <2>8, PhaseKeeps
  <1> QED
    BY <1>3, <1>4

LEMMA StepKeepsLoop ==
  ASSUME BatchInv, NEW b \in Senders,
         NothingSelected(b) \/ CallReturns(b) \/ IntervalOver(b) \/ EndBatch(b) \/ BatchCrash(b)
  PROVE  CountOK(b)' /\ RehearsalOK(b)'
  <1>1. batch[b] \in Batch /\ batch \in [Senders -> Batch] /\ HandInv /\ Inv /\ ResultOK(b) /\ HandOK(b)
        /\ (batch[b].ready => Ready(batch[b]))
    BY DEF BatchInv, HandInv, BatchTypes, RehearsalOK
  <1>2. CASE NothingSelected(b)
    <2>1. batch[b].phase = "next" /\ batch' = [batch EXCEPT ![b] = Finished(batch[b])] /\ UNCHANGED vars
      BY <1>2 DEF NothingSelected
    <2>2. PICK y : y = Finished(batch[b])
      OBVIOUS
    <2>3. /\ y \in Batch /\ y.phase = "finished" /\ y.todo = << >>
          /\ y.attempted = batch[b].attempted /\ y.passed = batch[b].passed
          /\ y.remaining = batch[b].remaining /\ y.before = batch[b].before /\ y.counts = batch[b].counts
          /\ y.mode = batch[b].mode /\ y.test = batch[b].test /\ y.subset = batch[b].subset
          /\ y.ready = batch[b].ready /\ y.lock = batch[b].lock
      BY <1>1, <2>2, FinishedFacts
    <2>4. y.ready => Ready(y)
      BY <1>1, <2>3 DEF Ready
    <2>5. batch'[b] = y
      BY <1>1, <2>1, <2>2
    <2>6. Pending(b) = 0 /\ ~result'[b].verified /\ UNCHANGED <<today, history, faults>>
      BY <1>1, <2>1, NothingPending DEF vars
    <2> QED
      BY <2>1, <2>3, <2>4, <2>5, <2>6, PhaseKeeps
  <1>3. CASE IntervalOver(b)
    <2>1. batch[b].phase = "interval" /\ batch' = [batch EXCEPT ![b].phase = "next"] /\ UNCHANGED vars
      BY <1>3 DEF IntervalOver
    <2>2. PICK y : y = [batch[b] EXCEPT !.phase = "next"]
      OBVIOUS
    <2>3. /\ y \in Batch /\ y.phase = "next" /\ y.todo = batch[b].todo
          /\ y.attempted = batch[b].attempted /\ y.passed = batch[b].passed
          /\ y.remaining = batch[b].remaining /\ y.before = batch[b].before /\ y.counts = batch[b].counts
          /\ y.mode = batch[b].mode /\ y.test = batch[b].test /\ y.subset = batch[b].subset
          /\ y.ready = batch[b].ready /\ y.lock = batch[b].lock
      BY <1>1, <2>2 DEF Batch
    <2>4. y.ready => Ready(y)
      BY <1>1, <2>3 DEF Ready
    <2>5. batch'[b] = y
      BY <1>1, <2>1, <2>2
    <2>6. Pending(b) = 0 /\ ~result'[b].verified /\ UNCHANGED <<today, history, faults>>
      BY <1>1, <2>1, NothingPending DEF vars
    <2> QED
      BY <2>1, <2>3, <2>4, <2>5, <2>6, PhaseKeeps
  <1>4. CASE CallReturns(b)
    <2>1. batch[b].phase = "waiting" /\ Take(b) /\ batch' = [batch EXCEPT ![b] = After(batch[b], result[b])]
      BY <1>4 DEF CallReturns
    <2>2. batch'[b] = After(batch[b], result[b])
      BY <1>1, <2>1
    <2>3. /\ ~result'[b].verified /\ UNCHANGED <<today, history>>
      BY <1>1, <2>1, LeaveFacts
    <2>4. UNCHANGED faults /\ result[b] \in Result
      BY <1>1, <2>1 DEF Take, Inv, TypeOK
    <2>5. /\ batch[b].todo # << >> /\ (result[b].verified <=> result[b].status = "verified")
          /\ result[b].verified => batch[b].mode = "execute"
      BY <1>1, <2>1 DEF HandOK, ResultOK
    <2>6. Passes(batch[b], result[b]) => Clear(Head(batch[b].todo))
      BY <2>1 DEF Passes, BatchInv, RehearsalOK
    <2> QED
      BY <2>1, <2>2, <2>3, <2>4, <2>5, <2>6, AfterKeeps
  <1>5. CASE EndBatch(b)
    <2>1. batch[b].phase = "finished" /\ batch' = [batch EXCEPT ![b] = NoBatch] /\ UNCHANGED vars
      BY <1>5 DEF EndBatch
    <2>2. batch'[b] = NoBatch
      BY <1>1, <2>1
    <2>3. Pending(b) = 0 /\ ~result'[b].verified /\ today' = today
      BY <1>1, <2>1, NothingPending DEF vars
    <2> QED
      BY <2>2, <2>3, NoBatchKeeps
  <1>6. CASE BatchCrash(b)
    <2>1. batch' = [batch EXCEPT ![b] = NoBatch]
      BY <1>6 DEF BatchCrash
    <2>2. batch'[b] = NoBatch
      BY <1>1, <2>1
    <2>3. CASE Crash(b)
      <3>1. pc[b] # "done" /\ ~result'[b].verified /\ today' = today
        BY <1>1, <2>3, LeaveFacts DEF Crash, Preparing
      <3> QED
        BY <1>1, <2>2, <3>1, NothingPending, NoBatchKeeps
    <2>4. CASE ~Crash(b)
      <3>1. batch[b].phase \in {"next", "interval"} /\ UNCHANGED <<result, today>>
        BY <1>6, <2>4 DEF BatchCrash
      <3>2. Pending(b) = 0 /\ ~result'[b].verified
        BY <1>1, <3>1, NothingPending
      <3> QED
        BY <2>2, <3>1, <3>2, NoBatchKeeps
    <2> QED
      BY <2>3, <2>4
  <1> QED
    BY <1>2, <1>3, <1>4, <1>5, <1>6

\* A call's own step verifies a reply or leaves the day alone.
LEMMA StepKeepsCall ==
  ASSUME BatchInv, HandInv', NEW b \in Senders, ReplyStep(b), UNCHANGED batchVars
  PROVE  CountOK(b)' /\ RehearsalOK(b)'
  <1>1. batch[b] \in Batch /\ batch'[b] = batch[b] /\ HandInv /\ Inv /\ ResultOK(b) /\ HandOK(b)
    BY DEF BatchInv, HandInv, BatchTypes, batchVars
  <1>2. /\ pc[b] \in AtWork /\ UNCHANGED faults
        /\ result'[b].verified => ~DryRun(req[b]) /\ today' = today + 1
        /\ ~result'[b].verified => today' = today
        /\ DryRun(req[b]) => UNCHANGED history
    BY <1>1, ReplyStepFacts
  <1>3. pc[b] # "idle" /\ pc[b] # "done"
    BY <1>2 DEF AtWork, Preparing, Sending
  <1>4. Pending(b) = 0
    BY <1>1, <1>3, NothingPending
  <1>5. batch[b].phase = "waiting" /\ req[b] = RequestFor(Head(batch[b].todo), batch[b].mode)
    BY <1>1, <1>3 DEF HandOK
  <1>6. batch[b].mode # "execute" => DryRun(req[b])
    <2>1. PICK sends \in BOOLEAN : sends = Sends(batch[b].mode)
      BY DEF Sends
    <2>2. req[b].confirm = sends
      BY <1>5, <2>1 DEF RequestFor
    <2>3. ~sends => DryRun(req[b])
      BY <2>2 DEF DryRun
    <2> QED
      BY <2>1, <2>3 DEF Sends
  <1>7. today \in Nat /\ today' \in Nat
    BY <1>1 DEF HandInv, Inv, TypeOK
  <1>8. today' = today + Pending(b)' /\ Pending(b)' \in 0..1
    BY <1>2, <1>7 DEF Pending
  <1>9. CountOK(b)'
    <2>1. PICK x \in Batch : x = batch[b]
      BY <1>1
    <2>2. x.before \in Nat /\ x.counts.verified \in Nat /\ Len(x.todo) \in Nat
      BY BatchNumbers
    <2>3. /\ x.counts.verified + x.counts.unverified <= x.attempted
          /\ x.test => x.attempted + Len(x.todo) <= AcceptanceMax
          /\ x.counts.unverified > 0 => x.phase = "finished"
      BY <2>1 DEF BatchInv, CountOK
    <2>4. LET total == x.before + x.counts.verified + Pending(b)'
          IN  today' = total \/ (today' < total /\ faults' > 0)
      <3>1. LET total == x.before + x.counts.verified + 0
            IN  today = total \/ (today < total /\ faults > 0)
        BY <1>4, <1>5, <2>1 DEF BatchInv, CountOK
      <3>2. UNCHANGED faults
        BY <1>2
      <3> QED
        BY <1>7, <1>8, <2>2, <3>1, <3>2
    <2>5. today' + Len(x.todo) <= DailyLimit + Pending(b)'
      <3>1. today + Len(x.todo) <= DailyLimit + 0
        BY <1>4, <2>1 DEF BatchInv, CountOK
      <3> QED
        BY <1>7, <1>8, <2>2, <3>1, LimitAssumption
    <2> QED
      BY <1>1, <2>1, <2>3, <2>4, <2>5 DEF CountOK
  <1>10. RehearsalOK(b)'
    <2>1. Remaining \in Nat /\ Remaining' \in Nat
      <3>1. DailyLimit \in Nat
        BY LimitAssumption
      <3>2. Remaining \in Nat
        BY <1>7, <3>1 DEF Remaining
      <3>3. Remaining' \in Nat
        <4>1. PICK t \in Nat : t = today'
          BY <1>7
        <4>2. Remaining' = IF t < DailyLimit THEN DailyLimit - t ELSE 0
          BY <4>1 DEF Remaining
        <4>3. PICK d \in Nat : d = DailyLimit
          BY <3>1
        <4>4. (IF t < d THEN d - t ELSE 0) \in Nat
          OBVIOUS
        <4> QED
          BY <4>2, <4>3, <4>4
      <3> QED
        BY <3>2, <3>3
    <2>2. batch[b].mode # "execute" => UNCHANGED history /\ Remaining' = Remaining
      BY <1>2, <1>6 DEF Remaining
    <2> QED
      BY <1>1, <2>1, <2>2, RehearsalFrame
  <1> QED
    BY <1>9, <1>10

LEMMA StepKeepsDay ==
  ASSUME BatchInv, HandInv', NEW b \in Senders, NewDay
  PROVE  CountOK(b)' /\ RehearsalOK(b)'
  <1>1. batch'[b] = batch[b] /\ today' = 0 /\ faults' > 0 /\ UNCHANGED <<result, history>> /\ today \in Nat
    BY DEF NewDay, batchVars, BatchInv, HandInv, Inv, TypeOK
  <1>2. PICK x \in Batch : x = batch[b]
    BY DEF BatchInv, HandInv, BatchTypes
  <1>3. x.before \in Nat /\ x.counts.verified \in Nat /\ Len(x.todo) \in Nat
    BY BatchNumbers
  <1>4. Pending(b)' = Pending(b) /\ Pending(b) \in 0..1
    BY <1>1 DEF Pending
  <1>5. CountOK(b)'
    <2>1. /\ x.counts.verified + x.counts.unverified <= x.attempted
          /\ x.test => x.attempted + Len(x.todo) <= AcceptanceMax
          /\ x.counts.unverified > 0 => x.phase = "finished"
      BY <1>2 DEF BatchInv, CountOK
    <2>2. LET total == x.before + x.counts.verified + Pending(b)'
          IN  today' = total \/ (today' < total /\ faults' > 0)
      BY <1>1, <1>3, <1>4
    <2>3. today' + Len(x.todo) <= DailyLimit + Pending(b)'
      <3>1. today + Len(x.todo) <= DailyLimit + Pending(b)
        BY <1>2 DEF BatchInv, CountOK
      <3> QED
        BY <1>1, <1>3, <1>4, <3>1, LimitAssumption
    <2> QED
      BY <1>1, <1>2, <2>1, <2>2, <2>3 DEF CountOK
  <1>6. RehearsalOK(b)'
    <2>1. Remaining \in Nat /\ Remaining' \in Nat /\ Remaining <= Remaining'
      BY <1>1, LimitAssumption DEF Remaining
    <2> QED
      BY <1>1, <2>1, RehearsalFrame
  <1> QED
    BY <1>5, <1>6

LEMMA BatchInvInit == BatchInit => BatchInv
  <1> SUFFICES ASSUME BatchInit PROVE BatchInv
    OBVIOUS
  <1>1. HandInv
    BY HandInit
  <1>2. ASSUME NEW b \in Senders
        PROVE  CountOK(b) /\ RehearsalOK(b)
    <2>1. PICK n : n = NoBatch
      OBVIOUS
    <2>2. /\ n.attempted = 0 /\ n.passed = 0 /\ n.remaining = 0 /\ n.before = 0 /\ n.counts = NoCounts
          /\ Len(n.todo) = 0 /\ n.phase = "idle" /\ ~n.test /\ ~n.ready /\ n.mode = "dry_run"
      BY <2>1 DEF NoBatch
    <2>3. n.counts.verified = 0 /\ n.counts.unverified = 0
      BY <2>2 DEF NoCounts
    <2>4. batch[b] = n /\ today = 0
      BY <2>1 DEF BatchInit, Init
    <2>5. Pending(b) = 0
      BY <1>1, <2>2, <2>4, NothingPending
    <2> QED
      BY <2>2, <2>3, <2>4, <2>5, LimitAssumption DEF CountOK, RehearsalOK
  <1> QED
    BY <1>1, <1>2 DEF BatchInv

LEMMA BatchInvStep ==
  ASSUME OneAtATime, BatchInv, [BatchNext]_allVars
  PROVE  BatchInv'
  <1>1. PICK b \in Senders : Senders = {b}
    BY DEF OneAtATime
  <1>2. HandInv'
    BY OneIsOwn, HandStep DEF BatchInv
  <1> SUFFICES CountOK(b)' /\ RehearsalOK(b)'
    BY <1>1, <1>2 DEF BatchInv
  <1>3. ASSUME NEW r \in Reports,
               \/ ReviewMissing(b, r) \/ BuildPlan(b, r)
               \/ \E mode \in Modes, test \in BOOLEAN :
                    StartBatch(b, r, mode, test) \/ RefuseBatch(b, r, mode, test)
        PROVE  CountOK(b)' /\ RehearsalOK(b)'
    BY <1>3, StepKeepsPlanning
  <1>4. CASE NextItem(b)
    BY <1>4, StepKeepsItem
  <1>5. CASE NothingSelected(b) \/ CallReturns(b) \/ IntervalOver(b) \/ EndBatch(b) \/ BatchCrash(b)
    BY <1>5, StepKeepsLoop
  <1>6. CASE ReplyStep(b) /\ UNCHANGED batchVars
    BY <1>2, <1>6, StepKeepsCall
  <1>7. ASSUME NEW p \in Pages, Rerender(p), UNCHANGED batchVars
        PROVE  CountOK(b)' /\ RehearsalOK(b)'
    <2>1. batch'[b] = batch[b] /\ result'[b] = result[b] /\ UNCHANGED <<today, history>>
          /\ (faults > 0 => faults' > 0)
      BY <1>7 DEF Rerender, batchVars, BatchInv, HandInv, Inv, TypeOK
    <2> QED
      BY <2>1, StayKeeps
  <1>8. CASE NewDay
    BY <1>2, <1>8, StepKeepsDay
  <1>9. CASE UNCHANGED allVars
    BY <1>9, StayKeeps DEF allVars, vars, batchVars
  <1> QED
    BY <1>1, <1>3, <1>4, <1>5, <1>6, <1>7, <1>8, <1>9 DEF BatchNext

LEMMA BatchInvHolds ==
  ASSUME OneAtATime
  PROVE  BatchSpec => []BatchInv
  BY BatchInvInit, BatchInvStep, PTL DEF BatchSpec

\* The counts of execute_batch_plan are what it did: no day gets more verified replies
\* than its limit, an acceptance test sends its two at most, and the report agrees with
\* the history, whichever plans are executed again, die or run past midnight.
THEOREM CountsAlwaysKept ==
  ASSUME OneAtATime
  PROVE  BatchSpec => []CountsAreKept
  <1>1. BatchInv => CountsAreKept
    <2> SUFFICES ASSUME BatchInv PROVE CountsAreKept
      OBVIOUS
    <2>1. BatchTypeOK
      BY DEF BatchInv, HandInv, Inv, BatchTypes, BatchTypeOK
    <2>2. DailyLimitKept
      <3>1. PICK b : b \in Senders
        BY DEF OneAtATime
      <3>2. batch[b] \in Batch /\ today \in Nat /\ HandInv /\ HandOK(b) /\ Len(batch[b].todo) \in Nat
        BY <3>1, BatchNumbers DEF BatchInv, HandInv, BatchTypes, Inv, TypeOK
      <3>3. today + Len(batch[b].todo) <= DailyLimit + Pending(b)
        BY <3>1 DEF BatchInv, CountOK
      <3>4. CASE batch[b].phase = "waiting"
        <4>1. Len(batch[b].todo) >= 1
          <5>1. batch[b].todo \in Seq(DOMAIN Leads) /\ batch[b].todo # << >>
            BY <3>2, <3>4, BatchNumbers DEF HandOK
          <5> QED
            BY <5>1
        <4> QED
          BY <3>2, <3>3, <4>1, LimitAssumption DEF Pending, DailyLimitKept
      <3>5. CASE batch[b].phase # "waiting"
        <4>1. Pending(b) = 0
          BY <3>1, <3>2, <3>5, NothingPending
        <4> QED
          BY <3>2, <3>3, <4>1, LimitAssumption DEF DailyLimitKept
      <3> QED
        BY <3>4, <3>5
    <2>3. AcceptanceBounded
      <3> SUFFICES ASSUME NEW b \in Senders, batch[b].test
                   PROVE  batch[b].counts.verified + batch[b].counts.unverified <= AcceptanceMax
        BY DEF AcceptanceBounded
      <3>1. PICK x \in Batch : x = batch[b]
        BY DEF BatchInv, HandInv, BatchTypes
      <3>2. /\ x.attempted \in Nat /\ Len(x.todo) \in Nat
            /\ x.counts.verified \in Nat /\ x.counts.unverified \in Nat
        BY BatchNumbers
      <3>3. x.counts.verified + x.counts.unverified <= x.attempted
            /\ x.attempted + Len(x.todo) <= AcceptanceMax
        BY <3>1 DEF BatchInv, CountOK
      <3>4. x.counts.verified + x.counts.unverified <= AcceptanceMax
        BY <3>2, <3>3, LimitAssumption
      <3> QED
        BY <3>1, <3>4
    <2>4. ReportAgrees
      <3> SUFFICES ASSUME NEW b \in Senders, batch[b].phase = "finished"
                   PROVE  \/ today = batch[b].before + batch[b].counts.verified
                          \/ today < batch[b].before + batch[b].counts.verified /\ faults > 0
        BY DEF ReportAgrees
      <3>1. Pending(b) = 0
        BY NothingPending DEF BatchInv
      <3>2. PICK x \in Batch : x = batch[b]
        BY DEF BatchInv, HandInv, BatchTypes
      <3>3. x.before \in Nat /\ x.counts.verified \in Nat
        BY BatchNumbers
      <3>4. LET total == x.before + x.counts.verified + 0
            IN  today = total \/ (today < total /\ faults > 0)
        BY <3>1, <3>2 DEF BatchInv, CountOK
      <3> QED
        BY <3>2, <3>3, <3>4
    <2> QED
      BY <2>1, <2>2, <2>3, <2>4 DEF CountsAreKept
  <1> QED
    BY <1>1, BatchInvHolds, PTL

\* _batch_stop_status ends the loop at an unverified reply: the batch makes no call and
\* posts nothing after it, until an operator has looked.
THEOREM UnverifiedAlwaysLast ==
  ASSUME OneAtATime
  PROVE  BatchSpec => UnverifiedIsLast
  <1>1. ASSUME BatchInv, BatchNext, NEW b \in Senders, batch[b].counts.unverified > 0
        PROVE  calls' = calls /\ UNCHANGED posted
    <2>1. \A s \in Senders : s = b
      BY DEF OneAtATime
    <2>2. batch[b].phase = "finished" /\ pc[b] = "idle"
      BY <1>1 DEF BatchInv, HandInv, HandOK, CountOK
    <2>3. ~NextItem(b) /\ ~ReplyStep(b)
      BY <2>2 DEF NextItem, ReplyStep, Open, ClickReply, Preview, RefuseDraft, FillInput, Preflight,
         Compose, Raise, Click, RecordClick, Verify, Preparing
    <2>4. CASE \E r \in Reports :
                 \/ ReviewMissing(b, r) \/ BuildPlan(b, r)
                 \/ \E mode \in Modes, test \in BOOLEAN : StartBatch(b, r, mode, test) \/ RefuseBatch(b, r, mode, test)
      BY <2>4 DEF ReviewMissing, BuildPlan, StartBatch, RefuseBatch, vars
    <2>5. CASE NothingSelected(b) \/ CallReturns(b) \/ IntervalOver(b) \/ EndBatch(b) \/ BatchCrash(b)
      BY <2>5 DEF NothingSelected, CallReturns, Take, IntervalOver, EndBatch, BatchCrash, Crash, vars
    <2>6. CASE NewDay \/ \E p \in Pages : Rerender(p)
      BY <2>6 DEF NewDay, Rerender
    <2> QED
      BY <1>1, <2>1, <2>3, <2>4, <2>5, <2>6 DEF BatchNext
  <1>2. BatchInv /\ [BatchNext]_allVars
        => [\A b \in Senders : batch[b].phase # "idle" /\ batch[b].counts.unverified > 0 =>
              calls' = calls /\ UNCHANGED posted]_allVars
    BY <1>1
  <1> QED
    BY <1>2, BatchInvHolds, PTL DEF BatchSpec, UnverifiedIsLast

\* The rehearsal of a batch may be relied on.
Safe(x) == /\ Len(x.subset) <= Remaining
           /\ \A i \in ToSet(x.subset) :
                BlockedBy(Leads[i].comment, Leads[i].text) = "none" /\ Allowed[i]

ReadyOK == \A b \in Senders : batch[b].ready => Safe(batch[b])

LEMMA RehearsalIsSound == BatchInv => ReadyOK
  <1> SUFFICES ASSUME BatchInv, NEW b \in Senders, batch[b].ready
               PROVE  Safe(batch[b])
    BY DEF ReadyOK
  <1>1. PICK x \in Batch : x = batch[b]
    BY DEF BatchInv, HandInv, BatchTypes
  <1>2. Ready(x) /\ RehearsalOK(b) /\ x.phase # "idle"
    BY <1>1, NoBatchFacts DEF BatchInv, HandInv, HandOK, RehearsalOK, NoBatch
  <1>3. x.test /\ x.mode = "preflight_only" /\ x.attempted = Len(x.subset) /\ x.passed = x.attempted
    BY <1>2 DEF Ready
  <1>4. x.attempted \in Nat /\ Len(x.todo) \in Nat /\ x.remaining \in Nat /\ x.subset \in Seq(DOMAIN Leads)
    BY BatchNumbers
  <1>5. Len(x.subset) <= Remaining
    <2>1. x.attempted + Len(x.todo) <= x.remaining /\ x.remaining <= Remaining
      BY <1>1, <1>2, <1>3 DEF RehearsalOK
    <2>2. today \in Nat /\ DailyLimit \in Nat
      BY LimitAssumption DEF BatchInv, HandInv, Inv, TypeOK
    <2>3. Remaining \in Nat
      BY <2>2 DEF Remaining
    <2>4. x.attempted <= Remaining
      <3>1. x.attempted \in Nat /\ Len(x.todo) \in Nat /\ x.remaining \in Nat
        BY <1>4
      <3> QED
        BY <2>1, <2>3, <3>1
    <2> QED
      BY <1>3, <2>4, Zenon
  <1>6. \A k \in 1..x.attempted : Clear(x.subset[k])
    BY <1>1, <1>2, <1>3 DEF RehearsalOK
  <1>7. ASSUME NEW i \in ToSet(x.subset)
        PROVE  Clear(i)
    <2>1. PICK k \in 1..Len(x.subset) : i = x.subset[k]
      BY <1>4 DEF ToSet
    <2> QED
      BY <1>3, <1>6, <2>1
  <1> QED
    BY <1>1, <1>5, <1>7 DEF Clear, Safe

\* A batch is rewritten by steps that leave the day and the history alone.
LEMMA BatchOrDay ==
  ASSUME HandInv, BatchNext, NEW b \in Senders
  PROVE  batch'[b] = batch[b] \/ UNCHANGED <<today, history>>
  <1>1. ASSUME NEW u \in Senders,
               \/ \E r \in Reports :
                    \/ ReviewMissing(u, r) \/ BuildPlan(u, r)
                    \/ \E mode \in Modes, test \in BOOLEAN :
                         StartBatch(u, r, mode, test) \/ RefuseBatch(u, r, mode, test)
               \/ NothingSelected(u) \/ IntervalOver(u) \/ EndBatch(u)
        PROVE  UNCHANGED <<today, history>>
    BY <1>1 DEF ReviewMissing, BuildPlan, StartBatch, RefuseBatch, NothingSelected, IntervalOver, EndBatch, vars
  <1>2. ASSUME NEW u \in Senders, NextItem(u) \/ CallReturns(u) \/ BatchCrash(u)
        PROVE  UNCHANGED <<today, history>>
    BY <1>2 DEF NextItem, Call, CallReturns, Take, BatchCrash, Crash, vars
  <1>3. CASE UNCHANGED batchVars
    BY <1>3 DEF batchVars
  <1> QED
    BY <1>1, <1>2, <1>3 DEF BatchNext, NewDay

\* What _refresh_acceptance_readiness calls ready, the acceptance test may start: today
\* has room for every lead of it, and none has been answered or is without leave.
THEOREM ReadyIsAlwaysSafe ==
  ASSUME OneAtATime
  PROVE  BatchSpec => ReadyIsSafe
  <1>1. BatchInv' => ReadyOK'
    BY RehearsalIsSound, PTL
  <1>2. ASSUME BatchInv, BatchInv', BatchNext, NEW b \in Senders, batch'[b].ready
        PROVE  Safe(batch'[b])
    <2>1. CASE batch'[b] = batch[b]
      BY <1>2, <2>1, RehearsalIsSound DEF ReadyOK
    <2>2. CASE UNCHANGED <<today, history>>
      <3>1. Safe(batch[b])'
        BY <1>1, <1>2 DEF ReadyOK
      <3> QED
        BY <2>2, <3>1 DEF Safe, Remaining, BlockedBy
    <2> QED
      BY <1>2, <2>1, <2>2, BatchOrDay DEF BatchInv
  <1>3. BatchInv /\ BatchInv' /\ [BatchNext]_allVars
        => [\A b \in Senders : batch'[b].ready =>
              /\ Len(batch'[b].subset) <= Remaining
              /\ \A i \in ToSet(batch'[b].subset) :
                   BlockedBy(Leads[i].comment, Leads[i].text) = "none" /\ Allowed[i]]_allVars
    BY <1>2 DEF Safe
  <1> QED
    BY <1>3, BatchInvHolds, PTL DEF BatchSpec, ReadyIsSafe

=============================================================================
