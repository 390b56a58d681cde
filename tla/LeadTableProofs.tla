----------------------------- MODULE LeadTableProofs -----------------------------
(***************************************************************************)
(* Proofs about the lead table for all values of the constants: any number *)
(* of users, leads and keywords.  The inductive invariant says what an      *)
(* open transaction knows of the rows it has locked and of the row it read  *)
(* last, and what the worker has saved of the keyword it is at.             *)
(***************************************************************************)
EXTENDS LeadTableProps, TLAPS

Txs == [kind : {"none", "save", "edit", "bulk"}, todo : Seq(Leads), read : Lead,
        at : {"read", "write"}, writes : UNION {[S -> Lead] : S \in SUBSET Leads},
        status : Targets \cup {Keep}, reason : Reasons \cup {Keep}]

Loops == [phase : {"idle", "keyword", "save", "mark"}, index : 1..Len(Keywords) + 1,
          seen : SUBSET Contents, done : BOOLEAN]

Types ==
  /\ lead \in [Leads -> Lead] /\ holder \in [Leads -> Parties \cup {Nobody}]
  /\ tx \in [Parties -> Txs] /\ loop \in Loops
  /\ rows \in [Words -> {"none", "running", "completed", "failed"}]
  /\ got \in [Words -> SUBSET Leads] /\ usage \in [Words -> 0..1] /\ reviewed \in BOOLEAN /\ raced \subseteq Leads
  /\ round \in 0..MaxRounds /\ edits \in 0..MaxEdits /\ faults \in 0..MaxFaults

\* Who opens which transactions, and what is left of one that has ended.
KindOK(p) ==
  /\ tx[p].kind \in (IF p = Worker THEN {"none", "save"} ELSE {"none", "edit", "bulk"})
  /\ tx[p].kind = "none" => tx[p] = NoTx
  /\ tx[p].at = "write" => tx[p].todo # <<>>

\* What users made of a lead outlasts a change of its status from one to another.
DecisionKept(from, to) ==
  to # from => /\ from \notin {"archived", "blocked"}
               /\ from = "invalid" => to = "archived"
               /\ from # "none" => to \notin {"new", "blocked"}

\* A row that p has written and not committed is locked, and grows out of the committed one.
WriteOK(p, l) ==
  LET new == tx[p].writes[l]
      old == lead[l]
  IN  /\ holder[l] = p
      /\ new.status # "none" /\ new.last <= round
      /\ l \notin raced => DecisionKept(old.status, new.status)
      /\ p # Worker => /\ old.status # "none" /\ new.status \in {old.status, tx[p].status}
                       /\ new.keywords = old.keywords
                       /\ new.first = old.first /\ new.last = old.last
      /\ p = Worker => /\ Keyword \in new.keywords
                       /\ old.status # "none" => /\ old.keywords \subseteq new.keywords
                                                 /\ new.first = old.first /\ new.last >= old.last

\* What p read of the row it is about to write still holds, but for what others may
\* have made of its status.
ReadOK(p) ==
  LET read == tx[p].read
      row  == Visible(p, Head(tx[p].todo))
  IN  /\ p # Worker => ~Refused(tx[p], read) /\ row.status # "none"
      /\ p = Worker => /\ read.keywords = row.keywords /\ read.first = row.first
                       /\ read.status = "none" <=> row.status = "none"

TxOK(p) ==
  /\ KindOK(p)
  /\ \A l \in DOMAIN tx[p].writes : WriteOK(p, l)
  /\ tx[p].at = "write" => ReadOK(p)

Saved(l, k) == lead[l].status # "none" /\ k \in lead[l].keywords

\* The usage rows of a keyword whose result is saved.
Paid(k) == IF reviewed THEN usage[k] = 1 ELSE usage[k] = 0

\* How far the worker is with its keyword.
LoopOK ==
  /\ loop.phase = "save" <=> tx[Worker].kind = "save"
  /\ loop.phase \in {"save", "mark"} => loop.index <= Len(Keywords) /\ rows[Keyword] = "running"
  /\ loop.phase = "save" =>
       \A l \in got[Keyword] : l \in ToSet(tx[Worker].todo) \cup DOMAIN tx[Worker].writes
  /\ loop.phase = "mark" => Paid(Keyword) /\ \A l \in got[Keyword] : Saved(l, Keyword)

RowsOK == \A k \in Words : /\ usage[k] = 1 => reviewed
                           /\ rows[k] = "completed" => Paid(k) /\ \A l \in got[k] : Saved(l, k)
LastOK == \A l \in Leads : lead[l].last <= round

Inv == Types /\ LoopOK /\ RowsOK /\ LastOK /\ \A p \in Parties : TxOK(p)

-----------------------------------------------------------------------------
(* Types.                                                                  *)

LEMMA LenKeywords == Len(Keywords) \in Nat \ {0} /\ DOMAIN Keywords = 1..Len(Keywords)
  BY KeywordAssumption

LEMMA KeywordType ==
  ASSUME NEW i \in 1..Len(Keywords)
  PROVE  Keywords[i] \in Words
  BY LenKeywords DEF Words, ToSet

LEMMA NoLeadType == NoLead \in Lead
  BY BoundAssumption DEF NoLead, Lead, LeadStatus

LEMMA NoTxType == NoTx \in Txs /\ DOMAIN NoTx.writes = {} /\ NoTx.kind = "none" /\ NoTx.at = "read"
  <1>1. NoTx.writes \in [{} -> Lead] /\ DOMAIN NoTx.writes = {}
    BY DEF NoTx
  <1>2. NoTx.writes \in UNION {[S -> Lead] : S \in SUBSET Leads}
    BY <1>1
  <1>3. NoTx.todo \in Seq(Leads)
    BY DEF NoTx
  <1>4. NoTx = [kind |-> "none", todo |-> NoTx.todo, read |-> NoLead, at |-> "read",
                writes |-> NoTx.writes, status |-> Keep, reason |-> Keep]
    BY DEF NoTx
  <1> QED
    BY <1>1, <1>2, <1>3, <1>4, NoLeadType DEF Txs

\* A transaction that has just begun.
LEMMA BeginType ==
  ASSUME Types, NEW p \in Parties, NEW kind \in {"save", "edit", "bulk"}, NEW leads \in Seq(Leads),
         NEW status \in Targets \cup {Keep}, NEW reason \in Reasons \cup {Keep},
         Begin(p, kind, leads, status, reason)
  PROVE  /\ tx' \in [Parties -> Txs]
         /\ tx'[p].kind = kind /\ tx'[p].todo = leads /\ tx'[p].at = "read" /\ DOMAIN tx'[p].writes = {}
         /\ \A q \in Parties \ {p} : tx'[q] = tx[q]
  <1> DEFINE new == [NoTx EXCEPT !.kind = kind, !.todo = leads, !.status = status, !.reason = reason]
  <1>1. PICK t \in Txs : t = NoTx
    BY NoTxType
  <1>2. new \in Txs /\ new.kind = kind /\ new.todo = leads /\ new.at = "read" /\ DOMAIN new.writes = {}
    BY <1>1, NoTxType DEF Txs
  <1>3. tx' = [tx EXCEPT ![p] = new]
    BY DEF Begin
  <1> HIDE DEF new
  <1> QED
    BY <1>2, <1>3 DEF Types

LEMMA RollbackType ==
  ASSUME Types, NEW p \in Parties, Rollback(p)
  PROVE  /\ tx' \in [Parties -> Txs] /\ holder' \in [Leads -> Parties \cup {Nobody}]
         /\ tx'[p] = NoTx /\ \A q \in Parties \ {p} : tx'[q] = tx[q]
         /\ \A l \in Leads : holder[l] # p => holder'[l] = holder[l]
  BY NoTxType DEF Rollback, Unlock, Types

LEMMA WritesOfTx ==
  ASSUME NEW t \in Txs
  PROVE  \E S \in SUBSET Leads : t.writes \in [S -> Lead]
  <1>1. t.writes \in UNION {[S -> Lead] : S \in SUBSET Leads}
    BY DEF Txs
  <1> QED
    BY <1>1

LEMMA VisibleType ==
  ASSUME Types, NEW p \in Parties, NEW l \in Leads
  PROVE  Visible(p, l) \in Lead
  <1>0. tx[p] \in Txs
    BY DEF Types
  <1>1. PICK S \in SUBSET Leads : tx[p].writes \in [S -> Lead]
    BY <1>0, WritesOfTx
  <1> QED
    BY <1>1 DEF Visible, Types

LEMMA WritesType ==
  ASSUME Types, NEW p \in Parties
  PROVE  DOMAIN tx[p].writes \subseteq Leads /\ tx[p].writes \in [DOMAIN tx[p].writes -> Lead]
  <1>0. tx[p] \in Txs
    BY DEF Types
  <1>1. PICK S \in SUBSET Leads : tx[p].writes \in [S -> Lead]
    BY <1>0, WritesOfTx
  <1> QED
    BY <1>1

LEMMA HeadOfTodo ==
  ASSUME NEW s \in Seq(Leads), s # <<>>
  PROVE  /\ Head(s) \in Leads /\ Tail(s) \in Seq(Leads)
         /\ ToSet(s) = {Head(s)} \cup ToSet(Tail(s))
  <1>1. Head(s) \in Leads /\ Tail(s) \in Seq(Leads)
    OBVIOUS
  <1>2. Len(s) \in Nat \ {0} /\ Len(Tail(s)) = Len(s) - 1 /\ Head(s) = s[1]
    OBVIOUS
  <1>3. \A i \in 1..Len(s) - 1 : Tail(s)[i] = s[i + 1]
    OBVIOUS
  <1>4. ToSet(s) = {s[i] : i \in 1..Len(s)} /\ ToSet(Tail(s)) = {Tail(s)[i] : i \in 1..Len(s) - 1}
    <2>1. DOMAIN s = 1..Len(s) /\ DOMAIN Tail(s) = 1..Len(s) - 1
      BY <1>1, <1>2
    <2> QED
      BY <2>1 DEF ToSet
  <1>5. \A x : x \in ToSet(s) => x = Head(s) \/ x \in ToSet(Tail(s))
    <2>1. SUFFICES ASSUME NEW i \in 1..Len(s), i # 1
                   PROVE  s[i] \in ToSet(Tail(s))
      BY <1>2, <1>4
    <2>2. i - 1 \in 1..Len(s) - 1 /\ Tail(s)[i - 1] = s[i]
      BY <1>2, <1>3, <2>1
    <2> QED
      BY <1>4, <2>2
  <1>6. \A x : x \in ToSet(Tail(s)) => x \in ToSet(s)
    <2>1. SUFFICES ASSUME NEW i \in 1..Len(s) - 1
                   PROVE  Tail(s)[i] \in ToSet(s)
      BY <1>4
    <2>2. i + 1 \in 1..Len(s)
      BY <1>2
    <2> QED
      BY <1>3, <1>4, <2>2
  <1>7. Head(s) \in ToSet(s)
    BY <1>2, <1>4
  <1> QED
    BY <1>1, <1>5, <1>6, <1>7

LEMMA TypesGiveTypeOK == Types => TypeOK
  <1> SUFFICES ASSUME Types
               PROVE  TypeOK
    OBVIOUS
  <1>2. ASSUME NEW p \in Parties
        PROVE  /\ tx[p].kind \in {"none", "save", "edit", "bulk"}
               /\ tx[p].at \in {"read", "write"}
               /\ tx[p].todo \in Seq(Leads) /\ tx[p].read \in Lead
               /\ \A l \in DOMAIN tx[p].writes : tx[p].writes[l] \in Lead
    <2>1. tx[p] \in Txs
      BY DEF Types
    <2>2. \A l \in DOMAIN tx[p].writes : tx[p].writes[l] \in Lead
      BY WritesType
    <2> QED
      BY <2>1, <2>2 DEF Txs
  <1>3. usage \in [Words -> Nat]
    BY DEF Types
  <1>4. /\ loop.phase \in {"idle", "keyword", "save", "mark"} /\ loop.index \in 1..Len(Keywords) + 1
        /\ loop.seen \subseteq Contents /\ loop.done \in BOOLEAN
    BY DEF Types, Loops
  <1> QED
    BY <1>2, <1>3, <1>4 DEF Types, TypeOK

-----------------------------------------------------------------------------
(* Frames.                                                                 *)

\* A step that leaves the rows, the transaction of q and its locks alone.
LEMMA Aside ==
  ASSUME Types, NEW q \in Parties, TxOK(q), tx'[q] = tx[q], UNCHANGED lead,
         \A l \in Leads : holder[l] = q => holder'[l] = q,
         raced \subseteq raced', round' \in Nat, round <= round', q = Worker => UNCHANGED loop
  PROVE  TxOK(q)'
  <1>1. KindOK(q)'
    BY DEF TxOK, KindOK
  <1>2. ASSUME NEW l \in DOMAIN tx'[q].writes
        PROVE  WriteOK(q, l)'
    <2>1. l \in DOMAIN tx[q].writes /\ WriteOK(q, l) /\ l \in Leads /\ tx[q].writes[l] \in Lead
      BY WritesType DEF TxOK
    <2>2. holder'[l] = q /\ tx'[q].writes[l].status # "none"
      BY <2>1 DEF WriteOK
    <2>3. tx'[q].writes[l].last <= round'
      BY <2>1 DEF WriteOK, Lead, Types
    <2>4. l \notin raced' => DecisionKept(lead[l].status, tx[q].writes[l].status)
      BY <2>1 DEF WriteOK
    <2> QED
      BY <2>1, <2>2, <2>3, <2>4 DEF WriteOK, DecisionKept, Keyword
  <1>3. ASSUME tx'[q].at = "write"
        PROVE  ReadOK(q)'
    BY <1>3 DEF TxOK, ReadOK, Visible, Refused, MayMove
  <1> QED
    BY <1>1, <1>2, <1>3 DEF TxOK

\* A transaction that has begun or ended has nothing to answer for yet.
LEMMA Fresh ==
  ASSUME NEW q \in Parties, KindOK(q)', tx'[q].at = "read", DOMAIN tx'[q].writes = {}
  PROVE  TxOK(q)'
  BY DEF TxOK

\* What a step must leave alone, or may only add to, for the rows of keywords.
LEMMA RowsAside ==
  ASSUME RowsOK, UNCHANGED <<lead, got, usage, reviewed>>, \A k \in Words : rows'[k] = "completed" => rows[k] = "completed"
  PROVE  RowsOK'
  BY DEF RowsOK, Saved, Paid

LEMMA LastAside ==
  ASSUME Types, LastOK, UNCHANGED lead, round' \in Nat, round <= round'
  PROVE  LastOK'
  <1>1. \A l \in Leads : lead[l].last \in Nat
    BY DEF Types, Lead
  <1> QED
    BY <1>1 DEF LastOK, Types

\* A step of a user leaves the worker's way alone.
LEMMA LoopAside ==
  ASSUME LoopOK, UNCHANGED <<loop, rows, got, usage, reviewed>>, tx'[Worker] = tx[Worker],
         \A l \in Leads, k \in Words : Saved(l, k) => Saved(l, k)',
         Types
  PROVE  LoopOK'
  <1>1. ASSUME loop.phase = "mark"
        PROVE  \A l \in got[Keyword] : Saved(l, Keyword)'
    <2>1. loop.index \in 1..Len(Keywords)
      BY <1>1 DEF LoopOK, Types, Loops
    <2>2. Keyword \in Words
      BY <2>1, KeywordType DEF Keyword
    <2>3. got[Keyword] \subseteq Leads
      BY <2>2 DEF Types
    <2>4. \A l \in got[Keyword] : Saved(l, Keyword)
      BY <1>1 DEF LoopOK
    <2> QED
      BY <2>2, <2>3, <2>4 DEF Saved, Keyword
  <1>2. Keyword' = Keyword
    BY DEF Keyword
  <1> QED
    BY <1>1, <1>2 DEF LoopOK, Paid

-----------------------------------------------------------------------------
(* Users.                                                                  *)

\* A user's transaction begins.
LEMMA UserBegins ==
  ASSUME Inv, NEW u \in Users, NEW kind \in {"edit", "bulk"}, NEW leads \in Seq(Leads),
         NEW status \in Targets \cup {Keep}, NEW reason \in Reasons \cup {Keep},
         tx[u] = NoTx, edits < MaxEdits, edits' = edits + 1,
         Begin(u, kind, leads, status, reason),
         UNCHANGED <<lead, holder, raced, Search, round, faults>>
  PROVE  Inv'
  <1>1. u \in Parties /\ u # Worker /\ Worker \in Parties
    BY PartyAssumption DEF Parties
  <1>2. /\ tx' \in [Parties -> Txs]
        /\ tx'[u].kind = kind /\ tx'[u].todo = leads /\ tx'[u].at = "read" /\ DOMAIN tx'[u].writes = {}
        /\ \A q \in Parties \ {u} : tx'[q] = tx[q]
    BY <1>1, BeginType DEF Inv
  <1>3. Types'
    BY <1>2, BoundAssumption DEF Inv, Types, Search
  <1>4. LoopOK'
    BY <1>1, <1>2, LoopAside DEF Inv, Search, Saved
  <1>5. RowsOK' /\ LastOK'
    BY RowsAside, LastAside DEF Inv, Search, Types
  <1>6. ASSUME NEW q \in Parties
        PROVE  TxOK(q)'
    <2>1. CASE q = u
      <3>1. KindOK(u)'
        BY <1>1, <1>2 DEF KindOK
      <3> QED
        BY <2>1, <3>1, <1>1, <1>2, Fresh
    <2>2. CASE q # u
      BY <1>2, <2>2, Aside DEF Inv, Types, Search
    <2> QED  BY <2>1, <2>2
  <1> QED
    BY <1>3, <1>4, <1>5, <1>6 DEF Inv

LEMMA EditInv ==
  ASSUME Inv, NEW u \in Users, NEW l \in Leads, NEW status \in Targets, NEW reason \in Reasons,
         Edit(u, l, status, reason)
  PROVE  Inv'
  <1>1. <<l>> \in Seq(Leads)
    OBVIOUS
  <1> QED
    BY <1>1, UserBegins DEF Edit

LEMMA BulkEditInv ==
  ASSUME Inv, NEW u \in Users, NEW leads \in BulkOrders, NEW status \in Targets,
         BulkEdit(u, leads, status)
  PROVE  Inv'
  BY UserBegins, AskAssumption DEF BulkEdit

-----------------------------------------------------------------------------
(* Transactions.                                                           *)

\* A transaction is rolled back.  The worker says itself where it goes on.
LEMMA RolledBack ==
  ASSUME Inv, NEW p \in Parties, Rollback(p), UNCHANGED <<lead, raced, round>>,
         NEW q \in Parties, q # Worker \/ q = p \/ UNCHANGED loop
  PROVE  TxOK(q)'
  <1>1. /\ tx' \in [Parties -> Txs] /\ holder' \in [Leads -> Parties \cup {Nobody}]
        /\ tx'[p] = NoTx /\ \A r \in Parties \ {p} : tx'[r] = tx[r]
        /\ \A l \in Leads : holder[l] # p => holder'[l] = holder[l]
    BY RollbackType DEF Inv
  <1>2. CASE q = p
    <2>1. KindOK(p)'
      BY <1>1, NoTxType DEF KindOK
    <2> QED
      BY <1>1, <1>2, <2>1, NoTxType, Fresh
  <1>3. CASE q # p
    BY <1>1, <1>3, Aside DEF Inv, Types
  <1> QED  BY <1>2, <1>3

LEMMA RefusedInv ==
  ASSUME Inv, NEW p \in Users, Rollback(p), UNCHANGED <<lead, raced, Search, Bounds>>
  PROVE  Inv'
  <1>1. p \in Parties /\ p # Worker /\ Worker \in Parties
    BY PartyAssumption DEF Parties
  <1>2. /\ tx' \in [Parties -> Txs] /\ holder' \in [Leads -> Parties \cup {Nobody}]
        /\ tx'[p] = NoTx /\ \A q \in Parties \ {p} : tx'[q] = tx[q]
    BY <1>1, RollbackType DEF Inv
  <1>3. Types'
    BY <1>2 DEF Inv, Types, Search, Bounds
  <1>4. LoopOK'
    BY <1>1, <1>2, LoopAside DEF Inv, Search, Saved
  <1>5. RowsOK' /\ LastOK'
    BY RowsAside, LastAside DEF Inv, Search, Types, Bounds
  <1>6. \A q \in Parties : TxOK(q)'
    BY <1>1, RolledBack DEF Search, Bounds
  <1> QED
    BY <1>3, <1>4, <1>5, <1>6 DEF Inv

\* A row is read, and will be written next.
LEMMA RowRead ==
  ASSUME Inv, NEW p \in Parties, tx[p].kind # "none", tx[p].at = "read", tx[p].todo # <<>>,
         tx[p].kind = "save" \/ ~Refused(tx[p], Visible(p, Head(tx[p].todo))),
         tx' = [tx EXCEPT ![p].read = Visible(p, Head(tx[p].todo)), ![p].at = "write"],
         UNCHANGED <<holder, lead, raced, Search, Bounds>>
  PROVE  Inv'
  <1> DEFINE l == Head(tx[p].todo)
  <1>1. tx[p] \in Txs /\ l \in Leads
    <2>1. tx[p] \in Txs /\ tx[p].todo \in Seq(Leads)
      BY DEF Inv, Types, Txs
    <2> QED
      BY <2>1, HeadOfTodo
  <1>2. PICK row \in Lead : row = Visible(p, l)
    BY <1>1, VisibleType DEF Inv
  <1>3. PICK new \in Txs : new = [tx[p] EXCEPT !.read = row, !.at = "write"]
    BY <1>1 DEF Txs
  <1>4. /\ new.kind = tx[p].kind /\ new.todo = tx[p].todo /\ new.read = row /\ new.at = "write"
        /\ new.writes = tx[p].writes /\ new.status = tx[p].status /\ new.reason = tx[p].reason
    BY <1>1, <1>3 DEF Txs
  <1>5. tx' = [tx EXCEPT ![p] = new]
    BY <1>2, <1>3 DEF Inv, Types
  <1>6. tx' \in [Parties -> Txs] /\ tx'[p] = new /\ \A q \in Parties \ {p} : tx'[q] = tx[q]
    BY <1>5 DEF Inv, Types
  <1>7. Types'
    BY <1>6 DEF Inv, Types, Search, Bounds
  <1>8. LoopOK'
    <2>1. tx'[Worker].kind = tx[Worker].kind /\ tx'[Worker].todo = tx[Worker].todo
          /\ tx'[Worker].writes = tx[Worker].writes
      BY <1>4, <1>6 DEF Parties
    <2> QED
      BY <2>1 DEF Inv, LoopOK, Search, Saved, Paid, Keyword
  <1>9. RowsOK' /\ LastOK'
    BY RowsAside, LastAside DEF Inv, Search, Types, Bounds
  <1>10. TxOK(p)'
    <2>1. TxOK(p)
      BY DEF Inv
    <2>2. KindOK(p)'
      BY <1>4, <1>6, <2>1 DEF TxOK, KindOK
    <2>3. \A x \in DOMAIN tx'[p].writes : WriteOK(p, x)'
      BY <1>4, <1>6, <2>1 DEF TxOK, WriteOK, Keyword, Search, Bounds
    <2>4. Visible(p, Head(tx[p].todo))' = row
      BY <1>2, <1>4, <1>6 DEF Visible
    <2>5. ReadOK(p)'
      <3>1. p # Worker => tx[p].kind # "save"
        BY <2>1 DEF TxOK, KindOK
      <3>2. p # Worker => ~Refused(tx[p], row)
        BY <1>2, <3>1
      <3>3. p # Worker => ~Refused(new, row) /\ row.status # "none"
        BY <1>4, <3>2 DEF Refused
      <3>4. tx'[p].read = row /\ tx'[p] = new
        BY <1>4, <1>6
      <3>5. p # Worker => ~Refused(tx[p], tx[p].read)'
        BY <3>3, <3>4 DEF Refused, MayMove
      <3> QED
        BY <2>4, <3>3, <3>4, <3>5 DEF ReadOK
    <2> QED
      BY <2>2, <2>3, <2>5 DEF TxOK
  <1>11. ASSUME NEW q \in Parties, q # p
         PROVE  TxOK(q)'
    BY <1>6, <1>11, Aside DEF Inv, Types, Search, Bounds
  <1> QED
    BY <1>7, <1>8, <1>9, <1>10, <1>11 DEF Inv

LEMMA ReadInv ==
  ASSUME Inv, NEW p \in Parties, Read(p)
  PROVE  Inv'
  <1>1. CASE tx[p].kind # "save" /\ Refused(tx[p], Visible(p, Head(tx[p].todo)))
    <2>1. p # Worker
      BY <1>1 DEF Read, Inv, TxOK, KindOK
    <2>2. p \in Users
      BY <2>1 DEF Parties
    <2> QED
      BY <1>1, <2>2, RefusedInv DEF Read
  <1>2. CASE ~(tx[p].kind # "save" /\ Refused(tx[p], Visible(p, Head(tx[p].todo))))
    BY <1>2, RowRead DEF Read
  <1> QED  BY <1>1, <1>2

\* A change of status that the code allows keeps what users decided.
LEMMA MovesKeep ==
  ASSUME NEW from \in LeadStatus \cup {"none"}, NEW to \in LeadStatus \ {"blocked"}, MayMove(from, to)
  PROVE  DecisionKept(from, to)
  BY DEF MayMove, DecisionKept, LeadStatus

\* The row that an edit writes.
LEMMA EditedRow ==
  ASSUME NEW t \in Txs, NEW row \in Lead, NEW read \in Lead, t.kind # "save", ~Refused(t, read),
         row.status # "none"
  PROVE  \E new \in Lead :
           /\ new = Edited(t, row)
           /\ new.status # "none" /\ new.keywords = row.keywords /\ new.first = row.first /\ new.last = row.last
           /\ new.status = (IF t.status = Keep THEN row.status ELSE t.status)
           /\ row.status = read.status => DecisionKept(row.status, new.status)
  <1>1. PICK s \in LeadStatus : s = (IF t.status = Keep THEN row.status ELSE t.status)
    BY AskAssumption DEF Txs, Lead
  <1>2. \E b \in BOOLEAN : b = (IF t.reason = Keep THEN row.reason ELSE t.reason = "given")
    <2>1. CASE t.reason = Keep
      BY <2>1 DEF Lead
    <2>2. CASE t.reason # Keep /\ t.reason = "given"
      BY <2>2
    <2>3. CASE t.reason # Keep /\ t.reason # "given"
      BY <2>3
    <2> QED  BY <2>1, <2>2, <2>3
  <1>3. PICK b \in BOOLEAN : b = (IF t.reason = Keep THEN row.reason ELSE t.reason = "given")
    BY <1>2
  <1>4. Edited(t, row) = [row EXCEPT !.status = s, !.reason = b]
    BY <1>1, <1>3 DEF Edited, Lead
  <1>5. row.status = read.status => DecisionKept(row.status, s)
    <2>1. CASE t.status = Keep
      BY <1>1, <2>1 DEF DecisionKept
    <2>2. CASE t.status # Keep
      <3>1. MayMove(read.status, t.status)
        BY <2>2 DEF Refused
      <3>2. s = t.status /\ s \in LeadStatus \ {"blocked"} /\ read.status \in LeadStatus \cup {"none"}
        BY <1>1, <2>2, AskAssumption DEF Txs, Lead
      <3> QED
        BY <3>1, <3>2, MovesKeep
    <2> QED  BY <2>1, <2>2
  <1>6. [row EXCEPT !.status = s, !.reason = b] \in Lead /\ s # "none"
    BY DEF Lead, LeadStatus
  <1> QED
    BY <1>1, <1>4, <1>5, <1>6 DEF Lead

\* The row that a worker writes for a lead that its keyword k found.
LEMMA MergedRow ==
  ASSUME Types, NEW l \in Leads, NEW read \in Lead, NEW row \in Lead, NEW k \in Words, k = Keyword,
         read.keywords = row.keywords, read.first = row.first,
         read.status = "none" <=> row.status = "none", row.last <= round
  PROVE  \E new \in Lead :
           /\ new = Merged(l, read, row)
           /\ new.status # "none" /\ k \in new.keywords /\ row.keywords \subseteq new.keywords
           /\ row.status # "none" => new.first = row.first
           /\ row.status = read.status => DecisionKept(row.status, new.status)
           /\ new.last = round /\ new.last >= row.last
  <1>1. PICK s \in LeadStatus : s = KeptStatus(l, read)
    BY DEF KeptStatus, Discovered, Lead, LeadStatus
  <1>2. row.status = read.status => DecisionKept(row.status, s)
    BY <1>1 DEF KeptStatus, DecisionKept
  <1>3. PICK first \in 0..MaxRounds : first = (IF read.status = "none" THEN round ELSE read.first)
    BY DEF Types, Lead
  <1>4. KeptKeywords(read) = row.keywords \cup {k} /\ row.keywords \cup {k} \subseteq Words
    BY DEF KeptKeywords, Lead
  <1>5. PICK new \in Lead : new = [row EXCEPT !.status = s, !.keywords = row.keywords \cup {k},
                                              !.first = first, !.last = round]
    BY <1>4 DEF Lead, Types
  <1>6. new = Merged(l, read, row)
    BY <1>1, <1>3, <1>4, <1>5 DEF Merged
  <1>7. /\ new.status = s /\ new.keywords = row.keywords \cup {k} /\ new.first = first /\ new.last = round
    BY <1>5 DEF Lead
  <1> QED
    BY <1>1, <1>2, <1>3, <1>6, <1>7 DEF LeadStatus, Lead, Types

\* The row that p is about to write, and what it becomes.
LEMMA WrittenRow ==
  ASSUME Inv, NEW p \in Parties, tx[p].at = "write",
         NEW l \in Leads, l = Head(tx[p].todo), NEW row \in Lead, row = Visible(p, l)
  PROVE  \E new \in Lead :
           /\ new = IF tx[p].kind = "save" THEN Merged(l, tx[p].read, row) ELSE Edited(tx[p], row)
           /\ new.status # "none" /\ new.last <= round
           /\ row.status = tx[p].read.status => DecisionKept(row.status, new.status)
           /\ p # Worker => /\ row.status # "none" /\ new.status \in {row.status, tx[p].status}
                            /\ new.keywords = row.keywords
                            /\ new.first = row.first /\ new.last = row.last
           /\ p = Worker => /\ Keyword \in new.keywords /\ row.keywords \subseteq new.keywords
                            /\ row.status # "none" => new.first = row.first
                            /\ new.last >= row.last
  <1>1. tx[p] \in Txs /\ tx[p].read \in Lead /\ TxOK(p) /\ ReadOK(p) /\ KindOK(p)
    BY DEF Inv, Types, Txs, TxOK
  <1>2. row.last <= round
    <2>1. CASE l \in DOMAIN tx[p].writes
      BY <1>1, <2>1 DEF TxOK, WriteOK, Visible
    <2>2. CASE l \notin DOMAIN tx[p].writes
      BY <2>2 DEF Visible, Inv, LastOK
    <2> QED  BY <2>1, <2>2
  <1>3. CASE p # Worker
    <2>1. tx[p].kind # "save" /\ ~Refused(tx[p], tx[p].read) /\ row.status # "none"
      BY <1>1, <1>3 DEF KindOK, ReadOK
    <2>2. PICK new \in Lead :
            /\ new = Edited(tx[p], row)
            /\ new.status # "none" /\ new.keywords = row.keywords /\ new.first = row.first /\ new.last = row.last
            /\ new.status = (IF tx[p].status = Keep THEN row.status ELSE tx[p].status)
            /\ row.status = tx[p].read.status => DecisionKept(row.status, new.status)
      BY <1>1, <2>1, EditedRow
    <2> QED
      BY <1>2, <1>3, <2>1, <2>2
  <1>4. CASE p = Worker
    <2>1. tx[p].kind = "save"
      BY <1>1, <1>4, NoTxType DEF KindOK
    <2>2. loop.index \in 1..Len(Keywords)
      BY <1>4, <2>1 DEF Inv, LoopOK, Types, Loops
    <2>3. PICK k \in Words : k = Keyword
      BY <2>2, KeywordType DEF Keyword
    <2>4. /\ tx[p].read.keywords = row.keywords /\ tx[p].read.first = row.first
          /\ tx[p].read.status = "none" <=> row.status = "none"
      BY <1>1, <1>4 DEF ReadOK
    <2>5. PICK new \in Lead :
            /\ new = Merged(l, tx[p].read, row)
            /\ new.status # "none" /\ k \in new.keywords /\ row.keywords \subseteq new.keywords
            /\ row.status # "none" => new.first = row.first
            /\ row.status = tx[p].read.status => DecisionKept(row.status, new.status)
            /\ new.last = round /\ new.last >= row.last
      BY <1>1, <1>2, <2>3, <2>4, MergedRow DEF Inv
    <2> QED
      BY <1>4, <2>1, <2>3, <2>5 DEF Inv, Types
  <1> QED  BY <1>3, <1>4

LEMMA WriteInv ==
  ASSUME Inv, NEW p \in Parties, Write(p)
  PROVE  Inv'
  <1>1. tx[p] \in Txs /\ tx[p].todo \in Seq(Leads) /\ tx[p].todo # <<>> /\ tx[p].at = "write"
    BY DEF Write, Inv, Types, Txs, TxOK, KindOK
  <1>2. PICK l \in Leads : l = Head(tx[p].todo)
    BY <1>1, HeadOfTodo
  <1>3. PICK row \in Lead : row = Visible(p, l)
    BY VisibleType DEF Inv
  <1>4. PICK new \in Lead :
           /\ new = IF tx[p].kind = "save" THEN Merged(l, tx[p].read, row) ELSE Edited(tx[p], row)
           /\ new.status # "none" /\ new.last <= round
           /\ row.status = tx[p].read.status => DecisionKept(row.status, new.status)
           /\ p # Worker => /\ row.status # "none" /\ new.status \in {row.status, tx[p].status}
                            /\ new.keywords = row.keywords
                            /\ new.first = row.first /\ new.last = row.last
           /\ p = Worker => /\ Keyword \in new.keywords /\ row.keywords \subseteq new.keywords
                            /\ row.status # "none" => new.first = row.first
                            /\ new.last >= row.last
    BY <1>1, <1>2, <1>3, WrittenRow
  <1> DEFINE W == [x \in DOMAIN tx[p].writes \cup {l} |-> IF x = l THEN new ELSE tx[p].writes[x]]
  <1>5. /\ holder[l] \in {Nobody, p} /\ holder' = [holder EXCEPT ![l] = p]
        /\ tx' = [tx EXCEPT ![p].at = "read", ![p].read = NoLead, ![p].todo = Tail(@), ![p].writes = W]
        /\ raced' = IF row.status # tx[p].read.status THEN raced \cup {l} ELSE raced
        /\ UNCHANGED <<lead, Search, Bounds>>
    BY <1>2, <1>3, <1>4 DEF Write, Inv, Types
  <1>6. W \in UNION {[S -> Lead] : S \in SUBSET Leads} /\ DOMAIN W = DOMAIN tx[p].writes \cup {l}
    <2>1. DOMAIN tx[p].writes \subseteq Leads /\ tx[p].writes \in [DOMAIN tx[p].writes -> Lead]
      BY WritesType DEF Inv
    <2>2. W \in [DOMAIN tx[p].writes \cup {l} -> Lead]
      BY <2>1
    <2> QED
      BY <2>1, <2>2
  <1>7. W[l] = new /\ \A x \in DOMAIN tx[p].writes : x # l => W[x] = tx[p].writes[x]
    OBVIOUS
  <1>8. Tail(tx[p].todo) \in Seq(Leads) /\ ToSet(tx[p].todo) = {l} \cup ToSet(Tail(tx[p].todo))
    BY <1>1, <1>2, HeadOfTodo
  <1> HIDE DEF W
  <1>9. PICK t \in Txs : t = [tx[p] EXCEPT !.at = "read", !.read = NoLead, !.todo = Tail(tx[p].todo), !.writes = W]
    BY <1>1, <1>6, <1>8, NoLeadType DEF Txs
  <1>10. /\ t.kind = tx[p].kind /\ t.at = "read" /\ t.todo = Tail(tx[p].todo) /\ t.writes = W
         /\ t.status = tx[p].status
    BY <1>1, <1>9 DEF Txs
  <1>11. tx' = [tx EXCEPT ![p] = t]
    BY <1>5, <1>9 DEF Inv, Types
  <1>12. tx' \in [Parties -> Txs] /\ tx'[p] = t /\ \A q \in Parties \ {p} : tx'[q] = tx[q]
    BY <1>11 DEF Inv, Types
  <1>13. Types'
    BY <1>5, <1>12 DEF Inv, Types, Search, Bounds
  <1>14. LoopOK'
    <2>1. /\ tx'[Worker].kind = tx[Worker].kind
          /\ ToSet(tx[Worker].todo) \cup DOMAIN tx[Worker].writes
               = ToSet(tx'[Worker].todo) \cup DOMAIN tx'[Worker].writes
      BY <1>6, <1>8, <1>10, <1>12 DEF Parties
    <2> QED
      BY <1>5, <2>1 DEF Inv, LoopOK, Search, Saved, Paid, Keyword
  <1>15. RowsOK' /\ LastOK'
    BY <1>5, RowsAside, LastAside DEF Inv, Search, Types, Bounds
  <1>16. TxOK(p)'
    <2>1. TxOK(p)
      BY DEF Inv
    <2>2. KindOK(p)'
      BY <1>10, <1>12, <2>1, <1>1, NoTxType DEF TxOK, KindOK
    <2>3. ASSUME NEW x \in DOMAIN tx[p].writes, x # l
          PROVE  WriteOK(p, x)'
      <3>1. WriteOK(p, x) /\ x \in Leads /\ tx'[p].writes[x] = tx[p].writes[x] /\ tx'[p].status = tx[p].status
        BY <1>7, <1>10, <1>12, <2>1, <2>3, WritesType DEF TxOK, Inv
      <3>2. holder'[x] = holder[x] /\ (x \notin raced' => x \notin raced)
        BY <1>5, <2>3, <3>1 DEF Inv, Types
      <3> QED
        BY <1>5, <3>1, <3>2 DEF WriteOK, DecisionKept, Keyword, Search, Bounds
    <2>4. WriteOK(p, l)'
      <3>1. holder'[l] = p /\ tx'[p].writes[l] = new /\ tx'[p].status = tx[p].status
        BY <1>5, <1>7, <1>10, <1>12 DEF Inv, Types
      <3>2. lead[l] \in Lead /\ new.last \in Nat /\ row.last \in Nat /\ lead[l].last \in Nat
        BY DEF Inv, Types, Lead
      <3>3. CASE l \in DOMAIN tx[p].writes
        <4>1. WriteOK(p, l) /\ row = tx[p].writes[l]
          BY <1>3, <2>1, <3>3 DEF TxOK, Visible
        <4>2. l \notin raced' => DecisionKept(lead[l].status, new.status)
          <5>1. SUFFICES ASSUME l \notin raced'
                         PROVE  DecisionKept(lead[l].status, new.status)
            OBVIOUS
          <5>2. row.status = tx[p].read.status /\ l \notin raced
            BY <1>5, <5>1
          <5>3. DecisionKept(lead[l].status, row.status) /\ DecisionKept(row.status, new.status)
            BY <1>4, <4>1, <5>2 DEF WriteOK
          <5>4. CASE p = Worker
            <6>1. new.status = row.status
              <7>1. tx[p].kind = "save"
                BY <2>1, <5>4, <1>1, NoTxType DEF TxOK, KindOK
              <7>2. new.status = KeptStatus(l, tx[p].read)
                BY <1>4, <7>1 DEF Merged, Lead
              <7> QED
                BY <4>1, <5>2, <7>2 DEF KeptStatus, WriteOK
            <6> QED  BY <5>3, <6>1
          <5>5. CASE p # Worker
            <6>1. row.status \in {lead[l].status, tx[p].status} /\ new.status \in {row.status, tx[p].status}
              BY <1>4, <4>1, <5>5 DEF WriteOK
            <6>2. CASE new.status = row.status
              BY <5>3, <6>2
            <6>3. CASE row.status = lead[l].status
              BY <5>3, <6>3
            <6> QED  BY <6>1, <6>2, <6>3
          <5> QED  BY <5>4, <5>5
        <4>3. p # Worker => /\ lead[l].status # "none" /\ new.status \in {lead[l].status, tx[p].status}
                            /\ new.keywords = lead[l].keywords
                            /\ new.first = lead[l].first /\ new.last = lead[l].last
          BY <1>4, <4>1 DEF WriteOK
        <4>4. p = Worker => /\ Keyword \in new.keywords
                            /\ lead[l].status # "none" => /\ lead[l].keywords \subseteq new.keywords
                                                         /\ new.first = lead[l].first /\ new.last >= lead[l].last
          BY <1>4, <3>2, <4>1 DEF WriteOK
        <4> QED
          BY <1>4, <1>5, <3>1, <4>2, <4>3, <4>4 DEF WriteOK, DecisionKept, Keyword, Search, Bounds
      <3>4. CASE l \notin DOMAIN tx[p].writes
        <4>1. row = lead[l]
          BY <1>3, <3>4 DEF Visible
        <4>2. l \notin raced' => DecisionKept(lead[l].status, new.status)
          BY <1>4, <1>5, <4>1
        <4> QED
          BY <1>4, <1>5, <3>1, <3>2, <4>1, <4>2 DEF WriteOK, DecisionKept, Keyword, Search, Bounds
      <3> QED  BY <3>3, <3>4
    <2> QED
      BY <1>6, <1>10, <1>12, <2>2, <2>3, <2>4 DEF TxOK
  <1>17. ASSUME NEW q \in Parties, q # p
         PROVE  TxOK(q)'
    <2>1. \A x \in Leads : holder[x] = q => holder'[x] = q
      BY <1>5, <1>17, PartyAssumption DEF Inv, Types
    <2>2. raced \subseteq raced'
      BY <1>5
    <2> QED
      BY <1>5, <1>12, <1>17, <2>1, <2>2, Aside DEF Inv, Types, Search, Bounds
  <1> QED
    BY <1>13, <1>14, <1>15, <1>16, <1>17 DEF Inv

\* What a commit makes of a row.
LEMMA CommittedRow ==
  ASSUME Inv, NEW p \in Parties, Commit(p), NEW l \in Leads
  PROVE  /\ lead'[l] \in Lead /\ lead'[l].last <= round
         /\ lead[l].status # "none" =>
              /\ lead'[l].status # "none" /\ lead[l].keywords \subseteq lead'[l].keywords
              /\ lead'[l].first = lead[l].first /\ lead'[l].last >= lead[l].last
         /\ l \notin raced => DecisionKept(lead[l].status, lead'[l].status)
         /\ p # Worker => /\ lead[l].status = "none" <=> lead'[l].status = "none"
                          /\ lead'[l].keywords = lead[l].keywords /\ lead'[l].first = lead[l].first
         /\ holder[l] # p => lead'[l] = lead[l]
         /\ l \in DOMAIN tx[p].writes => lead'[l] = tx[p].writes[l]
  <1>1. lead'[l] = Visible(p, l) /\ Visible(p, l) \in Lead
    BY VisibleType DEF Commit, Inv
  <1>2. lead[l] \in Lead /\ lead[l].last \in Nat
    BY DEF Inv, Types, Lead
  <1>3. CASE l \in DOMAIN tx[p].writes
    <2>1. WriteOK(p, l) /\ lead'[l] = tx[p].writes[l]
      BY <1>1, <1>3 DEF Inv, TxOK, Visible
    <2>2. CASE p = Worker
      BY <1>1, <1>2, <2>1, <2>2 DEF WriteOK
    <2>3. CASE p # Worker
      BY <1>1, <1>2, <2>1, <2>3 DEF WriteOK
    <2> QED  BY <2>2, <2>3
  <1>4. CASE l \notin DOMAIN tx[p].writes
    <2>1. lead'[l] = lead[l]
      BY <1>1, <1>4 DEF Visible
    <2> QED
      BY <1>2, <1>4, <2>1 DEF Inv, LastOK, DecisionKept
  <1> QED  BY <1>3, <1>4

\* Transactions that stay open when p commits.
LEMMA CommitElsewhere ==
  ASSUME Inv, NEW p \in Parties, Commit(p), NEW q \in Parties, q # p
  PROVE  TxOK(q)'
  <1>1. tx'[q] = tx[q] /\ (\A l \in Leads : holder[l] # p => holder'[l] = holder[l])
    BY RollbackType DEF Commit, Inv
  <1>2. TxOK(q) /\ raced' = raced /\ round' = round /\ (p # Worker => loop' = loop)
    BY DEF Inv, Commit, Bounds
  <1>3. KindOK(q)'
    BY <1>1, <1>2 DEF TxOK, KindOK
  <1>4. ASSUME NEW l \in DOMAIN tx[q].writes
        PROVE  WriteOK(q, l)'
    <2>1. WriteOK(q, l) /\ l \in Leads
      BY <1>2, WritesType DEF TxOK, Inv
    <2>2. holder'[l] = q /\ lead'[l] = lead[l]
      BY <1>1, <2>1, CommittedRow DEF WriteOK
    <2>3. CASE q = Worker
      BY <1>1, <1>2, <2>1, <2>2, <2>3 DEF WriteOK, DecisionKept, Keyword
    <2>4. CASE q # Worker
      BY <1>1, <1>2, <2>1, <2>2, <2>4 DEF WriteOK, DecisionKept
    <2> QED  BY <2>3, <2>4
  <1>5. ASSUME tx[q].at = "write"
        PROVE  ReadOK(q)'
    <2>1. ReadOK(q) /\ tx[q].todo \in Seq(Leads) /\ tx[q].todo # <<>>
      BY <1>2, <1>5 DEF TxOK, KindOK, Inv, Types, Txs
    <2>2. PICK l \in Leads : l = Head(tx[q].todo)
      BY <2>1, HeadOfTodo
    <2>3. PICK row \in Lead : row = Visible(q, l)
      BY VisibleType DEF Inv
    <2>4. PICK after : after = IF l \in DOMAIN tx[q].writes THEN row ELSE lead'[l]
      OBVIOUS
    <2>5. after = Visible(q, Head(tx[q].todo))'
      BY <1>1, <2>2, <2>3, <2>4 DEF Visible
    <2>6. /\ row.status # "none" => after.status # "none"
          /\ q = Worker => /\ row.status = "none" <=> after.status = "none"
                           /\ after.keywords = row.keywords /\ after.first = row.first
      <3>1. CASE l \in DOMAIN tx[q].writes
        BY <2>4, <3>1
      <3>2. CASE l \notin DOMAIN tx[q].writes
        BY <1>2, <2>3, <2>4, <3>2, CommittedRow DEF Visible
      <3> QED  BY <3>1, <3>2
    <2>7. q # Worker => ~Refused(tx[q], tx[q].read) /\ after.status # "none"
      BY <2>1, <2>2, <2>3, <2>6 DEF ReadOK
    <2>8. q = Worker => /\ tx[q].read.keywords = after.keywords /\ tx[q].read.first = after.first
                        /\ tx[q].read.status = "none" <=> after.status = "none"
      BY <2>1, <2>2, <2>3, <2>6 DEF ReadOK
    <2>9. (~Refused(tx[q], tx[q].read))' <=> ~Refused(tx[q], tx[q].read)
      BY <1>1 DEF Refused, MayMove
    <2> QED
      BY <1>1, <2>5, <2>7, <2>8, <2>9 DEF ReadOK
  <1> QED
    BY <1>1, <1>3, <1>4, <1>5 DEF TxOK

LEMMA CommitInv ==
  ASSUME Inv, NEW p \in Parties, Commit(p)
  PROVE  Inv'
  <1>1. /\ tx' \in [Parties -> Txs] /\ holder' \in [Leads -> Parties \cup {Nobody}]
        /\ tx'[p] = NoTx /\ \A q \in Parties \ {p} : tx'[q] = tx[q]
    BY RollbackType DEF Commit, Inv
  <1>2. lead' \in [Leads -> Lead] /\ LastOK'
    <2>1. lead' = [l \in Leads |-> Visible(p, l)]
      BY DEF Commit
    <2> QED
      BY <2>1, CommittedRow, VisibleType DEF LastOK, Inv, Commit, Bounds
  <1>3. \A l \in Leads, k \in Words : Saved(l, k) => lead'[l].status # "none" /\ k \in lead'[l].keywords
    BY CommittedRow DEF Saved
  <1>4. TxOK(p)'
    <2>1. KindOK(p)'
      BY <1>1, NoTxType DEF KindOK
    <2> QED
      BY <1>1, <2>1, NoTxType, Fresh
  <1>5. \A q \in Parties : TxOK(q)'
    BY <1>4, CommitElsewhere
  <1>6. CASE p # Worker
    <2>1. UNCHANGED <<loop, rows, got, usage, reviewed, raced, round, edits, faults>> /\ Worker \in Parties
      BY <1>6 DEF Commit, Bounds, Parties
    <2>2. Types'
      BY <1>1, <1>2, <2>1 DEF Inv, Types
    <2>3. RowsOK'
      BY <1>3, <2>1 DEF Inv, RowsOK, Saved, Paid, Types
    <2>4. LoopOK'
      BY <1>1, <1>3, <1>6, <2>1, LoopAside DEF Inv, Saved
    <2> QED
      BY <1>2, <1>5, <2>2, <2>3, <2>4 DEF Inv
  <1>7. CASE p = Worker
    <2>1. loop.phase = "save" /\ tx[p].kind = "save"
      BY <1>7, NoTxType DEF Commit, Inv, LoopOK, TxOK, KindOK
    <2>2. loop.index \in 1..Len(Keywords)
      BY <2>1 DEF Inv, LoopOK, Types, Loops
    <2>3. PICK k \in Words : k = Keyword
      BY <2>2, KeywordType DEF Keyword
    <2>4. /\ usage' = IF reviewed THEN [usage EXCEPT ![k] = 1] ELSE usage
          /\ loop' = [loop EXCEPT !.phase = "mark"]
          /\ UNCHANGED <<rows, got, reviewed, raced, round, edits, faults>>
      BY <1>7, <2>3 DEF Commit, Billed, Bounds
    <2>5. loop' \in Loops /\ loop'.phase = "mark" /\ loop'.index = loop.index
      BY <2>4 DEF Inv, Types, Loops
    <2>6. Types'
      BY <1>1, <1>2, <2>4, <2>5 DEF Inv, Types
    <2>7. RowsOK'
      BY <1>3, <2>4 DEF Inv, RowsOK, Saved, Paid, Types
    <2>8. \A l \in got[k] : lead'[l].status # "none" /\ k \in lead'[l].keywords
      <3>1. ToSet(tx[p].todo) = {}
        BY DEF Commit, ToSet
      <3>2. ASSUME NEW l \in got[k]
            PROVE  lead'[l].status # "none" /\ k \in lead'[l].keywords
        <4>1. l \in DOMAIN tx[p].writes /\ l \in Leads
          BY <1>7, <2>1, <2>3, <3>1 DEF Inv, LoopOK, Types
        <4> QED
          BY <1>7, <2>3, <4>1, CommittedRow DEF Inv, TxOK, WriteOK
      <3> QED  BY <3>2
    <2>9. Keyword' = k /\ tx'[Worker].kind = "none"
      BY <1>1, <1>7, <2>3, <2>5, NoTxType DEF Keyword
    <2>10. rows'[k] = "running" /\ Paid(k)' /\ got'[k] = got[k]
      <3>1. rows'[k] = "running" /\ got'[k] = got[k] /\ usage[k] \in 0..1 /\ (usage[k] = 1 => reviewed)
        BY <2>1, <2>3, <2>4 DEF Inv, LoopOK, RowsOK, Types
      <3>2. ASSUME reviewed  PROVE  Paid(k)'
        <4>1. usage'[k] = 1
          BY <2>4, <3>2 DEF Inv, Types
        <4>2. reviewed'
          BY <2>4, <3>2, Zenon
        <4> QED
          BY <4>1, <4>2, Zenon DEF Paid
      <3>3. ASSUME ~reviewed  PROVE  Paid(k)'
        <4>1. usage[k] = 0
          BY <3>1, <3>3
        <4>2. usage' = usage /\ ~reviewed'
          BY <2>4, <3>3, Zenon
        <4> QED
          BY <4>1, <4>2, Zenon DEF Paid
      <3> QED
        BY <3>1, <3>2, <3>3
    <2>11. LoopOK'
      BY <2>2, <2>5, <2>8, <2>9, <2>10 DEF Inv, LoopOK, Saved, Paid, Types, Loops
    <2> QED
      BY <1>2, <1>5, <2>6, <2>7, <2>11 DEF Inv
  <1> QED  BY <1>6, <1>7

-----------------------------------------------------------------------------
(* The worker.                                                             *)

\* The worker goes on while it has no transaction; those of users stay as they are.
LEMMA BetweenSaves ==
  ASSUME Inv, loop.phase # "save", UNCHANGED Table, round' \in Nat, round <= round', NEW q \in Parties
  PROVE  TxOK(q)'
  <1>1. CASE q = Worker
    <2>1. tx[q] = NoTx
      BY <1>1 DEF Inv, LoopOK, TxOK, KindOK, Txs, Types
    <2>2. KindOK(q)'
      BY <1>1, <2>1, NoTxType DEF KindOK, Table
    <2> QED
      BY <2>1, <2>2, NoTxType, Fresh DEF Table
  <1>2. CASE q # Worker
    BY <1>2, Aside DEF Inv, Table, Types
  <1> QED  BY <1>1, <1>2

LEMMA NoSaveOpen ==
  ASSUME Inv, loop.phase # "save"
  PROVE  tx[Worker].kind # "save" /\ Worker \in Parties
  BY DEF Inv, LoopOK, Parties

\* The worker goes on to its next keyword.
LEMMA LoopGoesOn ==
  ASSUME NEW from \in Loops, from.index \in 1..Len(Keywords), NEW seen \in SUBSET Contents, NEW to,
         to = [from EXCEPT !.phase = "keyword", !.index = @ + 1, !.seen = seen]
  PROVE  to \in Loops /\ to.phase = "keyword"
  <1>1. from.index + 1 \in 1..Len(Keywords) + 1
    BY LenKeywords
  <1> QED
    BY <1>1 DEF Loops

\* The worker is before its first keyword.
LEMMA LoopStarts ==
  ASSUME NEW phase \in {"idle", "keyword"}, NEW to, to = [NoLoop EXCEPT !.phase = phase]
  PROVE  to \in Loops /\ to.phase = phase
  <1>1. \A index \in 1..Len(Keywords) + 1, seen \in SUBSET Contents, done \in BOOLEAN :
          [phase |-> phase, index |-> index, seen |-> seen, done |-> done] \in Loops
    BY DEF Loops
  <1>2. 1 \in 1..Len(Keywords) + 1 /\ {} \in SUBSET Contents /\ FALSE \in BOOLEAN
    BY LenKeywords
  <1>3. to = [phase |-> phase, index |-> 1, seen |-> {}, done |-> FALSE]
    BY Zenon DEF NoLoop
  <1> QED
    BY <1>1, <1>2, <1>3, Zenon

LEMMA NoLoopType == NoLoop \in Loops /\ NoLoop.phase = "idle"
  <1>1. NoLoop = [NoLoop EXCEPT !.phase = "idle"]
    BY DEF NoLoop
  <1> QED
    BY <1>1, LoopStarts

LEMMA StartExecutionInv ==
  ASSUME Inv, StartExecution
  PROVE  Inv'
  <1>1. round' = round + 1 /\ round \in 0..MaxRounds /\ round' \in 0..MaxRounds
    BY BoundAssumption DEF StartExecution, Inv, Types
  <1>2. loop' \in Loops /\ loop'.phase = "keyword"
    BY LoopStarts DEF StartExecution
  <1>3. Types'
    BY <1>1, <1>2 DEF StartExecution, Table, Inv, Types
  <1>4. LoopOK'
    BY <1>2, NoSaveOpen DEF LoopOK, StartExecution, Table
  <1>5. RowsOK'
    BY DEF RowsOK, StartExecution
  <1>6. LastOK'
    BY <1>1, LastAside DEF Inv, StartExecution, Table
  <1>7. \A q \in Parties : TxOK(q)'
    BY <1>1, BetweenSaves DEF StartExecution
  <1> QED
    BY <1>3, <1>4, <1>5, <1>6, <1>7 DEF Inv

LEMMA MarkInv ==
  ASSUME Inv, Mark
  PROVE  Inv'
  <1>1. loop.index \in 1..Len(Keywords) 
    BY DEF Mark, Inv, LoopOK, Types, Loops
  <1>2. PICK k \in Words : k = Keyword
    BY <1>1, KeywordType DEF Keyword
  <1>3. rows' = [rows EXCEPT ![k] = "completed"] /\ UNCHANGED <<Table, got, usage, reviewed, Bounds>>
    BY <1>2 DEF Mark, NextKeyword
  <1>4. loop' = [loop EXCEPT !.phase = "keyword", !.index = @ + 1]
    BY DEF Mark, NextKeyword
  <1>5. loop' \in Loops /\ loop'.phase = "keyword"
    <2>1. loop \in Loops /\ loop.seen \in SUBSET Contents
      BY DEF Inv, Types, Loops
    <2>2. loop' = [loop EXCEPT !.phase = "keyword", !.index = @ + 1, !.seen = loop.seen]
      BY <1>4, <2>1 DEF Loops
    <2> QED
      BY <1>1, <2>1, <2>2, LoopGoesOn
  <1>6. Types'
    BY <1>3, <1>5 DEF Inv, Types, Table, Bounds
  <1>7. LoopOK'
    BY <1>3, <1>5, NoSaveOpen DEF LoopOK, Mark, Table
  <1>8. RowsOK'
    <2>1. Paid(k) /\ \A l \in got[k] : Saved(l, k)
      BY <1>2 DEF Mark, Inv, LoopOK
    <2> QED
      BY <1>3, <2>1 DEF Inv, RowsOK, Saved, Paid, Table, Types
  <1>9. LastOK' /\ \A q \in Parties : TxOK(q)'
    BY <1>3, LastAside, BetweenSaves DEF Mark, Inv, Table, Bounds, Types
  <1> QED
    BY <1>6, <1>7, <1>8, <1>9 DEF Inv

LEMMA RunKeywordInv ==
  ASSUME Inv, RunKeyword
  PROVE  Inv'
  <1>1. loop.index \in 1..Len(Keywords) /\ loop.phase = "keyword"
    BY DEF RunKeyword, Inv, LoopOK, Types, Loops
  <1>2. PICK k \in Words : k = Keyword
    BY <1>1, KeywordType DEF Keyword
  <1>3. PICK found \in SUBSET (Finds[k] \ loop.seen) :
          \/ /\ got' = [got EXCEPT ![k] = ToSet(ReportOf[found])]
             /\ rows' = [rows EXCEPT ![k] = "running"]
             /\ loop' = [loop EXCEPT !.phase = "save", !.seen = loop.seen \cup found, !.done = TRUE]
             /\ Begin(Worker, "save", ReportOf[found], Keep, Keep)
             /\ UNCHANGED faults
          \/ /\ Fault
             /\ rows' = [rows EXCEPT ![k] = "failed"]
             /\ loop' = [loop EXCEPT !.index = loop.index + 1, !.seen = loop.seen \cup found]
             /\ UNCHANGED <<tx, got>>
    BY <1>2 DEF RunKeyword, RowOfResult
  <1>4. UNCHANGED <<lead, holder, raced, usage, reviewed, round, edits>>
    BY DEF RunKeyword
  <1>5. found \in SUBSET Contents /\ loop.seen \cup found \in SUBSET Contents
    BY FindAssumption DEF Inv, Types, Loops
  <1>6. LastOK' /\ Worker \in Parties
    BY <1>4, LastAside DEF Inv, Types, Parties
  <1>7. CASE /\ got' = [got EXCEPT ![k] = ToSet(ReportOf[found])]
             /\ rows' = [rows EXCEPT ![k] = "running"]
             /\ loop' = [loop EXCEPT !.phase = "save", !.seen = loop.seen \cup found, !.done = TRUE]
             /\ Begin(Worker, "save", ReportOf[found], Keep, Keep)
             /\ UNCHANGED faults
    <2>1. PICK report \in Seq(Leads) : report = ReportOf[found]
      BY <1>5, FindAssumption
    <2>2. ToSet(report) \subseteq Leads
      BY DEF ToSet
    <2>3. /\ tx' \in [Parties -> Txs]
          /\ tx'[Worker].kind = "save" /\ tx'[Worker].todo = report /\ tx'[Worker].at = "read"
          /\ DOMAIN tx'[Worker].writes = {}
          /\ \A q \in Parties \ {Worker} : tx'[q] = tx[q]
      BY <1>6, <1>7, <2>1, BeginType DEF Inv
    <2>4. loop' \in Loops /\ loop'.phase = "save" /\ loop'.index = loop.index
      BY <1>5, <1>7 DEF Inv, Types, Loops
    <2>5. Types'
      BY <1>4, <1>7, <2>1, <2>2, <2>3, <2>4 DEF Inv, Types
    <2>6. Keyword' = k /\ rows'[k] = "running" /\ got'[k] = ToSet(report)
      BY <1>2, <1>7, <2>1, <2>4 DEF Keyword, Inv, Types
    <2>7. LoopOK'
      BY <1>1, <2>3, <2>4, <2>6 DEF LoopOK
    <2>8. RowsOK'
      BY <1>4, <1>7 DEF Inv, RowsOK, Saved, Paid, Types
    <2>9. ASSUME NEW q \in Parties
          PROVE  TxOK(q)'
      <3>1. CASE q = Worker
        <4>1. KindOK(q)'
          BY <2>3, <3>1 DEF KindOK
        <4> QED
          BY <2>3, <3>1, <4>1, Fresh
      <3>2. CASE q # Worker
        BY <1>4, <2>3, <3>2, Aside DEF Inv, Types
      <3> QED  BY <3>1, <3>2
    <2> QED
      BY <1>6, <2>5, <2>7, <2>8, <2>9 DEF Inv
  <1>8. CASE /\ Fault
             /\ rows' = [rows EXCEPT ![k] = "failed"]
             /\ loop' = [loop EXCEPT !.index = loop.index + 1, !.seen = loop.seen \cup found]
             /\ UNCHANGED <<tx, got>>
    <2>1. loop' \in Loops /\ loop'.phase = "keyword"
      <3>1. loop \in Loops
        BY DEF Inv, Types
      <3>2. loop' = [loop EXCEPT !.phase = "keyword", !.index = @ + 1, !.seen = loop.seen \cup found]
        BY <1>1, <1>8, <3>1 DEF Loops
      <3> QED
        BY <1>1, <1>5, <3>1, <3>2, LoopGoesOn
    <2>2. Types'
      BY <1>4, <1>8, <2>1, BoundAssumption DEF Inv, Types, Fault
    <2>3. LoopOK'
      BY <1>1, <1>8, <2>1, NoSaveOpen DEF LoopOK
    <2>4. RowsOK'
      BY <1>4, <1>8, RowsAside DEF Inv, Types
    <2>5. \A q \in Parties : TxOK(q)'
      BY <1>1, <1>4, <1>8, BetweenSaves DEF Table, Inv, Types
    <2> QED
      BY <1>6, <2>2, <2>3, <2>4, <2>5 DEF Inv
  <1> QED
    BY <1>3, <1>7, <1>8

LEMMA EndExecutionInv ==
  ASSUME Inv, EndExecution
  PROVE  Inv'
  <1>1. loop' \in Loops /\ loop'.phase \in {"idle", "keyword"}
    BY LoopStarts, NoLoopType DEF EndExecution
  <1>2. /\ rows' \in [Words -> {"none", "running", "completed", "failed"}]
        /\ \A k \in Words : rows'[k] = "completed" => rows[k] = "completed"
    <2>1. CASE UNCHANGED rows
      BY <2>1 DEF Inv, Types
    <2>2. CASE rows' = [k \in Words |-> IF usage[k] = 0 THEN "none" ELSE rows[k]]
      BY <2>2 DEF Inv, Types
    <2> QED
      BY <2>1, <2>2 DEF EndExecution
  <1>3. UNCHANGED <<Table, got, usage, reviewed, Bounds>> /\ loop.phase = "keyword"
    BY DEF EndExecution
  <1>4. Types'
    BY <1>1, <1>2, <1>3 DEF Inv, Types, Table, Bounds
  <1>5. LoopOK'
    BY <1>1, <1>3, NoSaveOpen DEF LoopOK, Table
  <1>6. RowsOK'
    BY <1>2, <1>3, RowsAside DEF Inv, Table
  <1>7. LastOK' /\ \A q \in Parties : TxOK(q)'
    BY <1>3, LastAside, BetweenSaves DEF Inv, Table, Bounds, Types
  <1> QED
    BY <1>4, <1>5, <1>6, <1>7 DEF Inv

LEMMA CrashInv ==
  ASSUME Inv, Crash
  PROVE  Inv'
  <1>1. loop' \in Loops /\ loop'.phase = "keyword"
    BY LoopStarts DEF Crash
  <1>2. UNCHANGED <<lead, raced, rows, got, usage, reviewed, round, edits>> /\ Fault /\ Worker \in Parties
    BY DEF Crash, Parties
  <1>3. RowsOK' /\ LastOK'
    BY <1>2, RowsAside, LastAside DEF Inv, Types
  <1>4. /\ tx' \in [Parties -> Txs] /\ holder' \in [Leads -> Parties \cup {Nobody}]
        /\ tx'[Worker].kind # "save" /\ \A q \in Parties : TxOK(q)'
    <2>1. CASE tx[Worker] # NoTx
      <3>1. Rollback(Worker)
        BY <2>1 DEF Crash
      <3>2. /\ tx' \in [Parties -> Txs] /\ holder' \in [Leads -> Parties \cup {Nobody}]
            /\ tx'[Worker] = NoTx
        BY <1>2, <3>1, RollbackType DEF Inv
      <3>3. \A q \in Parties : TxOK(q)'
        BY <1>2, <3>1, RolledBack
      <3> QED
        BY <3>2, <3>3, NoTxType
    <2>2. CASE tx[Worker] = NoTx
      <3>1. UNCHANGED <<tx, holder>> /\ loop.phase # "save"
        BY <1>2, <2>2, NoTxType DEF Crash, Inv, LoopOK
      <3>2. \A q \in Parties : TxOK(q)'
        BY <1>2, <3>1, BetweenSaves DEF Table, Inv, Types
      <3> QED
        BY <2>2, <3>1, <3>2, NoTxType DEF Inv, Types
    <2> QED  BY <2>1, <2>2
  <1>5. Types'
    BY <1>1, <1>2, <1>4, BoundAssumption DEF Inv, Types, Fault
  <1>6. LoopOK'
    BY <1>1, <1>4 DEF LoopOK
  <1> QED
    BY <1>3, <1>4, <1>5, <1>6 DEF Inv

LEMMA AbortInv ==
  ASSUME Inv, NEW p \in Parties, Abort(p)
  PROVE  Inv'
  <1>1. /\ tx' \in [Parties -> Txs] /\ holder' \in [Leads -> Parties \cup {Nobody}]
        /\ tx'[p] = NoTx /\ \A q \in Parties \ {p} : tx'[q] = tx[q]
    BY RollbackType DEF Abort, Inv
  <1>2. UNCHANGED <<lead, raced, got, usage, reviewed, round, edits>> /\ faults' \in 0..MaxFaults
    BY BoundAssumption DEF Abort, Fault, Inv, Types
  <1>3. LastOK' /\ Worker \in Parties
    BY <1>2, LastAside DEF Inv, Types, Parties
  <1>4. CASE p # Worker
    <2>1. UNCHANGED <<rows, loop>>
      BY <1>4 DEF Abort
    <2>2. Types'
      BY <1>1, <1>2, <2>1 DEF Inv, Types
    <2>3. RowsOK' /\ LoopOK'
      BY <1>1, <1>2, <1>3, <1>4, <2>1, RowsAside, LoopAside DEF Inv, Saved
    <2>4. \A q \in Parties : TxOK(q)'
      BY <1>2, <2>1, RolledBack DEF Abort
    <2> QED
      BY <1>3, <2>2, <2>3, <2>4 DEF Inv
  <1>5. CASE p = Worker
    <2>1. loop.phase = "save"
      BY <1>5, NoTxType DEF Abort, Inv, LoopOK, TxOK, KindOK
    <2>2. loop.index \in 1..Len(Keywords)
      BY <2>1 DEF Inv, LoopOK, Types, Loops
    <2>3. PICK k \in Words : k = Keyword
      BY <2>2, KeywordType DEF Keyword
    <2>4. rows' = [rows EXCEPT ![k] = "failed"]
          /\ loop' = [loop EXCEPT !.phase = "keyword", !.index = @ + 1]
      BY <1>5, <2>3 DEF Abort, NextKeyword
    <2>5. loop' \in Loops /\ loop'.phase = "keyword"
      <3>1. loop \in Loops /\ loop.seen \in SUBSET Contents
        BY DEF Inv, Types, Loops
      <3>2. loop' = [loop EXCEPT !.phase = "keyword", !.index = @ + 1, !.seen = loop.seen]
        BY <2>4, <3>1 DEF Loops
      <3> QED
        BY <2>2, <3>1, <3>2, LoopGoesOn
    <2>6. Types'
      BY <1>1, <1>2, <2>4, <2>5 DEF Inv, Types
    <2>7. LoopOK'
      BY <1>1, <1>5, <2>5, NoTxType DEF LoopOK
    <2>8. RowsOK'
      BY <1>2, <2>4, RowsAside DEF Inv, Types
    <2>9. \A q \in Parties : TxOK(q)'
      BY <1>2, <1>5, RolledBack DEF Abort
    <2> QED
      BY <1>3, <2>6, <2>7, <2>8, <2>9 DEF Inv
  <1> QED  BY <1>4, <1>5

-----------------------------------------------------------------------------
(* The theorems.                                                           *)

LEMMA InvInit == Init => Inv
  <1> SUFFICES ASSUME Init
               PROVE  Inv
    OBVIOUS
  <1>1. \A p \in Parties : tx[p] = NoTx
    BY DEF Init
  <1>2. Types
    <2>1. loop \in Loops /\ reviewed \in BOOLEAN
      BY NoLoopType DEF Init
    <2> QED
      BY <2>1, NoTxType, NoLeadType, BoundAssumption DEF Init, Types
  <1>3. LoopOK
    BY <1>1, NoTxType DEF Init, LoopOK, NoLoop, Parties
  <1>4. RowsOK /\ LastOK
    BY DEF Init, RowsOK, LastOK, NoLead
  <1>5. \A p \in Parties : TxOK(p)
    BY <1>1, NoTxType DEF TxOK, KindOK
  <1> QED
    BY <1>2, <1>3, <1>4, <1>5 DEF Inv

LEMMA InvStep == Inv /\ [Next]_vars => Inv'
  <1> SUFFICES ASSUME Inv, [Next]_vars
               PROVE  Inv'
    OBVIOUS
  <1>1. CASE \E u \in Users, l \in Leads, status \in Targets, reason \in Reasons : Edit(u, l, status, reason)
    BY <1>1, EditInv
  <1>2. CASE \E u \in Users, leads \in BulkOrders, status \in Targets : BulkEdit(u, leads, status)
    BY <1>2, BulkEditInv
  <1>3. CASE \E p \in Parties : Read(p) \/ Write(p) \/ Commit(p) \/ Abort(p)
    BY <1>3, ReadInv, WriteInv, CommitInv, AbortInv
  <1>4. CASE StartExecution \/ RunKeyword \/ Mark \/ EndExecution \/ Crash
    BY <1>4, StartExecutionInv, RunKeywordInv, MarkInv, EndExecutionInv, CrashInv
  <1>5. CASE UNCHANGED vars
    <2>1. Types' /\ LoopOK' /\ RowsOK' /\ LastOK'
      BY <1>5 DEF vars, Inv, Types, LoopOK, RowsOK, LastOK, Saved, Paid, Keyword
    <2>2. \A q \in Parties : TxOK(q)'
      BY <1>5, Aside DEF vars, Inv, Types
    <2> QED  BY <2>1, <2>2 DEF Inv
  <1> QED
    BY <1>1, <1>2, <1>3, <1>4, <1>5 DEF Next

LEMMA InvHolds == Spec => []Inv
  BY InvInit, InvStep, PTL DEF Spec

\* A keyword that reads "completed" has all its leads in the table, and one usage row if
\* a model reviewed them and none otherwise, after crashes, broken deadlocks and attempts that start over
\* (persist_orchestrator_result and the keyword loop around it).
THEOREM ResultsAlwaysKept == Spec => []ResultsAreKept
  <1>1. Inv => ResultsAreKept
    <2> SUFFICES ASSUME Inv
                 PROVE  ResultsAreKept
      OBVIOUS
    <2>1. TypeOK
      BY TypesGiveTypeOK DEF Inv
    <2>2. CompletedIsSaved
      BY DEF Inv, RowsOK, Saved, CompletedIsSaved
    <2>3. BilledOnce
      BY DEF Inv, RowsOK, Paid, Types, BilledOnce
    <2> QED
      BY <2>1, <2>2, <2>3 DEF ResultsAreKept
  <1> QED
    BY <1>1, InvHolds, PTL

\* No step but a commit changes a row.
LEMMA OnlyCommitsChange ==
  ASSUME [Next]_vars, ~\E p \in Parties : Commit(p)
  PROVE  UNCHANGED lead
  BY DEF Next, vars, Edit, BulkEdit, Read, Write, Abort, StartExecution, RunKeyword, Mark,
     EndExecution, Crash, Table

\* A lead that is found again stays the lead it was: keywords add up, the first discovery
\* stays, and what users decided is not undone behind their back, unless two transactions
\* raced for the row (_merge_existing_lead_payload and the edits of service.py).
THEOREM LeadsAlwaysKeepHistory == Spec => LeadsKeepHistory
  <1>1. Inv /\ [Next]_vars => [DecisionsStay /\ DiscoveryGrows]_vars
    <2> SUFFICES ASSUME Inv, [Next]_vars
                 PROVE  DecisionsStay /\ DiscoveryGrows
      OBVIOUS
    <2>1. CASE \E p \in Parties : Commit(p)
      <3>1. PICK p \in Parties : Commit(p)
        BY <2>1
      <3>2. raced' = raced
        BY <3>1 DEF Commit
      <3>3. DecisionsStay
        BY <3>1, <3>2, CommittedRow DEF DecisionsStay, DecisionKept
      <3>4. DiscoveryGrows
        BY <3>1, CommittedRow DEF DiscoveryGrows
      <3> QED  BY <3>3, <3>4
    <2>2. CASE ~\E p \in Parties : Commit(p)
      <3>1. lead' = lead
        BY <2>2, OnlyCommitsChange
      <3>2. \A l \in Leads : lead[l].last \in Nat
        BY DEF Inv, Types, Lead
      <3> QED
        BY <3>1, <3>2 DEF DecisionsStay, DiscoveryGrows
    <2> QED  BY <2>1, <2>2
  <1> QED
    BY <1>1, InvHolds, PTL DEF Spec, LeadsKeepHistory

=============================================================================
