--------------------------- MODULE BrowserRuntimeProofs ---------------------------
(***************************************************************************)
(* What the browser runtimes keep (BrowserRuntimeProps), proved for every   *)
(* number of accounts, ports, requests, crashes and restarts.               *)
(*                                                                         *)
(* The invariant has a part about the rows and the requests of all accounts *)
(* (Types): ids and ports are given once, and no request has the id of      *)
(* another account's row in hand.  The other part is about each account     *)
(* that is not mixed: it has at most one request that does more than look   *)
(* (Apart), that request's copy of the row is the row (Held), every browser *)
(* and every forwarder belongs to the row that is there now (BrowsersOwned, *)
(* ForwardersOwned), and what is logged in was logged in since the last     *)
(* reset (SinceReset).                                                     *)
(***************************************************************************)
EXTENDS BrowserRuntimeProps, FiniteSetTheorems, TLAPS

-----------------------------------------------------------------------------
(* The inductive invariant: all accounts.                                  *)

RowType == [id : Nat, port : Ports \cup {NoPort}, address : Addresses, status : RowStatus, pid : Nat]

Requesting == [op : Operations \cup {"none"}, account : Accounts \cup {NoAccount},
             step : Steps \cup {"idle"}, runtime : RowType,
             port : Ports \cup {NoPort}, seen : BOOLEAN]

HasRow(a) == row[a].id # NoId

\* A request that was begun has an account; health checks only ask and write the
\* status; from the check of the row on a request has a row in hand.
RequestOK(w) ==
  /\ w.step # "idle" => w.account \in Accounts /\ w.op \in Operations
  /\ w.op = "health" => w.step \in {"idle", "probe", "judge"}
  /\ w.step \notin {"idle", "get", "alloc", "insert", "forget", "note", "drop"} => w.runtime.id # NoId
  /\ w.step \in {"wipe", "forget"} => w.op = "reset"
  /\ w.step = "insert" => w.port \in Ports
  /\ w.runtime.id # NoId => w.runtime.id \in 1..ids /\ w.runtime.port \in Ports

RequestsOK ==
  /\ thread \in [Threads -> Requesting]
  /\ \A t \in Threads : RequestOK(thread[t])

RowsOK ==
  /\ row \in [Accounts -> RowType]
  /\ \A a \in Accounts : IF HasRow(a) THEN row[a].id \in 1..ids /\ row[a].port \in Ports
                         ELSE row[a] = NoRow

\* Ids and ports are given once.
RowsApart ==
  \A a, b \in Accounts : HasRow(a) /\ HasRow(b) /\ (row[a].id = row[b].id \/ row[a].port = row[b].port)
                         => a = b

\* No request has the row of another account in hand.
IdsOwned ==
  \A t \in Threads, a \in Accounts :
    HasRow(a) /\ thread[t].runtime.id = row[a].id => Account(t) = a

OthersOK ==
  /\ link \in [Accounts -> Nat] /\ login \in [Accounts -> BOOLEAN]
  /\ deleted \subseteq Accounts
  /\ chromes \subseteq Chrome /\ \A b \in chromes : b.pid \in 1..launches
  /\ base \in Addresses /\ forwarders \subseteq Forwarder
  /\ pids \in [1..MaxRows -> 0..launches]
  /\ cookies \in [Accounts -> BOOLEAN] /\ snapshot \in [Accounts -> BOOLEAN]
  /\ since \in [Accounts -> BOOLEAN]
  /\ mixed \subseteq Accounts
  /\ requests \in 0..MaxRequests /\ ids \in 0..MaxRows /\ launches \in Nat /\ faults \in 0..MaxFaults

Types == RequestsOK /\ RowsOK /\ RowsApart /\ IdsOwned /\ OthersOK

-----------------------------------------------------------------------------
(* The inductive invariant: one account that is not mixed.                 *)

\* t works for account a and does more than look after it.
Busy(t, a) == thread[t].step # "idle" /\ thread[t].op # "health" /\ Account(t) = a

Silent(a) == (\A b \in chromes : b.account # a) /\ (\A f \in forwarders : f.account # a)

\* A browser belongs to the row that is there now, at the address in force.
BrowsersOwned(a) ==
  \A b \in chromes : b.account = a =>
    /\ HasRow(a) /\ row[a].address = base
    /\ b.port = row[a].port /\ b.pid = pids[row[a].id]

\* So does a forwarder.
ForwardersOwned(a) ==
  \A f \in forwarders : f.account = a =>
    /\ HasRow(a) /\ row[a].address = base
    /\ f.id = row[a].id /\ f.port = row[a].port

SinceReset(a) ==
  /\ cookies[a] \/ snapshot[a] => since[a]
  /\ login[a] /\ (\A t \in Threads : ~(At(t, "forget") /\ Account(t) = a)) => since[a]

DataOK(a) ==
  /\ BrowsersOwned(a) /\ ForwardersOwned(a) /\ SinceReset(a)
  /\ a \in deleted => Silent(a)

\* What the account's request knows at its step: its copy of the row is the row;
\* the address is in force; there is no row yet; nothing runs any more; a login
\* that was seen is one of the account.
HandOK(w, a) ==
  /\ w.step \in {"check", "launch", "confirm", "await", "close", "stopped", "wipe", "judge", "look"} =>
       /\ HasRow(a) /\ w.runtime.id = row[a].id
       /\ w.runtime.port = row[a].port /\ w.runtime.address = row[a].address
  /\ w.step \in {"check", "launch", "confirm", "await"} => row[a].address = base
  /\ w.step \in {"alloc", "insert"} => ~HasRow(a)
  /\ w.step \in {"stopped", "wipe", "drop"} => Silent(a)
  /\ w.step = "save" /\ w.seen => since[a]
  /\ w.step = "snap" => since[a]

\* One request at a time, none for an account that was deleted.
Apart(a) ==
  /\ \A t, u \in Threads : Busy(t, a) /\ Busy(u, a) => t = u
  /\ a \in deleted => \A t \in Threads : ~Busy(t, a)

AccountOK(a) ==
  /\ DataOK(a) /\ Apart(a)
  /\ \A t \in Threads : Busy(t, a) => HandOK(thread[t], a)

Unmixed == \A a \in Accounts \ mixed : AccountOK(a)

Inv == Types /\ Unmixed

-----------------------------------------------------------------------------
(* Requests and rows.                                                      *)

LEMMA IdleOK == Idle \in Requesting /\ RequestOK(Idle) /\ NoRow \in RowType
  BY DEF Idle, Requesting, RequestOK, Operations, NoRow, NoId, NoPort, RowType, RowStatus, Addresses

LEMMA InitTypes == ASSUME Init PROVE Types
  <1>1. RequestsOK
    BY IdleOK DEF Init, RequestsOK
  <1>2. RowsOK /\ RowsApart
    BY IdleOK DEF Init, RowsOK, RowsApart, HasRow, NoRow
  <1>3. IdsOwned
    BY DEF Init, IdsOwned, HasRow, NoRow
  <1>4. OthersOK
    BY BoundAssumption DEF Init, OthersOK, NoId, Addresses
  <1> QED BY <1>1, <1>2, <1>3, <1>4 DEF Types

LEMMA InitUnmixed == ASSUME Init PROVE Unmixed
  <1>1. ASSUME NEW a \in Accounts PROVE AccountOK(a)
    <2>1. \A t \in Threads : ~Busy(t, a)
      BY DEF Init, Busy, Idle
    <2>2. DataOK(a)
      BY DEF Init, DataOK, BrowsersOwned, ForwardersOwned, SinceReset
    <2> QED BY <2>1, <2>2 DEF AccountOK, Apart
  <1> QED BY <1>1 DEF Unmixed

\* A row in hand, of a request that was begun.
LEMMA InHand ==
  ASSUME Types, NEW t \in Threads, thread[t].step # "idle"
  PROVE  /\ thread[t] \in Requesting /\ RequestOK(thread[t])
         /\ Account(t) \in Accounts /\ thread[t].op \in Operations
         /\ Row(t) \in RowType
         /\ thread[t].runtime \in RowType
         /\ thread[t].runtime.id # NoId => thread[t].runtime.id \in 1..MaxRows
  <1>1. thread[t] \in Requesting /\ RequestOK(thread[t])
    BY DEF Types, RequestsOK
  <1>2. Account(t) \in Accounts /\ thread[t].op \in Operations
    BY <1>1 DEF RequestOK, Account
  <1>3. Row(t) \in RowType
    BY <1>2 DEF Types, RowsOK, Row
  <1>4. thread[t].runtime \in RowType
    BY <1>1 DEF Requesting
  <1>5. thread[t].runtime.id # NoId => thread[t].runtime.id \in 1..MaxRows
    <2>1. ids \in 0..MaxRows /\ MaxRows \in Nat
      BY BoundAssumption DEF Types, OthersOK
    <2>2. thread[t].runtime.id # NoId => thread[t].runtime.id \in 1..ids
      BY <1>1 DEF RequestOK
    <2> QED BY <2>1, <2>2
  <1> QED BY <1>1, <1>2, <1>3, <1>4, <1>5

\* What a request may do to the row of a: nothing, delete it, or write its status.
Kept(a) ==
  \/ row'[a] = row[a]
  \/ row'[a] = NoRow
  \/ /\ HasRow(a)
     /\ row'[a].id = row[a].id /\ row'[a].port = row[a].port /\ row'[a].address = row[a].address

LEMMA KeptRows ==
  ASSUME Types, row' \in [Accounts -> RowType], ids' = ids, \A a \in Accounts : Kept(a)
  PROVE  RowsOK' /\ RowsApart'
  <1>1. \A a \in Accounts : row'[a].id # NoId =>
          HasRow(a) /\ row'[a].id = row[a].id /\ row'[a].port = row[a].port
    BY DEF Kept, HasRow, NoRow
  <1>2. RowsOK'
    <2>1. ASSUME NEW a \in Accounts, row'[a].id = NoId PROVE row'[a] = NoRow
      BY <2>1 DEF Types, RowsOK, Kept, HasRow
    <2>2. ASSUME NEW a \in Accounts, row'[a].id # NoId PROVE row'[a].id \in 1..ids /\ row'[a].port \in Ports
      BY <1>1, <2>2 DEF Types, RowsOK
    <2> QED BY <2>1, <2>2 DEF RowsOK, HasRow
  <1>3. RowsApart'
    <2> SUFFICES ASSUME NEW a \in Accounts, NEW b \in Accounts, row'[a].id # NoId, row'[b].id # NoId,
                        row'[a].id = row'[b].id \/ row'[a].port = row'[b].port
                 PROVE  a = b
      BY DEF RowsApart, HasRow
    <2>1. HasRow(a) /\ HasRow(b) /\ (row[a].id = row[b].id \/ row[a].port = row[b].port)
      BY <1>1
    <2> QED BY <2>1 DEF Types, RowsApart
  <1> QED BY <1>2, <1>3

\* A request goes on with the row it had in hand, the row of its account or none.
LEMMA StepTypes ==
  ASSUME Types, NEW t \in Threads, NEW w \in Requesting, thread[t].step # "idle",
         thread' = [thread EXCEPT ![t] = w], RequestOK(w), ids' = ids,
         w.runtime.id # NoId => w.account = Account(t),
         w.runtime.id \in {thread[t].runtime.id, Row(t).id, NoId},
         row' \in [Accounts -> RowType], \A a \in Accounts : Kept(a), OthersOK'
  PROVE  Types'
  <1>1. RequestsOK'
    <2>1. thread' \in [Threads -> Requesting]
      BY DEF Types, RequestsOK
    <2>2. ASSUME NEW u \in Threads PROVE RequestOK(thread[u])'
      <3>1. CASE u = t
        BY <3>1 DEF RequestOK, Types, RequestsOK
      <3>2. CASE u # t
        BY <3>2 DEF RequestOK, Types, RequestsOK
      <3> QED BY <3>1, <3>2
    <2> QED BY <2>1, <2>2 DEF RequestsOK
  <1>2. RowsOK' /\ RowsApart'
    BY KeptRows
  <1>3. IdsOwned'
    <2> SUFFICES ASSUME NEW u \in Threads, NEW a \in Accounts, row'[a].id # NoId,
                        thread'[u].runtime.id = row'[a].id
                 PROVE  thread'[u].account = a
      BY DEF IdsOwned, HasRow, Account
    <2>1. HasRow(a) /\ row'[a].id = row[a].id
      BY DEF Kept, HasRow, NoRow
    <2>2. CASE u # t
      <3>1. thread'[u] = thread[u]
        BY <2>2 DEF Types, RequestsOK
      <3> QED BY <2>1, <3>1 DEF Types, IdsOwned, Account
    <2>3. CASE u = t
      <3>1. thread'[u] = w
        BY <2>3 DEF Types, RequestsOK
      <3>2. CASE w.runtime.id = thread[t].runtime.id
        <4>1. Account(t) = a
          BY <2>1, <3>1, <3>2 DEF Types, IdsOwned
        <4> QED BY <3>1, <4>1
      <3>3. CASE w.runtime.id # thread[t].runtime.id
        <4>1. w.runtime.id = Row(t).id
          BY <3>1, <3>3
        <4>2. Account(t) \in Accounts
          BY InHand
        <4>3. HasRow(Account(t)) /\ row[Account(t)].id = row[a].id
          BY <2>1, <3>1, <4>1 DEF HasRow, Row
        <4> QED BY <2>1, <3>1, <4>2, <4>3 DEF Types, RowsApart
      <3> QED BY <3>2, <3>3
    <2> QED BY <2>2, <2>3
  <1> QED BY <1>1, <1>2, <1>3 DEF Types

-----------------------------------------------------------------------------
(* What a step leaves alone.                                               *)

\* Nothing of account a changes but the status of its row, and what ran for it may
\* end.
Aside(a) ==
  /\ row'[a].id = row[a].id /\ row'[a].port = row[a].port /\ row'[a].address = row[a].address
  /\ HasRow(a) => pids'[row[a].id] = pids[row[a].id]
  /\ base' = base
  /\ \A b \in chromes' : b.account = a => b \in chromes
  /\ \A f \in forwarders' : f.account = a => f \in forwarders
  /\ cookies'[a] = cookies[a] /\ snapshot'[a] = snapshot[a] /\ since'[a] = since[a]
  /\ a \in deleted' => a \in deleted

LEMMA AsideData ==
  ASSUME NEW a \in Accounts, DataOK(a), Aside(a), login'[a] = login[a],
         \A t \in Threads : At(t, "forget") /\ Account(t) = a => (At(t, "forget") /\ Account(t) = a)'
  PROVE  DataOK(a)'
  <1>1. BrowsersOwned(a)'
    BY DEF Aside, DataOK, BrowsersOwned, HasRow
  <1>2. ForwardersOwned(a)'
    BY DEF Aside, DataOK, ForwardersOwned, HasRow
  <1>3. SinceReset(a)'
    <2>1. cookies'[a] \/ snapshot'[a] => since'[a]
      BY DEF Aside, DataOK, SinceReset
    <2>2. ASSUME login'[a], \A t \in Threads : ~(At(t, "forget") /\ Account(t) = a)'
          PROVE  since'[a]
      <3>1. login[a] /\ \A t \in Threads : ~(At(t, "forget") /\ Account(t) = a)
        BY <2>2
      <3> QED BY <3>1 DEF Aside, DataOK, SinceReset
    <2> QED BY <2>1, <2>2 DEF SinceReset
  <1>4. a \in deleted' => Silent(a)'
    BY DEF Aside, DataOK, Silent
  <1> QED BY <1>1, <1>2, <1>3, <1>4 DEF DataOK

LEMMA AsideHand ==
  ASSUME NEW a, NEW w, HandOK(w, a), Aside(a)
  PROVE  HandOK(w, a)'
  BY DEF HandOK, Aside, HasRow, Silent

\* An account none of whose requests took a step.
LEMMA Elsewhere ==
  ASSUME NEW a \in Accounts, AccountOK(a), Aside(a), login'[a] = login[a],
         \A t \in Threads : Account(t) = a \/ thread'[t].account = a =>
                              thread'[t] = thread[t] \/ ~Busy(t, a)',
         \A t \in Threads : At(t, "forget") /\ Account(t) = a => thread'[t] = thread[t]
  PROVE  AccountOK(a)'
  <1>1. \A t \in Threads : Busy(t, a)' => Busy(t, a) /\ thread'[t] = thread[t]
    BY DEF Busy, Account
  <1>2. DataOK(a)'
    <2>1. DataOK(a) /\ \A t \in Threads :
            At(t, "forget") /\ Account(t) = a => (At(t, "forget") /\ Account(t) = a)'
      BY DEF AccountOK, At, Account
    <2> QED BY <2>1, AsideData
  <1>3. Apart(a)'
    BY <1>1 DEF AccountOK, Apart, Aside
  <1>4. ASSUME NEW t \in Threads, Busy(t, a)' PROVE HandOK(thread[t], a)'
    <2>1. HandOK(thread[t], a) /\ thread'[t] = thread[t]
      BY <1>1, <1>4 DEF AccountOK
    <2> QED BY <2>1 DEF HandOK, Aside, HasRow, Silent
  <1> QED BY <1>2, <1>3, <1>4 DEF AccountOK

\* The account whose only request took a step.
LEMMA Own ==
  ASSUME Types, NEW t \in Threads, NEW w, thread' = [thread EXCEPT ![t] = w],
         NEW a \in Accounts, AccountOK(a), Busy(t, a),
         w.step = "idle" \/ w.account = a,
         DataOK(a)', w.step # "idle" => HandOK(w, a)', a \in deleted' => w.step = "idle"
  PROVE  AccountOK(a)'
  <1>1. /\ thread'[t] = w /\ DOMAIN thread = Threads
        /\ \A u \in Threads \ {t} : thread'[u] = thread[u] /\ ~Busy(u, a)
    BY DEF Types, RequestsOK, AccountOK, Apart
  <1>2. \A u \in Threads \ {t} : ~Busy(u, a)'
    BY <1>1 DEF Busy, Account
  <1>3. Apart(a)'
    <2>1. a \in deleted' => ~Busy(t, a)'
      BY <1>1 DEF Busy
    <2> QED BY <1>2, <2>1 DEF Apart
  <1>4. ASSUME NEW u \in Threads, Busy(u, a)' PROVE HandOK(thread[u], a)'
    <2>1. u = t /\ w.step # "idle"
      BY <1>1, <1>2, <1>4 DEF Busy
    <2>2. HandOK(w, a)' /\ thread'[u] = w
      BY <1>1, <2>1
    <2> QED BY <2>2 DEF HandOK
  <1> QED BY <1>3, <1>4 DEF AccountOK

\* A step of t, put together: every other account is left alone, and so is the
\* account of a health check.
LEMMA StepUnmixed ==
  ASSUME Inv, NEW t \in Threads, NEW w \in Requesting, thread' = [thread EXCEPT ![t] = w],
         thread[t].step # "idle", mixed \subseteq mixed',
         w.step = "idle" \/ (w.account = Account(t) /\ w.op = thread[t].op),
         \A a \in Accounts \ {Account(t)} : Aside(a) /\ login'[a] = login[a],
         thread[t].op = "health" => Aside(Account(t)) /\ UNCHANGED login,
         \A a \in Accounts \ mixed' : Busy(t, a) =>
           /\ DataOK(a)'
           /\ w.step # "idle" => HandOK(w, a)'
           /\ a \in deleted' => w.step = "idle"
  PROVE  Unmixed'
  <1>1. /\ thread'[t] = w /\ \A u \in Threads \ {t} : thread'[u] = thread[u]
        /\ RequestOK(thread[t])
    BY DEF Inv, Types, RequestsOK
  <1>2. ASSUME NEW a \in Accounts, a \notin mixed' PROVE AccountOK(a)'
    <2>1. AccountOK(a)
      BY <1>2 DEF Inv, Unmixed
    <2>2. CASE a = Account(t) /\ thread[t].op # "health"
      <3>1. Busy(t, a)
        BY <2>2 DEF Busy
      <3>2. /\ DataOK(a)' /\ (w.step # "idle" => HandOK(w, a)')
            /\ a \in deleted' => w.step = "idle"
        BY <1>2, <3>1
      <3>3. w.step = "idle" \/ w.account = a
        BY <2>2
      <3> QED BY <2>1, <3>1, <3>2, <3>3, Own DEF Inv
    <2>3. CASE a # Account(t) \/ thread[t].op = "health"
      <3>1. Aside(a) /\ login'[a] = login[a]
        BY <2>3
      <3>2. ~Busy(t, a)'
        BY <1>1, <2>3 DEF Busy, Account
      <3>3. ~(At(t, "forget") /\ Account(t) = a)
        BY <1>1, <2>3 DEF At, RequestOK
      <3> QED BY <1>1, <2>1, <3>1, <3>2, <3>3, Elsewhere DEF At
    <2> QED BY <2>2, <2>3
  <1> QED BY <1>2 DEF Unmixed

\* The request writes a status into the row of its account, or nothing.
Noted(t) ==
  \/ row' = row
  \/ \E r \in RowType :
       /\ HasRow(Account(t)) /\ r.id = Row(t).id /\ r.port = Row(t).port /\ r.address = Row(t).address
       /\ row' = [row EXCEPT ![Account(t)] = r]

LEMMA NotedRows ==
  ASSUME Types, NEW t \in Threads, thread[t].step # "idle", Noted(t)
  PROVE  /\ row' \in [Accounts -> RowType]
         /\ \A a \in Accounts : /\ Kept(a)
                                /\ row'[a].id = row[a].id /\ row'[a].port = row[a].port
                                /\ row'[a].address = row[a].address
  <1>1. row \in [Accounts -> RowType] /\ Account(t) \in Accounts
    BY InHand DEF Types, RowsOK
  <1>2. CASE row' = row
    BY <1>1, <1>2 DEF Kept
  <1>3. CASE row' # row
    <2>1. PICK r \in RowType :
            /\ HasRow(Account(t)) /\ r.id = Row(t).id /\ r.port = Row(t).port /\ r.address = Row(t).address
            /\ row' = [row EXCEPT ![Account(t)] = r]
      BY <1>3 DEF Noted
    <2>2. row' \in [Accounts -> RowType]
      BY <1>1, <2>1
    <2>3. ASSUME NEW a \in Accounts
          PROVE  /\ Kept(a) /\ row'[a].id = row[a].id /\ row'[a].port = row[a].port
                 /\ row'[a].address = row[a].address
      <3>1. CASE a = Account(t)
        BY <1>1, <2>1, <3>1 DEF Kept, Row
      <3>2. CASE a # Account(t)
        BY <1>1, <2>1, <3>2 DEF Kept
      <3> QED BY <3>1, <3>2
    <2> QED BY <2>2, <2>3
  <1> QED BY <1>2, <1>3

LEMMA NotedBoth ==
  ASSUME Types, NEW t \in Threads, thread[t].step # "idle", thread[t].runtime.id # NoId,
         NEW s \in RowStatus, NEW n \in Nat,
         row' = IF Mine(t) THEN [row EXCEPT ![Account(t)].status = s, ![Account(t)].pid = n] ELSE row
  PROVE  Noted(t)
  <1>1. row \in [Accounts -> RowType] /\ Account(t) \in Accounts
    BY InHand DEF Types, RowsOK
  <1>2. CASE Mine(t)
    <2>1. PICK r \in RowType : r = [Row(t) EXCEPT !.status = s, !.pid = n]
      BY <1>1 DEF RowType, Row
    <2>2. row' = [row EXCEPT ![Account(t)] = r]
      BY <1>1, <1>2, <2>1 DEF Row
    <2>3. HasRow(Account(t)) /\ r.id = Row(t).id /\ r.port = Row(t).port /\ r.address = Row(t).address
      BY <1>1, <1>2, <2>1 DEF Mine, HasRow, Row, RowType
    <2> QED BY <2>2, <2>3 DEF Noted
  <1> QED BY <1>2 DEF Noted

LEMMA NotedStatus ==
  ASSUME Types, NEW t \in Threads, thread[t].step # "idle", thread[t].runtime.id # NoId,
         NEW s \in RowStatus, Update(t, s)
  PROVE  Noted(t)
  <1>1. row \in [Accounts -> RowType] /\ Account(t) \in Accounts
    BY InHand DEF Types, RowsOK
  <1>2. CASE Mine(t)
    <2>1. PICK r \in RowType : r = [Row(t) EXCEPT !.status = s]
      BY <1>1 DEF RowType, Row
    <2>2. row' = [row EXCEPT ![Account(t)] = r]
      BY <1>1, <1>2, <2>1 DEF Row, Update
    <2>3. HasRow(Account(t)) /\ r.id = Row(t).id /\ r.port = Row(t).port /\ r.address = Row(t).address
      BY <1>1, <1>2, <2>1 DEF Mine, HasRow, Row, RowType
    <2> QED BY <2>2, <2>3 DEF Noted
  <1> QED BY <1>2 DEF Noted, Update

\* A step that only writes the status and moves its request on.
LEMMA QuietStep ==
  ASSUME Inv, NEW t \in Threads, NEW w \in Requesting, thread' = [thread EXCEPT ![t] = w],
         thread[t].step \notin {"idle", "forget"},
         w.step = "idle" \/ (w.account = Account(t) /\ w.op = thread[t].op), RequestOK(w),
         w.runtime.id # NoId => w.account = Account(t),
         w.runtime.id \in {thread[t].runtime.id, Row(t).id, NoId},
         Noted(t), mixed \subseteq mixed', mixed' \subseteq Accounts,
         UNCHANGED <<link, login, deleted, chromes, base, forwarders, pids, cookies, snapshot, since,
                     bounds>>,
         \A a \in Accounts \ mixed' : Busy(t, a) /\ w.step # "idle" => HandOK(w, a)
  PROVE  Inv'
  <1>1. /\ row' \in [Accounts -> RowType] /\ Types
        /\ \A a \in Accounts : Kept(a)
        /\ \A a \in Accounts : /\ row'[a].id = row[a].id /\ row'[a].port = row[a].port
                               /\ row'[a].address = row[a].address
    BY NotedRows DEF Inv
  <1>2. Types'
    <2>1. OthersOK'
      BY <1>1 DEF Types, OthersOK, bounds
    <2>2. ids' = ids
      BY DEF bounds
    <2> QED BY <1>1, <2>1, <2>2, StepTypes
  <1>3. \A a \in Accounts : Aside(a) /\ login'[a] = login[a]
    BY <1>1 DEF Aside
  <1>4. ASSUME NEW a \in Accounts, a \notin mixed', Busy(t, a)
        PROVE  DataOK(a)' /\ (w.step # "idle" => HandOK(w, a)') /\ a \notin deleted'
    <2>1. AccountOK(a) /\ Aside(a)
      BY <1>3, <1>4 DEF Inv, Unmixed
    <2>2. \A u \in Threads : At(u, "forget") /\ Account(u) = a => (At(u, "forget") /\ Account(u) = a)'
      BY <1>1 DEF At, Account, Types, RequestsOK
    <2>3. DataOK(a)'
      BY <1>3, <2>1, <2>2, AsideData DEF AccountOK
    <2>4. w.step # "idle" => HandOK(w, a)'
      BY <1>4, <2>1, AsideHand
    <2>5. a \notin deleted'
      BY <1>4, <2>1 DEF AccountOK, Apart
    <2> QED BY <2>3, <2>4, <2>5
  <1>5. Account(t) \in Accounts
    BY <1>1, InHand
  <1>6. Unmixed'
    BY <1>3, <1>4, <1>5, StepUnmixed
  <1> QED BY <1>2, <1>6 DEF Inv

\* A request that ends, and one that goes on with what it has in hand.
LEMMA Ended ==
  ASSUME Types, NEW t \in Threads, thread[t].step # "idle", End(t)
  PROVE  \E w \in Requesting :
           /\ thread' = [thread EXCEPT ![t] = w] /\ RequestOK(w)
           /\ w.step = "idle" /\ w.runtime.id = NoId
  BY IdleOK DEF End, Idle, NoRow, NoId

LEMMA Went ==
  ASSUME Types, NEW t \in Threads, NEW s \in Steps, thread[t].step # "idle", Goto(t, s),
         thread[t].op = "health" => s \in {"probe", "judge"},
         s \notin {"get", "alloc", "insert", "forget", "note", "drop"} => thread[t].runtime.id # NoId,
         s \in {"wipe", "forget"} => thread[t].op = "reset", s # "insert"
  PROVE  \E w \in Requesting :
           /\ thread' = [thread EXCEPT ![t] = w] /\ RequestOK(w) /\ w.step = s
           /\ w.account = Account(t) /\ w.op = thread[t].op /\ w.runtime = thread[t].runtime
           /\ w.seen = thread[t].seen
  <1>1. thread[t] \in Requesting /\ RequestOK(thread[t]) /\ thread \in [Threads -> Requesting]
    BY DEF Types, RequestsOK
  <1>2. PICK w \in Requesting : w = [thread[t] EXCEPT !.step = s]
    BY <1>1 DEF Requesting
  <1>3. thread' = [thread EXCEPT ![t] = w]
    BY <1>1, <1>2 DEF Goto
  <1>4. /\ w.step = s /\ w.account = Account(t) /\ w.op = thread[t].op
        /\ w.runtime = thread[t].runtime /\ w.seen = thread[t].seen
    BY <1>1, <1>2 DEF Requesting, Account
  <1>5. RequestOK(w)
    BY <1>1, <1>4 DEF RequestOK, Account, Steps
  <1> QED BY <1>3, <1>4, <1>5

LEMMA TookRow ==
  ASSUME Types, NEW t \in Threads, NEW s \in {"idle", "check", "launch"}, thread[t].step # "idle",
         NEW r \in RowType, Have(t, r, s), r.id # NoId, r.id \in 1..ids, r.port \in Ports,
         thread[t].op # "health"
  PROVE  \E w \in Requesting :
           /\ thread' = [thread EXCEPT ![t] = w] /\ RequestOK(w) /\ w.step = s
           /\ w.account = Account(t) /\ w.op = thread[t].op /\ w.runtime = r
  <1>1. thread[t] \in Requesting /\ RequestOK(thread[t]) /\ thread \in [Threads -> Requesting]
    BY DEF Types, RequestsOK
  <1>2. PICK w \in Requesting : w = [thread[t] EXCEPT !.step = s, !.runtime = r]
    BY <1>1 DEF Requesting, Steps
  <1>3. thread' = [thread EXCEPT ![t] = w]
    BY <1>1, <1>2 DEF Have
  <1>4. /\ w.step = s /\ w.account = Account(t) /\ w.op = thread[t].op /\ w.runtime = r
    BY <1>1, <1>2 DEF Requesting, Account
  <1>5. RequestOK(w)
    BY <1>1, <1>4 DEF RequestOK, Account
  <1> QED BY <1>3, <1>4, <1>5

-----------------------------------------------------------------------------
(* The steps that only write the status of the row.                        *)

LEMMA StepAllocate == ASSUME Inv, NEW t \in Threads, Allocate(t) PROVE Inv'
  <1>1. Types /\ thread[t].step = "alloc" /\ thread[t].step \notin {"idle", "forget"} /\ Noted(t)
    BY DEF Inv, Allocate, At, state, Noted
  <1>2. /\ UNCHANGED <<link, login, deleted, chromes, base, forwarders, pids, cookies, snapshot, since,
                       bounds>>
        /\ mixed \subseteq mixed' /\ mixed' \subseteq Accounts
    BY <1>1 DEF Allocate, state, Types, OthersOK
  <1>3. CASE End(t)
    <2>1. PICK w \in Requesting : /\ thread' = [thread EXCEPT ![t] = w] /\ RequestOK(w)
                                  /\ w.step = "idle" /\ w.runtime.id = NoId
      BY <1>1, <1>3, Ended
    <2> QED BY <1>1, <1>2, <2>1, QuietStep
  <1>4. CASE \E p \in Ports : thread' = [thread EXCEPT ![t].step = "insert", ![t].port = p]
    <2>1. PICK p \in Ports : thread' = [thread EXCEPT ![t].step = "insert", ![t].port = p]
      BY <1>4
    <2>2. thread[t] \in Requesting /\ RequestOK(thread[t]) /\ thread \in [Threads -> Requesting]
      BY <1>1 DEF Types, RequestsOK
    <2>3. PICK w \in Requesting : w = [thread[t] EXCEPT !.step = "insert", !.port = p]
      BY <2>2 DEF Requesting, Steps
    <2>4. thread' = [thread EXCEPT ![t] = w]
      BY <2>1, <2>2, <2>3
    <2>5. /\ w.step = "insert" /\ w.account = Account(t) /\ w.op = thread[t].op
          /\ w.runtime = thread[t].runtime /\ w.port = p
      BY <2>2, <2>3 DEF Requesting, Account
    <2>6. RequestOK(w)
      BY <1>1, <2>2, <2>5 DEF RequestOK, Account
    <2>7. \A a \in Accounts \ mixed' : Busy(t, a) => HandOK(w, a)
      BY <1>1, <1>2, <2>5 DEF Inv, Unmixed, AccountOK, HandOK
    <2>8. /\ w.step = "idle" \/ (w.account = Account(t) /\ w.op = thread[t].op)
          /\ w.runtime.id # NoId => w.account = Account(t)
          /\ w.runtime.id \in {thread[t].runtime.id, Row(t).id, NoId}
      BY <2>5
    <2> QED BY <1>1, <1>2, <2>4, <2>6, <2>7, <2>8, QuietStep
  <1> QED BY <1>3, <1>4 DEF Allocate

\* What a start does when it succeeded.
LEMMA StepStarted ==
  ASSUME Inv, NEW t \in Threads, thread[t].step \in {"check", "await"}, Started(t),
         UNCHANGED <<row, link, login, deleted, chromes, base, forwarders, pids, cookies, snapshot, since,
                     mixed, bounds>>
  PROVE  Inv'
  <1>1. Types /\ thread[t].step \notin {"idle", "forget"} /\ Noted(t)
    BY DEF Inv, Noted
  <1>2. /\ UNCHANGED <<link, login, deleted, chromes, base, forwarders, pids, cookies, snapshot, since,
                       bounds>>
        /\ mixed \subseteq mixed' /\ mixed' \subseteq Accounts
    BY <1>1 DEF Types, OthersOK
  <1>3. CASE End(t)
    <2>1. PICK w \in Requesting : /\ thread' = [thread EXCEPT ![t] = w] /\ RequestOK(w)
                                  /\ w.step = "idle" /\ w.runtime.id = NoId
      BY <1>1, <1>3, Ended
    <2> QED BY <1>1, <1>2, <2>1, QuietStep
  <1>4. CASE Goto(t, "probe") \/ (thread[t].op \in {"start", "restart"} /\ Goto(t, "note"))
    <2>1. PICK s \in {"probe", "note"} : Goto(t, s) /\ (s = "note" => thread[t].op \in {"start", "restart"})
      BY <1>4
    <2>2. s \in Steps /\ thread[t].runtime.id # NoId
      BY <1>1 DEF Steps, Types, RequestsOK, RequestOK
    <2>3. PICK w \in Requesting :
           /\ thread' = [thread EXCEPT ![t] = w] /\ RequestOK(w) /\ w.step = s
           /\ w.account = Account(t) /\ w.op = thread[t].op /\ w.runtime = thread[t].runtime
           /\ w.seen = thread[t].seen
      BY <1>1, <2>1, <2>2, Went
    <2>4. \A a : HandOK(w, a)
      BY <2>3 DEF HandOK
    <2> QED BY <1>1, <1>2, <2>3, <2>4, QuietStep
  <1> QED BY <1>3, <1>4 DEF Started

LEMMA StepCheck == ASSUME Inv, NEW t \in Threads, Check(t) PROVE Inv'
  <1> DEFINE r == IF Mine(t) THEN Row(t) ELSE thread[t].runtime
  <1>1. Types /\ thread[t].step = "check" /\ thread[t].step # "idle"
    BY DEF Inv, Check, At
  <1>2. UNCHANGED <<link, login, deleted, chromes, base, forwarders, pids, cookies, snapshot, since,
                    mixed, bounds>>
    BY DEF Check
  <1>3. thread[t].runtime.id # NoId /\ RequestOK(thread[t]) /\ thread[t].op # "health"
    BY <1>1 DEF Types, RequestsOK, RequestOK
  <1>4. CASE Started(t) /\ UNCHANGED row
    BY <1>1, <1>2, <1>4, StepStarted
  <1>5. CASE Update(t, "starting") /\ Have(t, r, "launch")
    <2>1. Noted(t)
      <3>1. "starting" \in RowStatus
        BY DEF RowStatus
      <3> QED BY <1>1, <1>3, <1>5, <3>1, NotedStatus
    <2>2. /\ r \in RowType /\ r.id # NoId /\ r.id \in 1..ids /\ r.port \in Ports
          /\ r.id = thread[t].runtime.id
      <3>1. CASE Mine(t)
        <4>1. HasRow(Account(t)) /\ r = Row(t)
          BY <1>3, <3>1 DEF Mine, HasRow, Row
        <4> QED BY <1>1, <1>3, <3>1, <4>1, InHand DEF Types, RowsOK, HasRow, Row, Mine
      <3>2. CASE ~Mine(t)
        BY <1>1, <1>3, <3>2, InHand DEF RequestOK
      <3> QED BY <3>1, <3>2
    <2> HIDE DEF r
    <2>3. PICK w \in Requesting :
           /\ thread' = [thread EXCEPT ![t] = w] /\ RequestOK(w) /\ w.step = "launch"
           /\ w.account = Account(t) /\ w.op = thread[t].op /\ w.runtime = r
      <3>1. "launch" \in {"idle", "check", "launch"}
        OBVIOUS
      <3> QED BY <1>1, <1>3, <1>5, <2>2, <3>1, TookRow
    <2>4. ASSUME NEW a \in Accounts, a \notin mixed, Busy(t, a) PROVE HandOK(w, a)
      <3>1. HandOK(thread[t], a) /\ a = Account(t)
        BY <2>4 DEF Inv, Unmixed, AccountOK, Busy
      <3>2. /\ HasRow(a) /\ row[a].id = thread[t].runtime.id /\ row[a].address = base
        BY <1>1, <3>1 DEF HandOK
      <3>3. r = row[a]
        BY <3>1, <3>2 DEF r, Mine, Row
      <3> QED BY <2>3, <3>2, <3>3 DEF HandOK
    <2>5. /\ w.step = "idle" \/ (w.account = Account(t) /\ w.op = thread[t].op)
          /\ w.runtime.id # NoId => w.account = Account(t)
          /\ w.runtime.id \in {thread[t].runtime.id, Row(t).id, NoId}
      BY <2>2, <2>3
    <2>6. mixed \subseteq mixed' /\ mixed' \subseteq Accounts
      BY <1>1, <1>2 DEF Types, OthersOK
    <2> QED BY <1>1, <1>2, <2>1, <2>3, <2>4, <2>5, <2>6, QuietStep
  <1> QED BY <1>4, <1>5 DEF Check

\* The row says nothing of a request that goes on to s with what it has in hand.
LEMMA QuietGo ==
  ASSUME Inv, NEW t \in Threads, NEW s \in Steps, thread[t].step \notin {"idle", "forget"},
         Goto(t, s), Noted(t), thread[t].runtime.id # NoId,
         UNCHANGED <<link, login, deleted, chromes, base, forwarders, pids, cookies, snapshot, since,
                     mixed, bounds>>,
         thread[t].op = "health" => s \in {"probe", "judge"},
         s \in {"wipe", "forget"} => thread[t].op = "reset", s # "insert",
         \A w \in Requesting, a \in Accounts :
           Busy(t, a) /\ HandOK(thread[t], a) /\ w.step = s /\ w.runtime = thread[t].runtime
             /\ w.seen = thread[t].seen => HandOK(w, a)
  PROVE  Inv'
  <1>1. Types /\ mixed \subseteq mixed' /\ mixed' \subseteq Accounts
    BY DEF Inv, Types, OthersOK
  <1>2. PICK w \in Requesting :
           /\ thread' = [thread EXCEPT ![t] = w] /\ RequestOK(w) /\ w.step = s
           /\ w.account = Account(t) /\ w.op = thread[t].op /\ w.runtime = thread[t].runtime
           /\ w.seen = thread[t].seen
    BY <1>1, Went
  <1>3. ASSUME NEW a \in Accounts, a \notin mixed, Busy(t, a) PROVE HandOK(w, a)
    <2>1. HandOK(thread[t], a)
      BY <1>3 DEF Inv, Unmixed, AccountOK
    <2> QED BY <1>2, <1>3, <2>1
  <1>4. /\ w.step = "idle" \/ (w.account = Account(t) /\ w.op = thread[t].op)
        /\ w.runtime.id # NoId => w.account = Account(t)
        /\ w.runtime.id \in {thread[t].runtime.id, Row(t).id, NoId}
    BY <1>2
  <1> QED BY <1>1, <1>2, <1>3, <1>4, QuietStep

LEMMA QuietEnd ==
  ASSUME Inv, NEW t \in Threads, thread[t].step \notin {"idle", "forget"}, End(t), Noted(t),
         UNCHANGED <<link, login, deleted, chromes, base, forwarders, pids, cookies, snapshot, since,
                     mixed, bounds>>
  PROVE  Inv'
  <1>1. Types /\ mixed \subseteq mixed' /\ mixed' \subseteq Accounts
    BY DEF Inv, Types, OthersOK
  <1>2. PICK w \in Requesting : /\ thread' = [thread EXCEPT ![t] = w] /\ RequestOK(w)
                                /\ w.step = "idle" /\ w.runtime.id = NoId
    BY <1>1, Ended
  <1> QED BY <1>1, <1>2, QuietStep

LEMMA StepConfirm == ASSUME Inv, NEW t \in Threads, Confirm(t) PROVE Inv'
  <1>1. Types /\ thread[t].step = "confirm" /\ thread[t].step \notin {"idle", "forget"}
    BY DEF Inv, Confirm, At
  <1>2. thread[t].runtime.id # NoId /\ thread[t].op # "health"
    BY <1>1 DEF Types, RequestsOK, RequestOK
  <1>3. Noted(t)
    <2>1. pids[thread[t].runtime.id] \in Nat /\ "running" \in RowStatus
      BY <1>1, <1>2, InHand DEF Types, OthersOK, RowStatus
    <2> QED BY <1>1, <1>2, <2>1, NotedBoth DEF Confirm
  <1>4. \A w \in Requesting, a \in Accounts :
           Busy(t, a) /\ HandOK(thread[t], a) /\ w.step = "await" /\ w.runtime = thread[t].runtime
             /\ w.seen = thread[t].seen => HandOK(w, a)
    BY <1>1 DEF HandOK
  <1>5. "await" \in Steps /\ Goto(t, "await")
    BY DEF Steps, Confirm
  <1>6. UNCHANGED <<link, login, deleted, chromes, base, forwarders, pids, cookies, snapshot, since,
                    mixed, bounds>>
    BY DEF Confirm
  <1> QED BY <1>1, <1>2, <1>3, <1>4, <1>5, <1>6, QuietGo

LEMMA StepMarkStopped == ASSUME Inv, NEW t \in Threads, MarkStopped(t) PROVE Inv'
  <1>1. Types /\ thread[t].step = "stopped" /\ thread[t].step \notin {"idle", "forget"}
    BY DEF Inv, MarkStopped, At
  <1>2. thread[t].runtime.id # NoId /\ thread[t].op # "health"
    BY <1>1 DEF Types, RequestsOK, RequestOK
  <1>3. Noted(t)
    <2>1. "stopped" \in RowStatus
      BY DEF RowStatus
    <2> QED BY <1>1, <1>2, <2>1, NotedBoth DEF MarkStopped
  <1>4. UNCHANGED <<link, login, deleted, chromes, base, forwarders, pids, cookies, snapshot, since,
                    mixed, bounds>>
    BY DEF MarkStopped
  <1>5. CASE End(t)
    BY <1>1, <1>3, <1>4, <1>5, QuietEnd
  <1>6. ASSUME NEW s \in {"wipe", "get", "drop"}, Goto(t, s), s = "wipe" => thread[t].op = "reset"
        PROVE  Inv'
    <2>1. \A w \in Requesting, a \in Accounts :
             Busy(t, a) /\ HandOK(thread[t], a) /\ w.step = s /\ w.runtime = thread[t].runtime
               /\ w.seen = thread[t].seen => HandOK(w, a)
      BY <1>1 DEF HandOK
    <2>2. s \in Steps
      BY DEF Steps
    <2> QED BY <1>1, <1>2, <1>3, <1>4, <1>6, <2>1, <2>2, QuietGo
  <1>7. \/ End(t)
        \/ \E s \in {"wipe", "get", "drop"} : Goto(t, s) /\ (s = "wipe" => thread[t].op = "reset")
    BY Zenon DEF MarkStopped
  <1> QED BY <1>5, <1>6, <1>7

LEMMA StepProbe == ASSUME Inv, NEW t \in Threads, Probe(t) PROVE Inv'
  <1>1. Types /\ thread[t].step = "probe" /\ thread[t].step \notin {"idle", "forget"} /\ Noted(t)
    BY DEF Inv, Probe, At, state, Noted
  <1>2. UNCHANGED <<link, login, deleted, chromes, base, forwarders, pids, cookies, snapshot, since,
                    mixed, bounds>>
    BY DEF Probe, state
  <1>3. CASE End(t)
    BY <1>1, <1>2, <1>3, QuietEnd
  <1>4. CASE Mine(t) /\ thread' = [thread EXCEPT ![t].step = "judge", ![t].runtime = Row(t),
                                                 ![t].seen = Reachable(Row(t))]
    <2>1. thread[t] \in Requesting /\ RequestOK(thread[t]) /\ thread \in [Threads -> Requesting]
      BY <1>1 DEF Types, RequestsOK
    <2>2. Row(t) \in RowType /\ Account(t) \in Accounts /\ Reachable(Row(t)) \in BOOLEAN
      BY <1>1, InHand DEF Reachable, PortInUse
    <2>3. PICK w \in Requesting :
            w = [thread[t] EXCEPT !.step = "judge", !.runtime = Row(t), !.seen = Reachable(Row(t))]
      BY <2>1, <2>2 DEF Requesting, Steps
    <2>4. thread' = [thread EXCEPT ![t] = w]
      BY <1>4, <2>1, <2>3
    <2>5. /\ w.step = "judge" /\ w.account = Account(t) /\ w.op = thread[t].op /\ w.runtime = Row(t)
      BY <2>1, <2>3 DEF Requesting, Account
    <2>6. HasRow(Account(t))
      BY <1>1, <1>4, <2>1 DEF Mine, Row, HasRow, RequestOK
    <2>7. Row(t).id \in 1..ids /\ Row(t).port \in Ports
      BY <1>1, <2>2, <2>6 DEF Types, RowsOK, Row
    <2>8. RequestOK(w)
      BY <1>1, <2>1, <2>5, <2>6, <2>7 DEF RequestOK, Account, Row, HasRow
    <2>9. \A a \in Accounts \ mixed' : Busy(t, a) => HandOK(w, a)
      BY <2>5, <2>6 DEF HandOK, Busy, Row
    <2>10. /\ w.step = "idle" \/ (w.account = Account(t) /\ w.op = thread[t].op)
           /\ w.runtime.id # NoId => w.account = Account(t)
           /\ w.runtime.id \in {thread[t].runtime.id, Row(t).id, NoId}
      BY <2>5
    <2>11. mixed \subseteq mixed' /\ mixed' \subseteq Accounts
      BY <1>1, <1>2 DEF Types, OthersOK
    <2> QED BY <1>1, <1>2, <2>4, <2>8, <2>9, <2>10, <2>11, QuietStep
  <1> QED BY <1>3, <1>4 DEF Probe

LEMMA StepJudge == ASSUME Inv, NEW t \in Threads, Judge(t) PROVE Inv'
  <1>1. Types /\ thread[t].step = "judge" /\ thread[t].step \notin {"idle", "forget"}
    BY DEF Inv, Judge, At
  <1>2. thread[t].runtime.id # NoId
    BY <1>1 DEF Types, RequestsOK, RequestOK
  <1>3. Noted(t)
    <2>1. HealthStatus(t) \in RowStatus
      BY DEF HealthStatus, RowStatus
    <2> QED BY <1>1, <1>2, <2>1, NotedStatus DEF Judge
  <1>4. UNCHANGED <<link, login, deleted, chromes, base, forwarders, pids, cookies, snapshot, since,
                    mixed, bounds>>
    BY DEF Judge
  <1>5. CASE thread[t].op # "login"
    BY <1>1, <1>3, <1>4, <1>5, QuietEnd DEF Judge
  <1>6. CASE thread[t].op = "login" /\ thread[t].seen
    <2>1. \A w \in Requesting, a \in Accounts :
             Busy(t, a) /\ HandOK(thread[t], a) /\ w.step = "look" /\ w.runtime = thread[t].runtime
               /\ w.seen = thread[t].seen => HandOK(w, a)
      BY <1>1 DEF HandOK
    <2>2. "look" \in Steps /\ Goto(t, "look")
      BY <1>6 DEF Steps, Judge
    <2> QED BY <1>1, <1>2, <1>3, <1>4, <1>6, <2>1, <2>2, QuietGo
  <1>7. CASE thread[t].op = "login" /\ ~thread[t].seen
    <2>1. \A w \in Requesting, a \in Accounts :
             Busy(t, a) /\ HandOK(thread[t], a) /\ w.step = "save" /\ w.runtime = thread[t].runtime
               /\ w.seen = thread[t].seen => HandOK(w, a)
      BY <1>7 DEF HandOK
    <2>2. "save" \in Steps /\ Goto(t, "save")
      BY <1>7 DEF Steps, Judge, Goto
    <2> QED BY <1>1, <1>2, <1>3, <1>4, <1>7, <2>1, <2>2, QuietGo
  <1> QED BY <1>5, <1>6, <1>7

\* Browsers of two accounts that are not mixed have two ports; only the browser of a
\* mixed account can stand on the port of another's row.
LEMMA PortOfOwnRow ==
  ASSUME Inv, NEW a \in Accounts, HasRow(a), NEW b \in chromes, b.port = row[a].port,
         b.account \notin mixed
  PROVE  b.account = a
  <1>1. b.account \in Accounts
    BY DEF Inv, Types, OthersOK, Chrome
  <1>2. BrowsersOwned(b.account)
    BY <1>1 DEF Inv, Unmixed, AccountOK, DataOK
  <1>3. HasRow(b.account) /\ row[b.account].port = row[a].port
    BY <1>2 DEF BrowsersOwned
  <1> QED BY <1>1, <1>3 DEF Inv, Types, RowsApart

LEMMA StepLook == ASSUME Inv, NEW t \in Threads, Look(t) PROVE Inv'
  <1>1. Types /\ thread[t].step = "look" /\ thread[t].step \notin {"idle", "forget"} /\ Noted(t)
    BY DEF Inv, Look, At, state, Noted
  <1>2. UNCHANGED <<link, login, deleted, chromes, base, forwarders, pids, cookies, snapshot, since,
                    bounds>>
    BY DEF Look, state
  <1>3. Account(t) \in Accounts /\ mixed \subseteq Accounts
    BY <1>1, InHand DEF Types, OthersOK
  <1>4. ASSUME NEW seen \in BOOLEAN,
               thread' = [thread EXCEPT ![t].step = "save", ![t].seen = seen],
               mixed \subseteq mixed', mixed' \subseteq Accounts,
               \A a \in Accounts \ mixed' : Busy(t, a) /\ seen => since[a]
        PROVE  Inv'
    <2>1. thread[t] \in Requesting /\ RequestOK(thread[t]) /\ thread \in [Threads -> Requesting]
      BY <1>1 DEF Types, RequestsOK
    <2>2. PICK w \in Requesting : w = [thread[t] EXCEPT !.step = "save", !.seen = seen]
      BY <2>1 DEF Requesting, Steps
    <2>3. thread' = [thread EXCEPT ![t] = w]
      BY <1>4, <2>1, <2>2
    <2>4. /\ w.step = "save" /\ w.account = Account(t) /\ w.op = thread[t].op
          /\ w.runtime = thread[t].runtime /\ w.seen = seen
      BY <2>1, <2>2 DEF Requesting, Account
    <2>5. RequestOK(w)
      BY <1>1, <2>1, <2>4 DEF RequestOK, Account
    <2>6. \A a \in Accounts \ mixed' : Busy(t, a) => HandOK(w, a)
      BY <1>4, <2>4 DEF HandOK
    <2>7. /\ w.step = "idle" \/ (w.account = Account(t) /\ w.op = thread[t].op)
          /\ w.runtime.id # NoId => w.account = Account(t)
          /\ w.runtime.id \in {thread[t].runtime.id, Row(t).id, NoId}
      BY <2>4
    <2> QED BY <1>1, <1>2, <1>4, <2>3, <2>5, <2>6, <2>7, QuietStep
  <1>5. CASE thread' = [thread EXCEPT ![t].step = "save", ![t].seen = FALSE] /\ UNCHANGED mixed
    BY <1>3, <1>4, <1>5
  <1>6. ASSUME NEW b \in chromes, b.port = thread[t].runtime.port,
               thread' = [thread EXCEPT ![t].step = "save", ![t].seen = cookies[b.account]],
               mixed' = IF b.account \in mixed THEN mixed \cup {Account(t)} ELSE mixed
        PROVE  Inv'
    <2>1. cookies[b.account] \in BOOLEAN
      BY <1>1 DEF Types, OthersOK, Chrome
    <2>2. mixed \subseteq mixed' /\ mixed' \subseteq Accounts
      BY <1>3, <1>6
    <2>3. ASSUME NEW a \in Accounts, a \notin mixed', Busy(t, a), cookies[b.account] PROVE since[a]
      <3>1. a = Account(t) /\ a \notin mixed /\ b.account \notin mixed
        BY <1>6, <2>3 DEF Busy
      <3>2. AccountOK(a)
        BY <3>1 DEF Inv, Unmixed
      <3>3. HasRow(a) /\ b.port = row[a].port
        BY <1>1, <1>6, <2>3, <3>2 DEF AccountOK, HandOK
      <3>4. b.account = a
        BY <3>1, <3>3, PortOfOwnRow
      <3> QED BY <2>3, <3>2, <3>4 DEF AccountOK, DataOK, SinceReset
    <2> QED BY <1>4, <1>6, <2>1, <2>2, <2>3
  <1> QED BY <1>5, <1>6 DEF Look

-----------------------------------------------------------------------------
(* The steps that end browsers.                                            *)

LEMMA RowIds ==
  ASSUME Types, NEW a \in Accounts, HasRow(a)
  PROVE  row[a].id \in 1..MaxRows /\ row[a].id \in 1..ids /\ row[a].port \in Ports
  <1>1. row[a].id \in 1..ids /\ row[a].port \in Ports
    BY DEF Types, RowsOK
  <1>2. ids \in 0..MaxRows /\ MaxRows \in Nat
    BY BoundAssumption DEF Types, OthersOK
  <1> QED BY <1>1, <1>2

\* No other account's row has the process of the row in hand.
LEMMA OtherPids ==
  ASSUME Types, NEW t \in Threads, thread[t].step # "idle", thread[t].runtime.id # NoId,
         NEW n, pids' = [pids EXCEPT ![thread[t].runtime.id] = n]
  PROVE  \A a \in Accounts \ {Account(t)} : HasRow(a) => pids'[row[a].id] = pids[row[a].id]
  <1> SUFFICES ASSUME NEW a \in Accounts, a # Account(t), HasRow(a)
               PROVE  pids'[row[a].id] = pids[row[a].id]
    OBVIOUS
  <1>1. row[a].id \in 1..MaxRows /\ pids \in [1..MaxRows -> 0..launches]
    BY RowIds DEF Types, OthersOK
  <1>2. row[a].id # thread[t].runtime.id
    BY DEF Types, IdsOwned
  <1> QED BY <1>1, <1>2

\* Ending the process and the forwarder of an account's row ends all it has.
LEMMA AllEnded ==
  ASSUME Inv, NEW a \in Accounts, a \notin mixed, NEW id, id = row[a].id
  PROVE  /\ \A b \in Killed(id) : b.account # a
         /\ \A f \in Without(id) : f.account # a
         /\ Killed(id) \subseteq chromes /\ Without(id) \subseteq forwarders
  BY DEF Inv, Unmixed, AccountOK, DataOK, BrowsersOwned, ForwardersOwned, Killed, Without

LEMMA SinceKept ==
  ASSUME Types, NEW t \in Threads, NEW w, thread' = [thread EXCEPT ![t] = w],
         NEW a \in Accounts, thread[t].step # "forget", SinceReset(a),
         cookies'[a] \/ snapshot'[a] => cookies[a] \/ snapshot[a] \/ since[a],
         login'[a] => login[a] \/ since[a], since'[a] = since[a]
  PROVE  SinceReset(a)'
  <1>1. \A u \in Threads : At(u, "forget") /\ Account(u) = a => (At(u, "forget") /\ Account(u) = a)'
    BY DEF Types, RequestsOK, At, Account
  <1>2. cookies'[a] \/ snapshot'[a] => since'[a]
    BY DEF SinceReset
  <1>3. ASSUME login'[a], \A u \in Threads : ~(At(u, "forget") /\ Account(u) = a)' PROVE since'[a]
    <2>1. \A u \in Threads : ~(At(u, "forget") /\ Account(u) = a)
      BY <1>1, <1>3
    <2>2. login[a] \/ since[a]
      BY <1>3
    <2> QED BY <2>1, <2>2 DEF SinceReset
  <1> QED BY <1>2, <1>3 DEF SinceReset

\* The step of a request whose account is silent afterwards.
LEMMA StepSilencing ==
  ASSUME Inv, NEW t \in Threads, NEW w \in Requesting, thread' = [thread EXCEPT ![t] = w],
         thread[t].step \in {"close", "await"}, w.step \in {"idle", "stopped"},
         w.step # "idle" => w.account = Account(t) /\ w.op = thread[t].op /\ w.runtime = thread[t].runtime,
         w.step = "idle" => w.runtime.id = NoId, RequestOK(w), Noted(t),
         chromes' = Killed(thread[t].runtime.id),
         pids' = [pids EXCEPT ![thread[t].runtime.id] = 0],
         forwarders' = Without(thread[t].runtime.id),
         UNCHANGED <<link, login, deleted, base, cookies, snapshot, since, mixed, bounds>>
  PROVE  Inv'
  <1>1. Types /\ RequestOK(thread[t]) /\ thread[t].runtime.id # NoId /\ thread[t].op # "health"
    BY DEF Inv, Types, RequestsOK, RequestOK
  <1>2. /\ row' \in [Accounts -> RowType]
        /\ \A a \in Accounts : Kept(a)
        /\ \A a \in Accounts : /\ row'[a].id = row[a].id /\ row'[a].port = row[a].port
                               /\ row'[a].address = row[a].address
    BY <1>1, NotedRows
  <1>3. Types'
    <2>1. OthersOK'
      <3>1. pids' \in [1..MaxRows -> 0..launches] /\ launches' = launches
        <4>1. launches \in Nat /\ pids \in [1..MaxRows -> 0..launches]
          BY <1>1 DEF Types, OthersOK
        <4>2. 0 \in 0..launches /\ launches' = launches
          BY <4>1 DEF bounds
        <4> QED BY <4>1, <4>2
      <3>2. chromes' \subseteq chromes /\ forwarders' \subseteq forwarders
        BY DEF Killed, Without
      <3> QED BY <1>1, <3>1, <3>2 DEF Types, OthersOK, bounds
    <2>2. ids' = ids
      BY DEF bounds
    <2>3. /\ w.runtime.id # NoId => w.account = Account(t)
          /\ w.runtime.id \in {thread[t].runtime.id, Row(t).id, NoId}
      OBVIOUS
    <2> QED BY <1>1, <1>2, <2>1, <2>2, <2>3, StepTypes
  <1>4. \A a \in Accounts \ {Account(t)} : Aside(a) /\ login'[a] = login[a]
    <2>1. \A a \in Accounts \ {Account(t)} : HasRow(a) => pids'[row[a].id] = pids[row[a].id]
      BY <1>1, OtherPids
    <2> QED BY <1>2, <2>1 DEF Aside, Killed, Without
  <1>5. ASSUME NEW a \in Accounts, a \notin mixed', Busy(t, a)
        PROVE  DataOK(a)' /\ (w.step # "idle" => HandOK(w, a)') /\ a \notin deleted'
    <2>1. AccountOK(a) /\ a = Account(t) /\ a \notin mixed
      BY <1>5 DEF Inv, Unmixed, Busy
    <2>2. HasRow(a) /\ thread[t].runtime.id = row[a].id
      BY <1>5, <2>1 DEF AccountOK, HandOK
    <2>3. Silent(a)'
      BY <2>1, <2>2, AllEnded DEF Silent
    <2>4. SinceReset(a)'
      BY <1>1, <2>1, SinceKept DEF AccountOK, DataOK
    <2>5. DataOK(a)'
      BY <2>3, <2>4 DEF DataOK, BrowsersOwned, ForwardersOwned, Silent
    <2>6. w.step # "idle" => HandOK(w, a)'
      <3>1. /\ HasRow(a)' /\ thread[t].runtime.id = row'[a].id
            /\ thread[t].runtime.port = row'[a].port /\ thread[t].runtime.address = row'[a].address
        BY <1>2, <1>5, <2>1, <2>2 DEF HasRow, AccountOK, HandOK
      <3> QED BY <2>3, <3>1 DEF HandOK
    <2>7. a \notin deleted'
      BY <1>5, <2>1 DEF AccountOK, Apart
    <2> QED BY <2>5, <2>6, <2>7
  <1>6. Unmixed'
    BY <1>1, <1>4, <1>5, StepUnmixed
  <1> QED BY <1>3, <1>6 DEF Inv

LEMMA StepCloseSession == ASSUME Inv, NEW t \in Threads, CloseSession(t) PROVE Inv'
  <1>1. Types /\ thread[t].step = "close" /\ "stopped" \in Steps /\ Noted(t)
    BY DEF Inv, CloseSession, At, Steps, Noted
  <1>2. thread[t].runtime.id # NoId /\ thread[t].op # "health"
    BY <1>1 DEF Types, RequestsOK, RequestOK
  <1>3. PICK w \in Requesting :
           /\ thread' = [thread EXCEPT ![t] = w] /\ RequestOK(w) /\ w.step = "stopped"
           /\ w.account = Account(t) /\ w.op = thread[t].op /\ w.runtime = thread[t].runtime
           /\ w.seen = thread[t].seen
    BY <1>1, <1>2, Went DEF CloseSession
  <1> QED BY <1>1, <1>3, StepSilencing DEF CloseSession

LEMMA StepAwaitCdp == ASSUME Inv, NEW t \in Threads, AwaitCdp(t) PROVE Inv'
  <1>1. Types /\ thread[t].step = "await"
    BY DEF Inv, AwaitCdp, At
  <1>2. thread[t].runtime.id # NoId /\ thread[t].op # "health"
    BY <1>1 DEF Types, RequestsOK, RequestOK
  <1>3. UNCHANGED <<link, login, deleted, base, cookies, snapshot, since, mixed, bounds>>
    BY DEF AwaitCdp
  <1>4. CASE Started(t) /\ UNCHANGED <<row, chromes, forwarders, pids>>
    BY <1>1, <1>3, <1>4, StepStarted
  <1>5. CASE /\ chromes' = Killed(thread[t].runtime.id)
             /\ pids' = [pids EXCEPT ![thread[t].runtime.id] = 0]
             /\ forwarders' = Without(thread[t].runtime.id)
             /\ row' = IF Mine(t) THEN [row EXCEPT ![Account(t)].status = "error", ![Account(t)].pid = 0]
                       ELSE row
             /\ End(t)
    <2>1. Noted(t)
      <3>1. "error" \in RowStatus
        BY DEF RowStatus
      <3> QED BY <1>1, <1>2, <1>5, <3>1, NotedBoth
    <2>2. PICK w \in Requesting : /\ thread' = [thread EXCEPT ![t] = w] /\ RequestOK(w)
                                  /\ w.step = "idle" /\ w.runtime.id = NoId
      BY <1>1, <1>5, Ended
    <2> QED BY <1>1, <1>3, <1>5, <2>1, <2>2, StepSilencing
  <1> QED BY <1>4, <1>5 DEF AwaitCdp

-----------------------------------------------------------------------------
(* The steps that write about the account only.                            *)

LEMMA StepPlain ==
  ASSUME Inv, NEW t \in Threads, NEW w \in Requesting, thread' = [thread EXCEPT ![t] = w],
         thread[t].step # "idle", thread[t].op # "health", RequestOK(w),
         w.step # "idle" => w.account = Account(t) /\ w.op = thread[t].op /\ w.runtime = thread[t].runtime,
         w.step = "idle" => w.runtime.id = NoId,
         UNCHANGED <<row, chromes, base, forwarders, pids, cookies, since, mixed, bounds>>,
         link' \in [Accounts -> Nat], login' \in [Accounts -> BOOLEAN],
         snapshot' \in [Accounts -> BOOLEAN], deleted' \subseteq Accounts,
         \A a \in Accounts \ {Account(t)} :
           login'[a] = login[a] /\ snapshot'[a] = snapshot[a] /\ (a \in deleted' => a \in deleted),
         \A a \in Accounts \ mixed : Busy(t, a) =>
           /\ SinceReset(a)'
           /\ w.step # "idle" => HandOK(w, a)
           /\ a \in deleted' => w.step = "idle" /\ Silent(a)
  PROVE  Inv'
  <1>1. Types
    BY DEF Inv
  <1>2. Types'
    <2>1. OthersOK'
      BY <1>1 DEF Types, OthersOK, bounds
    <2>2. ids' = ids /\ row' \in [Accounts -> RowType] /\ \A a \in Accounts : Kept(a)
      BY <1>1 DEF bounds, Kept, Types, RowsOK
    <2>3. /\ w.runtime.id # NoId => w.account = Account(t)
          /\ w.runtime.id \in {thread[t].runtime.id, Row(t).id, NoId}
      OBVIOUS
    <2> QED BY <1>1, <2>1, <2>2, <2>3, StepTypes
  <1>3. \A a \in Accounts \ {Account(t)} : Aside(a) /\ login'[a] = login[a]
    BY DEF Aside
  <1>4. ASSUME NEW a \in Accounts, a \notin mixed', Busy(t, a)
        PROVE  /\ DataOK(a)' /\ (w.step # "idle" => HandOK(w, a)')
               /\ a \in deleted' => w.step = "idle"
    <2>1. AccountOK(a) /\ a \notin mixed
      BY <1>4 DEF Inv, Unmixed
    <2>2. SinceReset(a)' /\ (w.step # "idle" => HandOK(w, a)) /\ (a \in deleted' => w.step = "idle" /\ Silent(a))
      BY <1>4, <2>1
    <2>3. BrowsersOwned(a)' /\ ForwardersOwned(a)'
      BY <2>1 DEF AccountOK, DataOK, BrowsersOwned, ForwardersOwned, HasRow
    <2>4. a \in deleted' => Silent(a)'
      BY <2>2 DEF Silent
    <2>5. w.step # "idle" => HandOK(w, a)'
      BY <2>2 DEF HandOK, HasRow, Silent
    <2> QED BY <2>2, <2>3, <2>4, <2>5 DEF DataOK
  <1>5. Unmixed'
    BY <1>1, <1>3, <1>4, StepUnmixed
  <1> QED BY <1>2, <1>5 DEF Inv

LEMMA StepNoteLogin == ASSUME Inv, NEW t \in Threads, NoteLogin(t) PROVE Inv'
  <1>1. Types /\ thread[t].step = "note" /\ thread[t].op # "health" /\ Account(t) \in Accounts
    BY InHand DEF Inv, NoteLogin, At, Types, RequestsOK, RequestOK
  <1>2. PICK w \in Requesting : /\ thread' = [thread EXCEPT ![t] = w] /\ RequestOK(w)
                                /\ w.step = "idle" /\ w.runtime.id = NoId
    BY <1>1, Ended DEF NoteLogin
  <1>3. /\ UNCHANGED <<row, link, snapshot, deleted, chromes, base, forwarders, pids, cookies, since,
                       mixed, bounds>>
        /\ login' = [login EXCEPT ![Account(t)] = FALSE]
    BY DEF NoteLogin
  <1>4. /\ link' \in [Accounts -> Nat] /\ login' \in [Accounts -> BOOLEAN]
        /\ snapshot' \in [Accounts -> BOOLEAN] /\ deleted' \subseteq Accounts
    BY <1>1, <1>3 DEF Types, OthersOK
  <1>5. \A a \in Accounts \ {Account(t)} :
          login'[a] = login[a] /\ snapshot'[a] = snapshot[a] /\ (a \in deleted' => a \in deleted)
    BY <1>1, <1>3 DEF Types, OthersOK
  <1>6. ASSUME NEW a \in Accounts, a \notin mixed, Busy(t, a) PROVE SinceReset(a)' /\ a \notin deleted'
    <2>1. AccountOK(a) /\ a = Account(t)
      BY <1>6 DEF Inv, Unmixed, Busy
    <2>2. ~login'[a]
      BY <1>1, <1>3, <2>1 DEF Types, OthersOK
    <2>3. SinceReset(a)'
      BY <1>1, <1>2, <1>3, <2>1, <2>2, SinceKept DEF AccountOK, DataOK
    <2>4. a \notin deleted'
      BY <1>3, <1>6, <2>1 DEF AccountOK, Apart
    <2> QED BY <2>3, <2>4
  <1> QED BY <1>1, <1>2, <1>3, <1>4, <1>5, <1>6, StepPlain

LEMMA StepForgetLogin == ASSUME Inv, NEW t \in Threads, ForgetLogin(t) PROVE Inv'
  <1>1. Types /\ thread[t].step = "forget" /\ thread[t].op # "health" /\ Account(t) \in Accounts
    BY InHand DEF Inv, ForgetLogin, At, Types, RequestsOK, RequestOK
  <1>2. PICK w \in Requesting :
           /\ thread' = [thread EXCEPT ![t] = w] /\ RequestOK(w) /\ w.step = "get"
           /\ w.account = Account(t) /\ w.op = thread[t].op /\ w.runtime = thread[t].runtime
           /\ w.seen = thread[t].seen
    <2>1. "get" \in Steps
      BY DEF Steps
    <2> QED BY <1>1, <2>1, Went DEF ForgetLogin
  <1>3. /\ UNCHANGED <<row, snapshot, deleted, chromes, base, forwarders, pids, cookies, since,
                       mixed, bounds>>
        /\ login' = [login EXCEPT ![Account(t)] = FALSE] /\ link' = [link EXCEPT ![Account(t)] = NoId]
    BY DEF ForgetLogin
  <1>4. /\ link' \in [Accounts -> Nat] /\ login' \in [Accounts -> BOOLEAN]
        /\ snapshot' \in [Accounts -> BOOLEAN] /\ deleted' \subseteq Accounts
    BY <1>1, <1>3 DEF Types, OthersOK, NoId
  <1>5. \A a \in Accounts \ {Account(t)} :
          login'[a] = login[a] /\ snapshot'[a] = snapshot[a] /\ (a \in deleted' => a \in deleted)
    BY <1>1, <1>3 DEF Types, OthersOK
  <1>6. ASSUME NEW a \in Accounts, a \notin mixed, Busy(t, a)
        PROVE  SinceReset(a)' /\ a \notin deleted' /\ HandOK(w, a)
    <2>1. AccountOK(a) /\ a = Account(t)
      BY <1>6 DEF Inv, Unmixed, Busy
    <2>2. ~login'[a]
      BY <1>1, <1>3, <2>1 DEF Types, OthersOK
    <2>3. SinceReset(a)'
      BY <1>3, <2>1, <2>2 DEF AccountOK, DataOK, SinceReset
    <2>4. a \notin deleted'
      BY <1>3, <1>6, <2>1 DEF AccountOK, Apart
    <2>5. HandOK(w, a)
      BY <1>2 DEF HandOK
    <2> QED BY <2>3, <2>4, <2>5
  <1> QED BY <1>1, <1>2, <1>3, <1>4, <1>5, <1>6, StepPlain

LEMMA StepDropAccount == ASSUME Inv, NEW t \in Threads, DropAccount(t) PROVE Inv'
  <1>1. Types /\ thread[t].step = "drop" /\ thread[t].op # "health" /\ Account(t) \in Accounts
    BY InHand DEF Inv, DropAccount, At, Types, RequestsOK, RequestOK
  <1>2. PICK w \in Requesting : /\ thread' = [thread EXCEPT ![t] = w] /\ RequestOK(w)
                                /\ w.step = "idle" /\ w.runtime.id = NoId
    BY <1>1, Ended DEF DropAccount
  <1>3. /\ UNCHANGED <<row, link, login, snapshot, chromes, base, forwarders, pids, cookies, since,
                       mixed, bounds>>
        /\ deleted' = deleted \cup {Account(t)}
    BY DEF DropAccount
  <1>4. /\ link' \in [Accounts -> Nat] /\ login' \in [Accounts -> BOOLEAN]
        /\ snapshot' \in [Accounts -> BOOLEAN] /\ deleted' \subseteq Accounts
    BY <1>1, <1>3 DEF Types, OthersOK
  <1>5. \A a \in Accounts \ {Account(t)} :
          login'[a] = login[a] /\ snapshot'[a] = snapshot[a] /\ (a \in deleted' => a \in deleted)
    BY <1>1, <1>3 DEF Types, OthersOK
  <1>6. ASSUME NEW a \in Accounts, a \notin mixed, Busy(t, a) PROVE SinceReset(a)' /\ Silent(a)
    <2>1. AccountOK(a) /\ a = Account(t)
      BY <1>6 DEF Inv, Unmixed, Busy
    <2>2. SinceReset(a)'
      BY <1>1, <1>2, <1>3, <2>1, SinceKept DEF AccountOK, DataOK
    <2>3. Silent(a)
      BY <1>1, <1>6, <2>1 DEF AccountOK, HandOK
    <2> QED BY <2>2, <2>3
  <1> QED BY <1>1, <1>2, <1>3, <1>4, <1>5, <1>6, StepPlain

LEMMA StepSave == ASSUME Inv, NEW t \in Threads, Save(t) PROVE Inv'
  <1>1. Types /\ thread[t].step = "save" /\ thread[t].op # "health" /\ Account(t) \in Accounts
    BY InHand DEF Inv, Save, At, Types, RequestsOK, RequestOK
  <1>2. thread[t].runtime.id # NoId
    BY <1>1 DEF Types, RequestsOK, RequestOK
  <1>3. /\ UNCHANGED <<row, link, snapshot, deleted, chromes, base, forwarders, pids, cookies, since,
                       mixed, bounds>>
        /\ login' = [login EXCEPT ![Account(t)] = thread[t].seen]
        /\ thread[t].seen \in BOOLEAN
    BY <1>1 DEF Save, Types, RequestsOK, Requesting
  <1>4. /\ link' \in [Accounts -> Nat] /\ login' \in [Accounts -> BOOLEAN]
        /\ snapshot' \in [Accounts -> BOOLEAN] /\ deleted' \subseteq Accounts
    BY <1>1, <1>3 DEF Types, OthersOK
  <1>5. \A a \in Accounts \ {Account(t)} :
          login'[a] = login[a] /\ snapshot'[a] = snapshot[a] /\ (a \in deleted' => a \in deleted)
    BY <1>1, <1>3 DEF Types, OthersOK
  <1>6. ASSUME NEW a \in Accounts, a \notin mixed, Busy(t, a), NEW w, thread' = [thread EXCEPT ![t] = w]
        PROVE  SinceReset(a)' /\ a \notin deleted' /\ (thread[t].seen => since[a])
    <2>1. AccountOK(a) /\ a = Account(t)
      BY <1>6 DEF Inv, Unmixed, Busy
    <2>2. thread[t].seen => since[a]
      BY <1>1, <1>6, <2>1 DEF AccountOK, HandOK
    <2>3. login'[a] => since[a]
      <3>1. login'[a] = thread[t].seen
        BY <1>1, <1>3, <2>1 DEF Types, OthersOK
      <3> QED BY <2>2, <3>1
    <2>4. SinceReset(a)'
      BY <1>1, <1>3, <1>6, <2>1, <2>3, SinceKept DEF AccountOK, DataOK
    <2>5. a \notin deleted'
      BY <1>3, <1>6, <2>1 DEF AccountOK, Apart
    <2> QED BY <2>2, <2>4, <2>5
  <1>7. CASE thread[t].seen /\ Goto(t, "snap")
    <2>1. PICK w \in Requesting :
           /\ thread' = [thread EXCEPT ![t] = w] /\ RequestOK(w) /\ w.step = "snap"
           /\ w.account = Account(t) /\ w.op = thread[t].op /\ w.runtime = thread[t].runtime
           /\ w.seen = thread[t].seen
      <3>1. "snap" \in Steps
        BY DEF Steps
      <3> QED BY <1>1, <1>2, <1>7, <3>1, Went
    <2>2. \A a \in Accounts \ mixed : Busy(t, a) => SinceReset(a)' /\ a \notin deleted' /\ HandOK(w, a)
      BY <1>6, <1>7, <2>1 DEF HandOK
    <2> QED BY <1>1, <1>3, <1>4, <1>5, <2>1, <2>2, StepPlain
  <1>8. CASE ~thread[t].seen /\ End(t)
    <2>1. PICK w \in Requesting : /\ thread' = [thread EXCEPT ![t] = w] /\ RequestOK(w)
                                  /\ w.step = "idle" /\ w.runtime.id = NoId
      BY <1>1, <1>8, Ended
    <2>2. \A a \in Accounts \ mixed : Busy(t, a) => SinceReset(a)' /\ a \notin deleted'
      BY <1>6, <2>1
    <2> QED BY <1>1, <1>3, <1>4, <1>5, <2>1, <2>2, StepPlain
  <1> QED BY <1>7, <1>8 DEF Save

LEMMA StepSaveSnapshot == ASSUME Inv, NEW t \in Threads, SaveSnapshot(t) PROVE Inv'
  <1>1. Types /\ thread[t].step = "snap" /\ thread[t].op # "health" /\ Account(t) \in Accounts
    BY InHand DEF Inv, SaveSnapshot, At, Types, RequestsOK, RequestOK
  <1>2. PICK w \in Requesting : /\ thread' = [thread EXCEPT ![t] = w] /\ RequestOK(w)
                                /\ w.step = "idle" /\ w.runtime.id = NoId
    BY <1>1, Ended DEF SaveSnapshot
  <1>3. /\ UNCHANGED <<row, link, login, deleted, chromes, base, forwarders, pids, cookies, since,
                       mixed, bounds>>
        /\ snapshot' = snapshot \/ snapshot' = [snapshot EXCEPT ![Account(t)] = TRUE]
    BY DEF SaveSnapshot
  <1>4. /\ link' \in [Accounts -> Nat] /\ login' \in [Accounts -> BOOLEAN]
        /\ snapshot' \in [Accounts -> BOOLEAN] /\ deleted' \subseteq Accounts
    BY <1>1, <1>3 DEF Types, OthersOK
  <1>5. \A a \in Accounts \ {Account(t)} :
          login'[a] = login[a] /\ snapshot'[a] = snapshot[a] /\ (a \in deleted' => a \in deleted)
    BY <1>1, <1>3 DEF Types, OthersOK
  <1>6. ASSUME NEW a \in Accounts, a \notin mixed, Busy(t, a) PROVE SinceReset(a)' /\ a \notin deleted'
    <2>1. AccountOK(a) /\ a = Account(t)
      BY <1>6 DEF Inv, Unmixed, Busy
    <2>2. since[a]
      BY <1>1, <1>6, <2>1 DEF AccountOK, HandOK
    <2>3. SinceReset(a)'
      BY <1>1, <1>2, <1>3, <2>1, <2>2, SinceKept DEF AccountOK, DataOK
    <2>4. a \notin deleted'
      BY <1>3, <1>6, <2>1 DEF AccountOK, Apart
    <2> QED BY <2>3, <2>4
  <1> QED BY <1>1, <1>2, <1>3, <1>4, <1>5, <1>6, StepPlain

-----------------------------------------------------------------------------
(* The steps that delete and insert rows.                                  *)

LEMMA StepGet == ASSUME Inv, NEW t \in Threads, Get(t) PROVE Inv'
  <1>1. Types /\ thread[t].step = "get" /\ thread[t].op # "health" /\ Account(t) \in Accounts
    BY InHand DEF Inv, Get, At, Types, RequestsOK, RequestOK
  <1>2. /\ row \in [Accounts -> RowType] /\ mixed \subseteq Accounts
        /\ UNCHANGED <<login, deleted, chromes, base, forwarders, pids, cookies, snapshot, since, mixed, bounds>>
    BY <1>1 DEF Get, Types, RowsOK, OthersOK
  <1>3. CASE /\ Row(t) # NoRow /\ Matches(Row(t))
             /\ Have(t, Row(t), AfterCreate(t)) /\ UNCHANGED <<row, link>>
    <2>1. PICK s \in {"idle", "check", "launch"} : s = AfterCreate(t) /\ s # "launch"
      BY DEF AfterCreate
    <2>2. /\ Row(t) \in RowType /\ HasRow(Account(t)) /\ Row(t).id # NoId
          /\ Row(t).id \in 1..ids /\ Row(t).port \in Ports
      BY <1>1, <1>2, <1>3 DEF Types, RowsOK, Row, HasRow
    <2>3. PICK r \in RowType : r = Row(t)
      BY <2>2
    <2>4. PICK w \in Requesting :
           /\ thread' = [thread EXCEPT ![t] = w] /\ RequestOK(w) /\ w.step = s
           /\ w.account = Account(t) /\ w.op = thread[t].op /\ w.runtime = r
      BY <1>1, <1>3, <2>1, <2>2, <2>3, TookRow
    <2>5. \A a \in Accounts \ mixed : Busy(t, a) => HandOK(w, a)
      BY <1>3, <2>1, <2>2, <2>3, <2>4 DEF HandOK, Busy, Row, Matches
    <2>6. /\ w.step = "idle" \/ (w.account = Account(t) /\ w.op = thread[t].op)
          /\ w.runtime.id # NoId => w.account = Account(t)
          /\ w.runtime.id \in {thread[t].runtime.id, Row(t).id, NoId}
      BY <2>3, <2>4
    <2>7. Noted(t)
      BY <1>3 DEF Noted
    <2> QED BY <1>1, <1>2, <1>3, <2>4, <2>5, <2>6, <2>7, QuietStep
  <1>4. CASE /\ ~(Row(t) # NoRow /\ Matches(Row(t)))
             /\ row' = [row EXCEPT ![Account(t)] = NoRow]
             /\ link' = IF Row(t) = NoRow THEN link ELSE [link EXCEPT ![Account(t)] = NoId]
             /\ Goto(t, "alloc")
    <2>1. PICK w \in Requesting :
           /\ thread' = [thread EXCEPT ![t] = w] /\ RequestOK(w) /\ w.step = "alloc"
           /\ w.account = Account(t) /\ w.op = thread[t].op /\ w.runtime = thread[t].runtime
           /\ w.seen = thread[t].seen
      <3>1. "alloc" \in Steps
        BY DEF Steps
      <3> QED BY <1>1, <1>4, <3>1, Went
    <2>2. /\ row' \in [Accounts -> RowType] /\ \A a \in Accounts : Kept(a)
          /\ row'[Account(t)] = NoRow /\ \A a \in Accounts \ {Account(t)} : row'[a] = row[a]
      BY <1>1, <1>2, <1>4, IdleOK DEF Kept
    <2>3. Types'
      <3>1. link' \in [Accounts -> Nat]
        BY <1>1, <1>4 DEF Types, OthersOK, NoId
      <3>2. OthersOK'
        BY <1>1, <1>2, <3>1 DEF Types, OthersOK, bounds
      <3>3. ids' = ids
        BY <1>2 DEF bounds
      <3>4. /\ w.runtime.id # NoId => w.account = Account(t)
            /\ w.runtime.id \in {thread[t].runtime.id, Row(t).id, NoId}
        BY <2>1
      <3> QED BY <1>1, <2>1, <2>2, <3>2, <3>3, <3>4, StepTypes
    <2>4. \A a \in Accounts \ {Account(t)} : Aside(a) /\ login'[a] = login[a]
      BY <1>2, <2>2 DEF Aside
    <2>5. ASSUME NEW a \in Accounts, a \notin mixed', Busy(t, a)
          PROVE  DataOK(a)' /\ HandOK(w, a)' /\ a \notin deleted'
      <3>1. AccountOK(a) /\ a = Account(t)
        BY <1>2, <2>5 DEF Inv, Unmixed, Busy
      <3>2. Silent(a)
        <4>1. ~HasRow(a) \/ row[a].address # base
          BY <1>4, <3>1 DEF Row, Matches, HasRow, NoRow
        <4> QED BY <3>1, <4>1 DEF AccountOK, DataOK, BrowsersOwned, ForwardersOwned, Silent
      <3>3. Silent(a)'
        BY <1>2, <3>2 DEF Silent
      <3>4. SinceReset(a)'
        BY <1>1, <1>2, <2>1, <3>1, SinceKept DEF AccountOK, DataOK
      <3>5. DataOK(a)'
        BY <3>3, <3>4 DEF DataOK, BrowsersOwned, ForwardersOwned, Silent
      <3>6. HandOK(w, a)'
        BY <2>1, <2>2, <3>1 DEF HandOK, HasRow, NoRow
      <3>7. a \notin deleted'
        BY <1>2, <2>5, <3>1 DEF AccountOK, Apart
      <3> QED BY <3>5, <3>6, <3>7
    <2>6. Unmixed'
      BY <1>1, <1>2, <2>1, <2>4, <2>5, StepUnmixed
    <2> QED BY <2>3, <2>6 DEF Inv
  <1> QED BY <1>3, <1>4 DEF Get

LEMMA StepWipeProfile == ASSUME Inv, NEW t \in Threads, WipeProfile(t) PROVE Inv'
  <1>1. /\ Types /\ thread[t].step = "wipe" /\ thread[t].op = "reset"
        /\ thread[t].runtime.id # NoId /\ Account(t) \in Accounts
    BY InHand DEF Inv, WipeProfile, At, Types, RequestsOK, RequestOK
  <1>2. /\ row \in [Accounts -> RowType] /\ mixed \subseteq Accounts
        /\ UNCHANGED <<link, login, deleted, chromes, base, forwarders, pids, mixed, bounds>>
        /\ cookies' = [cookies EXCEPT ![Account(t)] = FALSE]
        /\ snapshot' = [snapshot EXCEPT ![Account(t)] = FALSE]
        /\ since' = [since EXCEPT ![Account(t)] = FALSE]
        /\ row' = IF Mine(t) THEN [row EXCEPT ![Account(t)] = NoRow] ELSE row
    BY <1>1 DEF WipeProfile, Types, RowsOK, OthersOK
  <1>3. PICK w \in Requesting :
           /\ thread' = [thread EXCEPT ![t] = w] /\ RequestOK(w) /\ w.step = "forget"
           /\ w.account = Account(t) /\ w.op = thread[t].op /\ w.runtime = thread[t].runtime
           /\ w.seen = thread[t].seen
    <2>1. "forget" \in Steps
      BY DEF Steps
    <2> QED BY <1>1, <2>1, Went DEF WipeProfile
  <1>4. /\ row' \in [Accounts -> RowType] /\ \A a \in Accounts : Kept(a)
        /\ \A a \in Accounts \ {Account(t)} : row'[a] = row[a]
    BY <1>1, <1>2, IdleOK DEF Kept
  <1>5. Types'
    <2>1. OthersOK'
      BY <1>1, <1>2 DEF Types, OthersOK, bounds
    <2>2. ids' = ids
      BY <1>2 DEF bounds
    <2>3. /\ w.runtime.id # NoId => w.account = Account(t)
          /\ w.runtime.id \in {thread[t].runtime.id, Row(t).id, NoId}
      BY <1>3
    <2> QED BY <1>1, <1>3, <1>4, <2>1, <2>2, <2>3, StepTypes
  <1>6. \A a \in Accounts \ {Account(t)} : Aside(a) /\ login'[a] = login[a]
    <2>1. \A a \in Accounts \ {Account(t)} :
            cookies'[a] = cookies[a] /\ snapshot'[a] = snapshot[a] /\ since'[a] = since[a]
      BY <1>1, <1>2 DEF Types, OthersOK
    <2> QED BY <1>2, <1>4, <2>1 DEF Aside
  <1>7. ASSUME NEW a \in Accounts, a \notin mixed', Busy(t, a)
        PROVE  DataOK(a)' /\ HandOK(w, a)' /\ a \notin deleted'
    <2>1. AccountOK(a) /\ a = Account(t)
      BY <1>2, <1>7 DEF Inv, Unmixed, Busy
    <2>2. Silent(a)'
      BY <1>1, <1>2, <1>7, <2>1 DEF AccountOK, HandOK, Silent
    <2>3. SinceReset(a)'
      <3>1. ~cookies'[a] /\ ~snapshot'[a]
        BY <1>1, <1>2, <2>1 DEF Types, OthersOK
      <3>2. (At(t, "forget") /\ Account(t) = a)'
        <4>1. thread'[t] = w
          BY <1>1, <1>3 DEF Types, RequestsOK
        <4> QED BY <1>3, <2>1, <4>1 DEF At, Account
      <3> QED BY <3>1, <3>2 DEF SinceReset
    <2>4. DataOK(a)'
      BY <2>2, <2>3 DEF DataOK, BrowsersOwned, ForwardersOwned, Silent
    <2>5. HandOK(w, a)'
      BY <1>3 DEF HandOK
    <2>6. a \notin deleted'
      BY <1>2, <1>7, <2>1 DEF AccountOK, Apart
    <2> QED BY <2>4, <2>5, <2>6
  <1>8. Unmixed'
    BY <1>1, <1>2, <1>3, <1>6, <1>7, StepUnmixed
  <1> QED BY <1>5, <1>8 DEF Inv

\* A new row has an id and a port that no row and no request knows.
LEMMA NewRow ==
  ASSUME Types, NEW t \in Threads, NEW w \in Requesting, thread[t].step = "insert",
         NEW r \in RowType, r.id = ids + 1, r.port \in Ports, ~PortTaken(r.port), ids < MaxRows,
         ids' = ids + 1, row' = [row EXCEPT ![Account(t)] = r], ~HasRow(Account(t)),
         thread' = [thread EXCEPT ![t] = w], w.account = Account(t), w.runtime = r,
         w.step \in {"idle", "check"}, w.op = thread[t].op, OthersOK'
  PROVE  Types'
  <1>1. /\ Account(t) \in Accounts /\ row \in [Accounts -> RowType] /\ ids \in Nat
        /\ thread \in [Threads -> Requesting] /\ thread[t].op # "health"
        /\ thread[t].op \in Operations
    BY InHand DEF Types, RowsOK, OthersOK, RequestsOK, RequestOK
  <1>2. row'[Account(t)] = r /\ \A a \in Accounts \ {Account(t)} : row'[a] = row[a]
    BY <1>1
  <1>3. \A a \in Accounts : row[a].id < ids + 1
    BY <1>1 DEF Types, RowsOK, HasRow, NoId
  <1>4. \A u \in Threads : thread[u].runtime.id < ids + 1
    BY <1>1 DEF Types, RequestsOK, RequestOK, NoId
  <1>5. RequestsOK'
    <2>1. ASSUME NEW u \in Threads PROVE RequestOK(thread[u])'
      <3>1. CASE u # t
        <4>1. thread'[u] = thread[u] /\ RequestOK(thread[u])
          BY <1>1, <3>1 DEF Types, RequestsOK
        <4>2. \A i : i \in 1..ids => i \in 1..(ids + 1)
          BY <1>1
        <4> QED BY <4>1, <4>2 DEF RequestOK
      <3>2. CASE u = t
        <4>1. thread'[u] = w
          BY <1>1, <3>2
        <4>2. ids + 1 \in 1..(ids + 1) /\ ids + 1 # NoId
          BY <1>1 DEF NoId
        <4> QED BY <1>1, <4>1, <4>2 DEF RequestOK
      <3> QED BY <3>1, <3>2
    <2> QED BY <1>1, <2>1 DEF RequestsOK
  <1>6. RowsOK'
    <2>1. ASSUME NEW a \in Accounts
          PROVE  IF row'[a].id # NoId THEN row'[a].id \in 1..ids' /\ row'[a].port \in Ports
                 ELSE row'[a] = NoRow
      <3>1. CASE a = Account(t)
        BY <1>1, <1>2, <3>1 DEF NoId
      <3>2. CASE a # Account(t)
        BY <1>1, <1>2, <3>2 DEF Types, RowsOK, HasRow
      <3> QED BY <3>1, <3>2
    <2>2. row' \in [Accounts -> RowType]
      BY <1>1
    <2> QED BY <2>1, <2>2 DEF RowsOK, HasRow
  <1>7. RowsApart'
    <2> SUFFICES ASSUME NEW a \in Accounts, NEW b \in Accounts, row'[a].id # NoId, row'[b].id # NoId,
                        row'[a].id = row'[b].id \/ row'[a].port = row'[b].port
                 PROVE  a = b
      BY DEF RowsApart, HasRow
    <2>1. \A c \in Accounts \ {Account(t)} : row'[c].id # ids + 1 /\ row'[c].port # r.port
      BY <1>1, <1>2, <1>3 DEF PortTaken
    <2>2. CASE a = Account(t) \/ b = Account(t)
      BY <1>2, <2>1, <2>2
    <2>3. CASE a # Account(t) /\ b # Account(t)
      BY <1>2, <2>3 DEF Types, RowsApart, HasRow
    <2> QED BY <2>2, <2>3
  <1>8. IdsOwned'
    <2> SUFFICES ASSUME NEW u \in Threads, NEW a \in Accounts, row'[a].id # NoId,
                        thread'[u].runtime.id = row'[a].id
                 PROVE  thread'[u].account = a
      BY DEF IdsOwned, HasRow, Account
    <2>1. \A v \in Threads \ {t} : thread'[v] = thread[v]
      BY <1>1
    <2>2. thread'[t] = w
      BY <1>1
    <2>3. CASE u = t
      <3>1. row'[a].id = ids + 1
        BY <2>2, <2>3
      <3>2. a = Account(t)
        BY <1>1, <1>2, <1>3, <3>1
      <3> QED BY <2>2, <2>3, <3>2
    <2>4. CASE u # t
      <3>1. thread[u].runtime.id # ids + 1 /\ thread'[u] = thread[u]
        BY <1>1, <1>4, <2>1, <2>4
      <3>2. a # Account(t)
        BY <1>2, <3>1
      <3>3. row'[a] = row[a]
        BY <1>2, <3>2
      <3> QED BY <3>1, <3>3 DEF Types, IdsOwned, HasRow, Account
    <2> QED BY <2>3, <2>4
  <1> QED BY <1>5, <1>6, <1>7, <1>8 DEF Types

LEMMA StepInsert == ASSUME Inv, NEW t \in Threads, Insert(t) PROVE Inv'
  <1>1. /\ Types /\ thread[t].step = "insert" /\ thread[t].step \notin {"idle", "forget"}
        /\ thread[t].op # "health" /\ thread[t].port \in Ports /\ Account(t) \in Accounts
        /\ thread[t] \in Requesting /\ thread \in [Threads -> Requesting]
    BY InHand DEF Inv, Insert, At, Types, RequestsOK, RequestOK
  <1>2. /\ row \in [Accounts -> RowType] /\ mixed \subseteq Accounts
        /\ UNCHANGED <<login, deleted, chromes, base, forwarders, pids, cookies, snapshot, since, mixed,
                       requests, launches, faults>>
    BY <1>1 DEF Insert, Types, RowsOK, OthersOK
  <1>3. PICK s \in {"idle", "check", "launch"} : s = AfterCreate(t) /\ s # "launch"
    BY DEF AfterCreate
  <1>4. CASE Row(t) # NoRow /\ Have(t, Row(t), AfterCreate(t)) /\ UNCHANGED <<row, link, ids>>
    <2>1. /\ Row(t) \in RowType /\ HasRow(Account(t)) /\ Row(t).id # NoId
          /\ Row(t).id \in 1..ids /\ Row(t).port \in Ports
      BY <1>1, <1>2, <1>4 DEF Types, RowsOK, Row, HasRow
    <2>2. PICK r \in RowType : r = Row(t)
      BY <2>1
    <2>3. PICK w \in Requesting :
           /\ thread' = [thread EXCEPT ![t] = w] /\ RequestOK(w) /\ w.step = s
           /\ w.account = Account(t) /\ w.op = thread[t].op /\ w.runtime = r
      BY <1>1, <1>3, <1>4, <2>1, <2>2, TookRow
    <2>4. \A a \in Accounts \ mixed : ~Busy(t, a)
      BY <1>1, <2>1 DEF Inv, Unmixed, AccountOK, HandOK, Busy
    <2>5. /\ w.step = "idle" \/ (w.account = Account(t) /\ w.op = thread[t].op)
          /\ w.runtime.id # NoId => w.account = Account(t)
          /\ w.runtime.id \in {thread[t].runtime.id, Row(t).id, NoId}
      BY <2>2, <2>3
    <2>6. /\ Noted(t)
          /\ UNCHANGED <<link, login, deleted, chromes, base, forwarders, pids, cookies, snapshot, since,
                         bounds>>
      BY <1>2, <1>4 DEF Noted, bounds
    <2> QED BY <1>1, <1>2, <2>3, <2>4, <2>5, <2>6, QuietStep
  <1>5. CASE Goto(t, "alloc") /\ UNCHANGED <<row, link, ids>>
    <2>1. PICK w \in Requesting :
           /\ thread' = [thread EXCEPT ![t] = w] /\ RequestOK(w) /\ w.step = "alloc"
           /\ w.account = Account(t) /\ w.op = thread[t].op /\ w.runtime = thread[t].runtime
           /\ w.seen = thread[t].seen
      <3>1. "alloc" \in Steps
        BY DEF Steps
      <3> QED BY <1>1, <1>5, <3>1, Went
    <2>2. \A a \in Accounts \ mixed : Busy(t, a) => HandOK(w, a)
      BY <1>1, <2>1 DEF Inv, Unmixed, AccountOK, HandOK
    <2>3. /\ w.step = "idle" \/ (w.account = Account(t) /\ w.op = thread[t].op)
          /\ w.runtime.id # NoId => w.account = Account(t)
          /\ w.runtime.id \in {thread[t].runtime.id, Row(t).id, NoId}
      BY <2>1
    <2>4. /\ Noted(t)
          /\ UNCHANGED <<link, login, deleted, chromes, base, forwarders, pids, cookies, snapshot, since,
                         bounds>>
      BY <1>2, <1>5 DEF Noted, bounds
    <2> QED BY <1>1, <1>2, <2>1, <2>2, <2>3, <2>4, QuietStep
  <1>6. CASE /\ Row(t) = NoRow /\ ~PortTaken(thread[t].port) /\ ids < MaxRows /\ ids' = ids + 1
             /\ row' = [row EXCEPT ![Account(t)] = [id |-> ids + 1, port |-> thread[t].port,
                                                    address |-> base, status |-> "stopped", pid |-> 0]]
             /\ link' = [link EXCEPT ![Account(t)] = ids + 1]
             /\ Have(t, row'[Account(t)], AfterCreate(t))
    <2>1. ids \in Nat /\ base \in Addresses /\ link \in [Accounts -> Nat]
      BY <1>1 DEF Types, OthersOK
    <2>2. PICK r \in RowType : r = [id |-> ids + 1, port |-> thread[t].port,
                                    address |-> base, status |-> "stopped", pid |-> 0]
      <3>1. ids + 1 \in Nat /\ "stopped" \in RowStatus /\ 0 \in Nat /\ thread[t].port \in Ports \cup {NoPort}
        BY <1>1, <2>1 DEF RowStatus
      <3> QED BY <2>1, <3>1 DEF RowType
    <2>3. /\ r.id = ids + 1 /\ r.port = thread[t].port /\ r.address = base
          /\ row' = [row EXCEPT ![Account(t)] = r] /\ row'[Account(t)] = r
          /\ \A a \in Accounts \ {Account(t)} : row'[a] = row[a]
      BY <1>1, <1>2, <1>6, <2>2
    <2>4. PICK w \in Requesting : w = [thread[t] EXCEPT !.step = s, !.runtime = r]
      BY <1>1 DEF Requesting, Steps
    <2>5. /\ thread' = [thread EXCEPT ![t] = w]
          /\ w.step = s /\ w.account = Account(t) /\ w.op = thread[t].op /\ w.runtime = r
      BY <1>1, <1>3, <1>6, <2>3, <2>4 DEF Requesting, Account, Have
    <2>6. ~HasRow(Account(t))
      BY <1>6 DEF HasRow, Row, NoRow
    <2>7. OthersOK'
      <3>1. MaxRows \in Nat /\ ids + 1 \in Nat
        BY <2>1, BoundAssumption
      <3>2. link' \in [Accounts -> Nat]
        BY <1>6, <2>1, <3>1
      <3>3. ids' \in 0..MaxRows
        BY <1>6, <2>1, <3>1
      <3> QED BY <1>1, <1>2, <3>2, <3>3 DEF Types, OthersOK
    <2>8. Types'
      <3>1. r.port \in Ports /\ ~PortTaken(r.port) /\ w.step \in {"idle", "check"}
        BY <1>1, <1>3, <1>6, <2>3, <2>5
      <3> QED BY <1>1, <1>6, <2>3, <2>5, <2>6, <2>7, <3>1, NewRow
    <2>9. \A a \in Accounts \ {Account(t)} : Aside(a) /\ login'[a] = login[a]
      BY <1>2, <2>3 DEF Aside
    <2>10. ASSUME NEW a \in Accounts, a \notin mixed', Busy(t, a)
           PROVE  DataOK(a)' /\ (w.step # "idle" => HandOK(w, a)') /\ a \notin deleted'
      <3>1. AccountOK(a) /\ a = Account(t)
        BY <1>2, <2>10 DEF Inv, Unmixed, Busy
      <3>2. Silent(a)
        BY <2>6, <3>1 DEF AccountOK, DataOK, BrowsersOwned, ForwardersOwned, Silent
      <3>3. Silent(a)'
        BY <1>2, <3>2 DEF Silent
      <3>4. SinceReset(a)'
        BY <1>1, <1>2, <2>5, <3>1, SinceKept DEF AccountOK, DataOK
      <3>5. DataOK(a)'
        BY <3>3, <3>4 DEF DataOK, BrowsersOwned, ForwardersOwned, Silent
      <3>6. w.step # "idle" => HandOK(w, a)'
        <4>1. /\ HasRow(a)' /\ w.runtime = row'[a] /\ row'[a].address = base'
          BY <1>2, <2>1, <2>3, <2>5, <3>1 DEF HasRow, NoId
        <4> QED BY <1>3, <2>5, <4>1 DEF HandOK
      <3>7. a \notin deleted'
        BY <1>2, <2>10, <3>1 DEF AccountOK, Apart
      <3> QED BY <3>5, <3>6, <3>7
    <2>11. Unmixed'
      BY <1>1, <1>2, <2>5, <2>9, <2>10, StepUnmixed
    <2> QED BY <2>8, <2>11 DEF Inv
  <1> QED BY <1>4, <1>5, <1>6 DEF Insert

-----------------------------------------------------------------------------
(* A launch.                                                               *)

\* What a launch leaves of an account's browsers and forwarders: at most the new
\* browser, with the number the row knows, and a forwarder for the row's port.
Launched(t) ==
  LET r == thread[t].runtime
      chrome == [pid |-> launches + 1, account |-> Account(t), port |-> r.port]
  IN
  /\ pids' = [pids EXCEPT ![r.id] = IF launches' = launches THEN 0 ELSE launches + 1]
  /\ \/ launches' = launches /\ chromes' = Killed(r.id)
        /\ forwarders' \subseteq forwarders /\ cookies' = cookies
     \/ launches' = launches + 1 /\ chromes' = Killed(r.id) \cup {chrome}
        /\ \/ forwarders' \subseteq forwarders
           \/ forwarders' = Without(r.id) \cup {[id |-> r.id, account |-> Account(t), port |-> r.port]}
        /\ RestoreSnapshot(Account(t))

LEMMA LaunchedOthers ==
  ASSUME Types, NEW t \in Threads, thread[t].step = "launch", Launched(t), Noted(t),
         UNCHANGED <<link, login, deleted, base, snapshot, since, mixed, requests, ids, faults>>
  PROVE  /\ OthersOK'
         /\ \A a \in Accounts \ {Account(t)} : Aside(a) /\ login'[a] = login[a]
  <1>1. /\ thread[t].step # "idle" /\ RequestOK(thread[t]) /\ thread[t].runtime.id # NoId
        /\ thread[t].runtime.port \in Ports /\ Account(t) \in Accounts
        /\ thread[t].runtime.id \in 1..MaxRows /\ thread[t].runtime.id \in Nat
    BY InHand DEF Types, RequestsOK, RequestOK, RowType
  <1>2. /\ launches \in Nat /\ pids \in [1..MaxRows -> 0..launches]
        /\ chromes \subseteq Chrome /\ (\A b \in chromes : b.pid \in 1..launches)
        /\ forwarders \subseteq Forwarder
        /\ cookies \in [Accounts -> BOOLEAN] /\ snapshot \in [Accounts -> BOOLEAN]
    BY DEF Types, OthersOK
  <1>3. cookies' \in [Accounts -> BOOLEAN] /\ \A a \in Accounts \ {Account(t)} : cookies'[a] = cookies[a]
    BY <1>1, <1>2 DEF Launched, RestoreSnapshot
  <1>4. pids' \in [1..MaxRows -> 0..launches'] /\ launches' \in Nat
    <2>1. launches' \in {launches, launches + 1} /\ launches' \in Nat
      BY <1>2 DEF Launched
    <2>2. 0..launches \subseteq 0..launches' /\ (IF launches' = launches THEN 0 ELSE launches + 1) \in 0..launches'
      BY <1>2, <2>1
    <2> QED BY <1>1, <1>2, <2>1, <2>2 DEF Launched
  <1>5. chromes' \subseteq Chrome /\ \A b \in chromes' : b.pid \in 1..launches'
    <2>1. CASE chromes' = Killed(thread[t].runtime.id) /\ launches' = launches
      BY <1>2, <2>1 DEF Killed
    <2>2. CASE /\ launches' = launches + 1
               /\ chromes' = Killed(thread[t].runtime.id) \cup
                    {[pid |-> launches + 1, account |-> Account(t), port |-> thread[t].runtime.port]}
      BY <1>1, <1>2, <2>2 DEF Killed, Chrome
    <2> QED BY <2>1, <2>2 DEF Launched
  <1>6. forwarders' \subseteq Forwarder
    BY <1>1, <1>2 DEF Launched, Without, Forwarder
  <1>7. OthersOK'
    BY <1>3, <1>4, <1>5, <1>6 DEF Types, OthersOK
  <1>8. \A a \in Accounts \ {Account(t)} : HasRow(a) => pids'[row[a].id] = pids[row[a].id]
    BY <1>1, OtherPids DEF Launched
  <1>9. \A a \in Accounts : /\ row'[a].id = row[a].id /\ row'[a].port = row[a].port
                            /\ row'[a].address = row[a].address
    BY <1>1, NotedRows
  <1>10. \A a \in Accounts \ {Account(t)} :
           /\ \A b \in chromes' : b.account = a => b \in chromes
           /\ \A f \in forwarders' : f.account = a => f \in forwarders
    BY DEF Launched, Killed, Without
  <1>11. \A a \in Accounts \ {Account(t)} : Aside(a) /\ login'[a] = login[a]
    BY <1>3, <1>8, <1>9, <1>10 DEF Aside
  <1> QED BY <1>7, <1>11

LEMMA LaunchedOwn ==
  ASSUME Inv, NEW t \in Threads, thread[t].step = "launch", Launched(t), Noted(t),
         NEW w, thread' = [thread EXCEPT ![t] = w],
         UNCHANGED <<link, login, deleted, base, snapshot, since, mixed, requests, ids, faults>>,
         NEW a \in Accounts, a \notin mixed, Busy(t, a)
  PROVE  DataOK(a)' /\ a \notin deleted'
  <1>1. /\ Types /\ AccountOK(a) /\ a = Account(t) /\ thread[t].step \notin {"idle", "forget"}
    BY DEF Inv, Unmixed, Busy
  <1>2. /\ HasRow(a) /\ thread[t].runtime.id = row[a].id
        /\ thread[t].runtime.port = row[a].port /\ row[a].address = base
    BY <1>1 DEF AccountOK, HandOK
  <1>3. /\ row'[a].id = row[a].id /\ row'[a].port = row[a].port /\ row'[a].address = row[a].address
    BY <1>1, NotedRows
  <1>4. /\ \A b \in Killed(row[a].id) : b.account # a
        /\ \A f \in Without(row[a].id) : f.account # a
    BY <1>1, AllEnded
  <1>5. BrowsersOwned(a)'
    <2> SUFFICES ASSUME NEW b \in chromes', b.account = a
                 PROVE  /\ HasRow(a)' /\ row'[a].address = base'
                        /\ b.port = row'[a].port /\ b.pid = pids'[row'[a].id]
      BY DEF BrowsersOwned, HasRow
    <2>1. /\ b = [pid |-> launches + 1, account |-> Account(t), port |-> thread[t].runtime.port]
          /\ launches' = launches + 1
      BY <1>2, <1>4 DEF Launched
    <2>2. pids' = [pids EXCEPT ![row[a].id] = launches + 1]
      <3>1. launches' # launches
        BY <1>1, <2>1 DEF Types, OthersOK
      <3> QED BY <1>2, <3>1 DEF Launched
    <2>3. pids'[row[a].id] = launches + 1
      BY <1>1, <1>2, <2>2, RowIds DEF Types, OthersOK
    <2> QED BY <1>2, <1>3, <2>1, <2>3 DEF HasRow
  <1>6. ForwardersOwned(a)'
    <2> SUFFICES ASSUME NEW f \in forwarders', f.account = a
                 PROVE  /\ HasRow(a)' /\ row'[a].address = base'
                        /\ f.id = row'[a].id /\ f.port = row'[a].port
      BY DEF ForwardersOwned, HasRow
    <2>1. CASE f \in forwarders
      BY <1>1, <1>3, <2>1 DEF AccountOK, DataOK, ForwardersOwned, HasRow
    <2>2. CASE f \notin forwarders
      <3>1. f = [id |-> thread[t].runtime.id, account |-> Account(t), port |-> thread[t].runtime.port]
        BY <2>2 DEF Launched, Without
      <3> QED BY <1>2, <1>3, <3>1 DEF HasRow
    <2> QED BY <2>1, <2>2
  <1>7. SinceReset(a)'
    <2>1. cookies'[a] => cookies[a] \/ snapshot[a]
      BY <1>1 DEF Launched, RestoreSnapshot, Types, OthersOK
    <2> QED BY <1>1, <2>1, SinceKept DEF AccountOK, DataOK
  <1>8. a \notin deleted'
    BY <1>1 DEF AccountOK, Apart
  <1> QED BY <1>5, <1>6, <1>7, <1>8 DEF DataOK

LEMMA StepLaunch == ASSUME Inv, NEW t \in Threads, Launch(t) PROVE Inv'
  <1>1. /\ Types /\ thread[t].step = "launch" /\ thread[t].runtime.id # NoId
        /\ thread[t].op # "health" /\ row \in [Accounts -> RowType] /\ launches \in Nat
    BY DEF Inv, Launch, At, Types, RequestsOK, RequestOK, RowsOK, OthersOK
  <1>2. UNCHANGED <<link, login, deleted, base, snapshot, since, mixed, requests, ids, faults>>
    BY DEF Launch
  <1>3. Launched(t)
    <2>1. launches # launches + 1
      BY <1>1
    <2>2. forwarders' \in {forwarders, Without(thread[t].runtime.id)} => forwarders' \subseteq forwarders
      BY DEF Without
    <2>3. forwarders' = Forwarding(Account(t), thread[t].runtime) =>
            \/ forwarders' \subseteq forwarders
            \/ forwarders' = Without(thread[t].runtime.id) \cup
                 {[id |-> thread[t].runtime.id, account |-> Account(t), port |-> thread[t].runtime.port]}
      BY DEF Forwarding
    <2>4. UNCHANGED cookies => RestoreSnapshot(Account(t))
      BY DEF RestoreSnapshot
    <2>5. ASSUME chromes' = Killed(thread[t].runtime.id), pids' = [pids EXCEPT ![thread[t].runtime.id] = 0],
                 forwarders' \in {forwarders, Without(thread[t].runtime.id)}, UNCHANGED <<launches, cookies>>
          PROVE  Launched(t)
      BY <2>2, <2>5 DEF Launched
    <2>6. ASSUME chromes' = Killed(thread[t].runtime.id) \cup
                   {[pid |-> launches + 1, account |-> Account(t), port |-> thread[t].runtime.port]},
                 pids' = [pids EXCEPT ![thread[t].runtime.id] = launches + 1], launches' = launches + 1,
                 RestoreSnapshot(Account(t)),
                 \/ forwarders' = Without(thread[t].runtime.id)
                 \/ forwarders' = Forwarding(Account(t), thread[t].runtime)
          PROVE  Launched(t)
      BY <2>1, <2>2, <2>3, <2>6 DEF Launched
    <2> QED BY <2>4, <2>5, <2>6 DEF Launch, Replaced
  <1>4. (Noted(t) /\ End(t)) \/ (Noted(t) /\ Goto(t, "confirm"))
    <2>1. Update(t, "error") => Noted(t)
      <3>1. "error" \in RowStatus
        BY DEF RowStatus
      <3> QED BY <1>1, <3>1, NotedStatus
    <2>2. UNCHANGED row => Noted(t)
      BY DEF Noted
    <2> QED BY <2>1, <2>2 DEF Launch
  <1>5. /\ row' \in [Accounts -> RowType] /\ \A a \in Accounts : Kept(a)
        /\ \A a \in Accounts : /\ row'[a].id = row[a].id /\ row'[a].port = row[a].port
                               /\ row'[a].address = row[a].address
    BY <1>1, <1>4, NotedRows
  <1>6. PICK w \in Requesting :
           /\ thread' = [thread EXCEPT ![t] = w] /\ RequestOK(w)
           /\ \/ w.step = "idle" /\ w.runtime.id = NoId
              \/ /\ w.step = "confirm" /\ w.account = Account(t) /\ w.op = thread[t].op
                 /\ w.runtime = thread[t].runtime
    <2>1. CASE End(t)
      BY <1>1, <2>1, Ended
    <2>2. CASE Goto(t, "confirm")
      <3>1. "confirm" \in Steps
        BY DEF Steps
      <3> QED BY <1>1, <2>2, <3>1, Went
    <2> QED BY <1>4, <2>1, <2>2
  <1>7. OthersOK' /\ \A a \in Accounts \ {Account(t)} : Aside(a) /\ login'[a] = login[a]
    BY <1>1, <1>2, <1>3, <1>4, LaunchedOthers
  <1>8. Types'
    <2>1. /\ w.runtime.id # NoId => w.account = Account(t)
          /\ w.runtime.id \in {thread[t].runtime.id, Row(t).id, NoId}
      BY <1>6
    <2> QED BY <1>1, <1>2, <1>5, <1>6, <1>7, <2>1, StepTypes
  <1>9. ASSUME NEW a \in Accounts, a \notin mixed', Busy(t, a)
        PROVE  DataOK(a)' /\ (w.step # "idle" => HandOK(w, a)') /\ a \notin deleted'
    <2>1. a \notin mixed /\ AccountOK(a)
      BY <1>2, <1>9 DEF Inv, Unmixed
    <2>2. DataOK(a)' /\ a \notin deleted'
      BY <1>1, <1>2, <1>3, <1>4, <1>6, <1>9, <2>1, LaunchedOwn
    <2>3. w.step # "idle" => HandOK(w, a)'
      <3>1. HandOK(thread[t], a)
        BY <1>9, <2>1 DEF AccountOK
      <3> QED BY <1>1, <1>2, <1>5, <1>6, <1>9, <3>1 DEF HandOK, HasRow
    <2> QED BY <2>2, <2>3
  <1>10. Unmixed'
    BY <1>1, <1>2, <1>6, <1>7, <1>9, StepUnmixed
  <1> QED BY <1>8, <1>10 DEF Inv

-----------------------------------------------------------------------------
(* Requests that are begun.                                                *)

\* What a request has in hand when it begins.
LEMMA BeginsOK ==
  ASSUME Types, NEW t \in Threads, NEW op \in Operations, NEW a \in Accounts,
         op \in {"stop", "restart", "health", "login", "preflight"} => row[a] # NoRow
  PROVE  \E w \in Requesting :
           /\ w = [Idle EXCEPT !.op = op, !.account = a, !.runtime = row[a], !.step = FirstStep(op, row[a])]
           /\ RequestOK(w) /\ w.account = a /\ w.op = op /\ w.step # "idle" /\ w.runtime = row[a]
           /\ AccountOK(a) => HandOK(w, a)
  <1>1. row[a] \in RowType /\ (row[a] # NoRow => HasRow(a))
    BY DEF Types, RowsOK
  <1>2. /\ FirstStep(op, row[a]) \in {"close", "get", "probe", "forget", "drop"}
        /\ FirstStep(op, row[a]) \in {"close", "probe"} => row[a] # NoRow
        /\ FirstStep(op, row[a]) = "forget" => op = "reset"
        /\ FirstStep(op, row[a]) = "drop" => row[a] = NoRow
        /\ op = "health" => FirstStep(op, row[a]) = "probe"
    BY DEF FirstStep, StopsFirst, Operations
  <1>3. PICK w \in Requesting :
          w = [Idle EXCEPT !.op = op, !.account = a, !.runtime = row[a], !.step = FirstStep(op, row[a])]
    BY <1>1, <1>2, IdleOK DEF Requesting, Steps
  <1>4. /\ w.op = op /\ w.account = a /\ w.runtime = row[a] /\ w.step = FirstStep(op, row[a])
    BY <1>3 DEF Idle
  <1>5. RequestOK(w)
    <2>1. row[a].id # NoId => row[a].id \in 1..ids /\ row[a].port \in Ports
      BY DEF Types, RowsOK, HasRow
    <2> QED BY <1>1, <1>2, <1>4, <2>1 DEF RequestOK, HasRow
  <1>6. AccountOK(a) => HandOK(w, a)
    <2>1. AccountOK(a) /\ row[a] = NoRow => Silent(a)
      BY DEF AccountOK, DataOK, BrowsersOwned, ForwardersOwned, Silent, HasRow, NoRow
    <2> QED BY <1>1, <1>2, <1>4, <2>1 DEF HandOK
  <1> QED BY <1>2, <1>3, <1>4, <1>5, <1>6

LEMMA StepRequest ==
  ASSUME Inv, NEW t \in Threads, NEW op \in Operations, NEW a \in Accounts, Request(t, op, a)
  PROVE  Inv'
  <1>1. Types /\ thread[t].step = "idle" /\ thread \in [Threads -> Requesting]
    BY DEF Inv, Request, At, Types, RequestsOK
  <1>2. /\ UNCHANGED <<row, link, login, deleted, chromes, base, forwarders, pids, cookies, snapshot, since,
                       ids, launches, faults>>
        /\ a \notin deleted /\ requests' = requests + 1 /\ requests < MaxRequests
        /\ mixed \subseteq mixed' /\ mixed' \subseteq Accounts
    BY <1>1 DEF Request, state, Begins, Types, OthersOK
  <1>3. OthersOK'
    <2>1. requests' \in 0..MaxRequests
      <3>1. MaxRequests \in Nat /\ requests \in 0..MaxRequests
        BY <1>1, BoundAssumption DEF Types, OthersOK
      <3> QED BY <1>2, <3>1
    <2> QED BY <1>1, <1>2, <2>1 DEF Types, OthersOK
  <1>4. RowsOK' /\ RowsApart'
    BY <1>1, <1>2 DEF Types, RowsOK, RowsApart, HasRow
  <1>5. \A c \in Accounts : Aside(c) /\ login'[c] = login[c]
    BY <1>2 DEF Aside
  <1>6. CASE UNCHANGED thread
    <2>1. Types'
      <3>1. RequestsOK' /\ IdsOwned'
        BY <1>1, <1>2, <1>6 DEF Types, RequestsOK, RequestOK, IdsOwned, HasRow, Account
      <3> QED BY <1>3, <1>4, <3>1 DEF Types
    <2>2. ASSUME NEW c \in Accounts, c \notin mixed' PROVE AccountOK(c)'
      <3>1. AccountOK(c)
        BY <1>2, <2>2 DEF Inv, Unmixed
      <3> QED BY <1>5, <1>6, <3>1, Elsewhere
    <2> QED BY <2>1, <2>2 DEF Inv, Unmixed
  <1>7. CASE /\ op \in {"stop", "restart", "health", "login", "preflight"} => row[a] # NoRow
             /\ thread' = [thread EXCEPT ![t] =
                  [Idle EXCEPT !.op = op, !.account = a, !.runtime = row[a], !.step = FirstStep(op, row[a])]]
    <2>1. PICK w \in Requesting :
           /\ w = [Idle EXCEPT !.op = op, !.account = a, !.runtime = row[a], !.step = FirstStep(op, row[a])]
           /\ RequestOK(w) /\ w.account = a /\ w.op = op /\ w.step # "idle" /\ w.runtime = row[a]
           /\ AccountOK(a) => HandOK(w, a)
      BY <1>1, <1>7, BeginsOK
    <2>2. /\ thread' = [thread EXCEPT ![t] = w] /\ thread'[t] = w
          /\ \A u \in Threads \ {t} : thread'[u] = thread[u]
      BY <1>1, <1>7, <2>1
    <2>3. Types'
      <3>1. RequestsOK'
        BY <1>1, <1>2, <2>1, <2>2 DEF Types, RequestsOK, RequestOK
      <3>2. IdsOwned'
        BY <1>1, <1>2, <2>1, <2>2 DEF Types, IdsOwned, RowsApart, HasRow, Account
      <3> QED BY <1>3, <1>4, <3>1, <3>2 DEF Types
    <2>4. ASSUME NEW c \in Accounts, c \notin mixed' PROVE AccountOK(c)'
      <3>1. AccountOK(c)
        BY <1>2, <2>4 DEF Inv, Unmixed
      <3>2. CASE c # a \/ op = "health"
        <4>1. ~Busy(t, c)'
          BY <2>1, <2>2, <3>2 DEF Busy, Account
        <4> QED BY <1>1, <1>5, <2>2, <3>1, <4>1, Elsewhere DEF At
      <3>3. CASE c = a /\ op # "health"
        <4>1. \A u \in Threads \ {t} : ~Busy(u, c)
          BY <2>4, <3>3 DEF Request, Begins, Busy, Account
        <4>2. \A u \in Threads \ {t} : ~Busy(u, c)'
          BY <2>2, <4>1 DEF Busy, Account
        <4>3. DataOK(c)'
          <5>1. \A u \in Threads : At(u, "forget") /\ Account(u) = c => (At(u, "forget") /\ Account(u) = c)'
            BY <1>1, <2>2 DEF At, Account
          <5> QED BY <1>5, <3>1, <5>1, AsideData DEF AccountOK
        <4>4. Apart(c)'
          BY <1>2, <3>3, <4>2 DEF Apart
        <4>5. ASSUME NEW u \in Threads, Busy(u, c)' PROVE HandOK(thread[u], c)'
          <5>1. u = t /\ HandOK(w, c)
            BY <2>1, <3>1, <3>3, <4>2, <4>5
          <5>2. HandOK(w, c)'
            BY <1>5, <5>1, AsideHand
          <5> QED BY <2>2, <5>1, <5>2 DEF HandOK
        <4> QED BY <4>3, <4>4, <4>5 DEF AccountOK
      <3> QED BY <3>2, <3>3
    <2> QED BY <2>3, <2>4 DEF Inv, Unmixed
  <1> QED BY <1>6, <1>7 DEF Request

-----------------------------------------------------------------------------
(* The world.                                                              *)

LEMMA StepUserLogsIn == ASSUME Inv, NEW a \in Accounts, UserLogsIn(a) PROVE Inv'
  <1>1. /\ Types
        /\ UNCHANGED <<row, link, login, deleted, chromes, base, forwarders, pids, snapshot, thread, mixed, bounds>>
        /\ cookies' = [cookies EXCEPT ![a] = TRUE] /\ since' = [since EXCEPT ![a] = TRUE]
        /\ cookies \in [Accounts -> BOOLEAN] /\ since \in [Accounts -> BOOLEAN]
    BY DEF Inv, UserLogsIn, Types, OthersOK
  <1>2. Types'
    <2>1. RequestsOK' /\ RowsOK' /\ RowsApart' /\ IdsOwned'
      BY <1>1 DEF Types, RequestsOK, RequestOK, RowsOK, RowsApart, IdsOwned, HasRow, Account, bounds
    <2>2. OthersOK'
      BY <1>1 DEF Types, OthersOK, bounds
    <2> QED BY <2>1, <2>2 DEF Types
  <1>3. ASSUME NEW c \in Accounts, c \notin mixed' PROVE AccountOK(c)'
    <2>1. AccountOK(c)
      BY <1>1, <1>3 DEF Inv, Unmixed
    <2>2. CASE c # a
      <3>1. Aside(c) /\ login'[c] = login[c]
        BY <1>1, <2>2 DEF Aside
      <3> QED BY <1>1, <2>1, <3>1, Elsewhere
    <2>3. CASE c = a
      <3>1. since'[c]
        BY <1>1, <2>3
      <3>2. SinceReset(c)'
        BY <3>1 DEF SinceReset
      <3>3. BrowsersOwned(c)' /\ ForwardersOwned(c)' /\ (c \in deleted' => Silent(c)')
        BY <1>1, <2>1 DEF AccountOK, DataOK, BrowsersOwned, ForwardersOwned, Silent, HasRow
      <3>4. Apart(c)'
        BY <1>1, <2>1 DEF AccountOK, Apart, Busy, Account
      <3>5. ASSUME NEW t \in Threads, Busy(t, c)' PROVE HandOK(thread[t], c)'
        <4>1. HandOK(thread[t], c)
          BY <1>1, <2>1, <3>5 DEF AccountOK, Busy, Account
        <4> QED BY <1>1, <3>1, <4>1 DEF HandOK, HasRow, Silent
      <3> QED BY <3>2, <3>3, <3>4, <3>5 DEF AccountOK, DataOK
    <2> QED BY <2>2, <2>3
  <1> QED BY <1>2, <1>3 DEF Inv, Unmixed

LEMMA StepBrowserDies == ASSUME Inv, NEW b \in chromes, BrowserDies(b) PROVE Inv'
  <1>1. /\ Types /\ chromes' = chromes \ {b}
        /\ UNCHANGED <<row, link, login, deleted, base, forwarders, pids, cookies, snapshot, since, thread, mixed,
                       requests, ids, launches>>
    BY DEF Inv, BrowserDies
  <1>2. Types'
    <2>1. RequestsOK' /\ RowsOK' /\ RowsApart' /\ IdsOwned'
      BY <1>1 DEF Types, RequestsOK, RequestOK, RowsOK, RowsApart, IdsOwned, HasRow, Account
    <2>2. faults' \in 0..MaxFaults
      <3>1. faults \in 0..MaxFaults /\ MaxFaults \in Nat /\ faults' = faults + 1 /\ faults < MaxFaults
        BY <1>1, BoundAssumption DEF BrowserDies, Types, OthersOK
      <3> QED BY <3>1
    <2>3. OthersOK'
      BY <1>1, <2>2 DEF Types, OthersOK
    <2> QED BY <2>1, <2>3 DEF Types
  <1>3. ASSUME NEW c \in Accounts, c \notin mixed' PROVE AccountOK(c)'
    <2>1. AccountOK(c)
      BY <1>1, <1>3 DEF Inv, Unmixed
    <2>2. Aside(c) /\ login'[c] = login[c]
      BY <1>1 DEF Aside
    <2> QED BY <1>1, <2>1, <2>2, Elsewhere
  <1> QED BY <1>2, <1>3 DEF Inv, Unmixed

LEMMA StepRestart == ASSUME Inv, Restart PROVE Inv'
  <1>1. /\ Types /\ faults < MaxFaults /\ faults' = faults + 1
        /\ forwarders' = {} /\ base' \in Addresses /\ pids' = [i \in 1..MaxRows |-> 0]
        /\ thread' = [t \in Threads |-> Idle]
        /\ UNCHANGED <<link, login, deleted, cookies, snapshot, since, requests, ids, launches>>
    BY DEF Inv, Restart
  <1>2. PICK left \in SUBSET chromes :
          /\ chromes' = left
          /\ mixed' = mixed \cup {b.account : b \in left}
                       \cup {Account(t) : t \in {u \in Threads : /\ ~At(u, "idle")
                                                             /\ thread[u].op \in {"reset", "login"}}}
          /\ row' = [a \in Accounts |-> Reconciled(row[a], left)]
    BY DEF Restart
  <1>3. RowsOK' /\ RowsApart'
    <2>1. ASSUME NEW a \in Accounts
          PROVE  /\ row'[a] \in RowType
                 /\ row'[a] = row[a] \/ (/\ row'[a].id = row[a].id /\ row'[a].port = row[a].port
                                         /\ row'[a].address = row[a].address
                                         /\ row[a].status = "running")
      <3>1. row[a] \in RowType /\ row'[a] = Reconciled(row[a], left)
        BY <1>1, <1>2 DEF Types, RowsOK
      <3>2. "unhealthy" \in RowStatus
        BY DEF RowStatus
      <3> QED BY <3>1, <3>2 DEF Reconciled, RowType
    <2>2. row' \in [Accounts -> RowType]
      BY <1>2, <2>1
    <2>3. \A a \in Accounts : row[a].status = "running" => HasRow(a)
      BY <1>1 DEF Types, RowsOK, NoRow
    <2>4. \A a \in Accounts : Kept(a)
      BY <2>1, <2>3 DEF Kept
    <2> QED BY <1>1, <2>2, <2>4, KeptRows
  <1>4. RequestsOK' /\ IdsOwned'
    <2>1. RequestsOK'
      <3>1. RequestOK(Idle)'
        BY DEF RequestOK, Idle, NoRow, NoId
      <3> QED BY <1>1, <3>1, IdleOK DEF RequestsOK, RequestOK
    <2>2. IdsOwned'
      BY <1>1 DEF IdsOwned, HasRow, Idle, NoRow
    <2> QED BY <2>1, <2>2
  <1>5. OthersOK'
    <2>1. faults' \in 0..MaxFaults
      <3>1. faults \in 0..MaxFaults /\ MaxFaults \in Nat
        BY <1>1, BoundAssumption DEF Types, OthersOK
      <3> QED BY <1>1, <3>1
    <2>2. mixed' \subseteq Accounts
      <3>1. \A t \in Threads : ~At(t, "idle") => Account(t) \in Accounts
        BY <1>1 DEF Types, RequestsOK, RequestOK, Account, At
      <3> QED BY <1>1, <1>2, <3>1 DEF Types, OthersOK, Chrome
    <2>3. pids' \in [1..MaxRows -> 0..launches'] /\ chromes' \subseteq chromes
      BY <1>1, <1>2 DEF Types, OthersOK
    <2> QED BY <1>1, <1>2, <2>1, <2>2, <2>3 DEF Types, OthersOK
  <1>6. ASSUME NEW c \in Accounts, c \notin mixed' PROVE AccountOK(c)'
    <2>1. AccountOK(c)
      BY <1>2, <1>6 DEF Inv, Unmixed
    <2>2. Silent(c)'
      BY <1>1, <1>2, <1>6 DEF Silent
    <2>3. SinceReset(c)'
      <3>1. \A t \in Threads : ~(At(t, "forget") /\ Account(t) = c)
        BY <1>1, <1>2, <1>6 DEF Types, RequestsOK, RequestOK, At
      <3> QED BY <1>1, <2>1, <3>1 DEF AccountOK, DataOK, SinceReset
    <2>4. \A t \in Threads : ~Busy(t, c)'
      BY <1>1 DEF Busy, Idle
    <2>5. DataOK(c)'
      BY <2>2, <2>3 DEF DataOK, BrowsersOwned, ForwardersOwned, Silent
    <2> QED BY <2>4, <2>5 DEF AccountOK, Apart
  <1> QED BY <1>3, <1>4, <1>5, <1>6 DEF Inv, Unmixed, Types

-----------------------------------------------------------------------------
(* The theorems.                                                           *)

LEMMA InvInit == Init => Inv
  BY InitTypes, InitUnmixed DEF Inv

LEMMA InvStutter == ASSUME Inv, UNCHANGED vars PROVE Inv'
  <1>1. /\ Types
        /\ UNCHANGED <<row, link, login, deleted, chromes, base, forwarders, pids, cookies, snapshot, since,
                       thread, mixed, requests, ids, launches, faults>>
    BY DEF Inv, vars, state, bounds
  <1>2. Types'
    <2>1. RequestsOK' /\ RowsOK' /\ RowsApart' /\ IdsOwned'
      BY <1>1 DEF Types, RequestsOK, RequestOK, RowsOK, RowsApart, IdsOwned, HasRow, Account
    <2>2. OthersOK'
      BY <1>1 DEF Types, OthersOK
    <2> QED BY <2>1, <2>2 DEF Types
  <1>3. ASSUME NEW c \in Accounts, c \notin mixed' PROVE AccountOK(c)'
    <2>1. AccountOK(c)
      BY <1>1, <1>3 DEF Inv, Unmixed
    <2>2. Aside(c) /\ login'[c] = login[c]
      BY <1>1 DEF Aside
    <2> QED BY <1>1, <2>1, <2>2, Elsewhere
  <1> QED BY <1>2, <1>3 DEF Inv, Unmixed

LEMMA InvStep == Inv /\ [Next]_vars => Inv'
  <1> SUFFICES ASSUME Inv, [Next]_vars PROVE Inv'
    OBVIOUS
  <1>1. ASSUME NEW t \in Threads, Step(t) PROVE Inv'
    BY <1>1, StepGet, StepAllocate, StepInsert, StepCheck, StepLaunch, StepConfirm, StepAwaitCdp,
       StepCloseSession, StepMarkStopped, StepWipeProfile, StepForgetLogin, StepNoteLogin,
       StepDropAccount, StepProbe, StepJudge, StepLook, StepSave, StepSaveSnapshot DEF Step
  <1>2. ASSUME NEW t \in Threads, NEW op \in Kinds, NEW a \in Accounts, Request(t, op, a) PROVE Inv'
    BY <1>2, StepRequest, KindAssumption
  <1>3. ASSUME NEW a \in Accounts, UserLogsIn(a) PROVE Inv'
    BY <1>3, StepUserLogsIn
  <1>4. ASSUME NEW b \in chromes, BrowserDies(b) PROVE Inv'
    BY <1>4, StepBrowserDies
  <1>5. CASE Restart
    BY <1>5, StepRestart
  <1>6. CASE UNCHANGED vars
    BY <1>6, InvStutter
  <1> QED BY <1>1, <1>2, <1>3, <1>4, <1>5, <1>6 DEF Next

LEMMA InvHolds == Spec => []Inv
  BY InvInit, InvStep, PTL DEF Spec

\* An account has its own browser to itself: one at most on its profile, and on the
\* port of its row none of another account that is not mixed (runtime.py, create_runtime
\* and start_runtime).
THEOREM BrowsersStayApart == Spec => []OwnBrowserOnly
  <1>1. Inv => OwnBrowserOnly
    <2> SUFFICES ASSUME Inv PROVE OwnBrowserOnly
      OBVIOUS
    <2>1. TypeOK
      <3>1. row \in [Accounts -> [id : Nat, port : Ports \cup {NoPort}, address : Addresses,
                                  status : RowStatus, pid : Nat]]
        BY DEF Inv, Types, RowsOK, RowType
      <3>2. \A t \in Threads : /\ thread[t].op \in Operations \cup {"none"}
                               /\ thread[t].step \in Steps \cup {"idle"}
                               /\ thread[t].account \in Accounts \cup {NoAccount}
                               /\ thread[t].port \in Ports \cup {NoPort}
        BY DEF Inv, Types, RequestsOK, Requesting
      <3> QED BY <3>1, <3>2 DEF Inv, Types, OthersOK, TypeOK
    <2>2. OneBrowserPerProfile
      <3> SUFFICES ASSUME NEW a \in Accounts, a \notin mixed
                   PROVE  Cardinality({b \in chromes : b.account = a}) <= 1
        BY DEF OneBrowserPerProfile
      <3>1. \A b, c \in chromes : b.account = a /\ c.account = a => b = c
        <4>1. \A b \in chromes : b.account = a => b.port = row[a].port /\ b.pid = pids[row[a].id]
          BY DEF Inv, Unmixed, AccountOK, DataOK, BrowsersOwned
        <4>2. chromes \subseteq [pid : Nat, account : Accounts, port : Ports]
          BY DEF Inv, Types, OthersOK, Chrome
        <4>3. \A b, c \in [pid : Nat, account : Accounts, port : Ports] :
                b.pid = c.pid /\ b.account = c.account /\ b.port = c.port => b = c
          OBVIOUS
        <4> QED BY <4>1, <4>2, <4>3
      <3>2. CASE \E b \in chromes : b.account = a
        <4>1. PICK b \in chromes : b.account = a
          BY <3>2
        <4>2. {c \in chromes : c.account = a} = {b}
          BY <3>1, <4>1
        <4>3. Cardinality({b}) = 1
          BY FS_Singleton
        <4> QED BY <4>2, <4>3
      <3>3. CASE ~\E b \in chromes : b.account = a
        <4>1. {b \in chromes : b.account = a} = {}
          BY <3>3
        <4> QED BY <4>1, FS_EmptySet
      <3> QED BY <3>2, <3>3
    <2>3. ServedByOwnBrowser
      <3> SUFFICES ASSUME NEW a \in Accounts, NEW b \in chromes, b.port = row[a].port, row[a] # NoRow,
                          b.account \notin mixed
                   PROVE  b.account = a
        BY DEF ServedByOwnBrowser
      <3>1. HasRow(a)
        BY DEF Inv, Types, RowsOK
      <3> QED BY <3>1, PortOfOwnRow
    <2> QED BY <2>1, <2>2, <2>3 DEF OwnBrowserOnly
  <1> QED BY <1>1, InvHolds, PTL

\* After a profile reset nothing says that the account is logged in until a user logs
\* in again (reset_profile, check_login and the saved login state).
THEOREM ResetAlwaysForgets == Spec => []ResetForgetsLogin
  <1>1. Inv => ResetForgetsLogin
    BY DEF Inv, Unmixed, AccountOK, DataOK, SinceReset, ResetForgetsLogin
  <1> QED BY <1>1, InvHolds, PTL

\* No browser and no forwarder goes on after its row was replaced or its account deleted
\* (stop_runtime, _close_session, delete_platform_account).
THEOREM NothingStaysBehind == Spec => []NothingLeftBehind
  <1>1. Inv => NothingLeftBehind
    <2> SUFFICES ASSUME Inv PROVE NothingLeftBehind
      OBVIOUS
    <2>1. DeletedIsSilent
      BY DEF Inv, Unmixed, AccountOK, DataOK, Silent, DeletedIsSilent, Types, OthersOK
    <2>2. ForwarderHasRow
      <3> SUFFICES ASSUME NEW f \in forwarders, f.account \notin mixed
                   PROVE  row[f.account].id = f.id /\ row[f.account].port = f.port
        BY DEF ForwarderHasRow
      <3>1. f.account \in Accounts
        BY DEF Inv, Types, OthersOK, Forwarder
      <3> QED BY <3>1 DEF Inv, Unmixed, AccountOK, DataOK, ForwardersOwned
    <2> QED BY <2>1, <2>2 DEF NothingLeftBehind
  <1> QED BY <1>1, InvHolds, PTL

\* A step is the step of one request.
LEMMA StepsOfOne ==
  ASSUME NEW u \in Threads, Step(u)
  PROVE  \E w : thread' = [thread EXCEPT ![u] = w]
  <1>1. ASSUME NEW s, Goto(u, s) PROVE \E w : thread' = [thread EXCEPT ![u] = w]
    BY <1>1 DEF Goto
  <1>2. ASSUME NEW s, NEW r, Have(u, r, s) PROVE \E w : thread' = [thread EXCEPT ![u] = w]
    BY <1>2 DEF Have
  <1>3. End(u) => \E w : thread' = [thread EXCEPT ![u] = w]
    BY DEF End
  <1>4. Get(u) \/ Insert(u) \/ Launch(u) \/ Confirm(u) \/ CloseSession(u) \/ WipeProfile(u)
          => \E w : thread' = [thread EXCEPT ![u] = w]
    BY <1>1, <1>2, <1>3 DEF Get, Insert, Launch, Confirm, CloseSession, WipeProfile
  <1>5. Allocate(u) => \E w : thread' = [thread EXCEPT ![u] = w]
    BY <1>3 DEF Allocate
  <1>6. Check(u) \/ AwaitCdp(u) => \E w : thread' = [thread EXCEPT ![u] = w]
    BY <1>1, <1>2, <1>3 DEF Check, AwaitCdp, Started
  <1>7. MarkStopped(u) => \E w : thread' = [thread EXCEPT ![u] = w]
    BY <1>1, <1>3 DEF MarkStopped
  <1>8. NoteLogin(u) \/ DropAccount(u) \/ ForgetLogin(u) \/ Save(u) \/ SaveSnapshot(u)
          => \E w : thread' = [thread EXCEPT ![u] = w]
    BY <1>1, <1>3 DEF NoteLogin, DropAccount, ForgetLogin, Save, SaveSnapshot
  <1>9. Probe(u) \/ Judge(u) => \E w : thread' = [thread EXCEPT ![u] = w]
    BY <1>1, <1>3 DEF Probe, Judge
  <1>10. Look(u) => \E w : thread' = [thread EXCEPT ![u] = w]
    BY DEF Look
  <1> QED BY <1>4, <1>5, <1>6, <1>7, <1>8, <1>9, <1>10 DEF Step

\* After stop_runtime the account has no browser left.
THEOREM StopAlwaysEnds == Spec => StopEndsBrowser
  <1>1. Inv /\ [Next]_vars =>
          (\A t \in Threads : thread[t].step = "stopped" /\ thread'[t].step # "stopped"
               /\ Account(t) \notin mixed /\ faults' = faults
             => \A b \in chromes' : b.account # Account(t))
    <2> SUFFICES ASSUME Inv, [Next]_vars, NEW t \in Threads, thread[t].step = "stopped",
                        thread'[t].step # "stopped", Account(t) \notin mixed, faults' = faults
                 PROVE  \A b \in chromes' : b.account # Account(t)
      OBVIOUS
    <2>1. /\ thread \in [Threads -> Requesting] /\ Account(t) \in Accounts /\ thread[t].op # "health"
          /\ faults \in Nat
      <3>1. faults \in Nat
        BY BoundAssumption DEF Inv, Types, OthersOK
      <3>2. Account(t) \in Accounts
        BY InHand DEF Inv
      <3>3. thread \in [Threads -> Requesting] /\ thread[t].op # "health"
        BY DEF Inv, Types, RequestsOK, RequestOK
      <3> QED BY <3>1, <3>2, <3>3
    <2>2. Silent(Account(t))
      BY <2>1 DEF Inv, Unmixed, AccountOK, HandOK, Busy
    <2>3. Step(t)
      <3>1. ASSUME NEW u \in Threads, u # t, Step(u) PROVE FALSE
        BY <2>1, <3>1, StepsOfOne
      <3>2. ASSUME NEW u \in Threads, NEW op \in Kinds, NEW a \in Accounts, Request(u, op, a) PROVE FALSE
        BY <2>1, <3>2 DEF Request, At
      <3>3. ~(\E a \in Accounts : UserLogsIn(a)) /\ ~UNCHANGED vars
        BY DEF UserLogsIn, vars
      <3>4. ~(\E b \in chromes : BrowserDies(b)) /\ ~Restart
        BY <2>1 DEF BrowserDies, Restart
      <3> QED BY <3>1, <3>2, <3>3, <3>4 DEF Next
    <2>4. MarkStopped(t)
      BY <2>3 DEF Step, At, Get, Allocate, Insert, Check, Launch, Confirm, AwaitCdp, CloseSession,
                  WipeProfile, ForgetLogin, NoteLogin, DropAccount, Probe, Judge, Look, Save, SaveSnapshot
    <2> QED BY <2>2, <2>4 DEF MarkStopped, Silent
  <1> QED BY <1>1, InvHolds, PTL DEF Spec, StopEndsBrowser

=============================================================================
