----------------------------- MODULE BrowserRuntime -----------------------------
(***************************************************************************)
(* The browser of each platform account (BrowserRuntimeRegistry,           *)
(* src/facebook_leads/saas/runtime.py): a row with a CDP port, a Chromium   *)
(* process on a profile directory, and the login seen in it.  Requests run  *)
(* on threads of one control process (browser_runtime_api.py); the API      *)
(* itself only reserves rows.  Nothing serialises requests for one account. *)
(* A browser listens on the local address only; where rows are given         *)
(* another one, a forwarder in the control process listens there for it.     *)
(***************************************************************************)
EXTENDS Naturals, FiniteSets

CONSTANTS
  Accounts, NoAccount, Threads,
  Ports,          \* cdp_port_start .. cdp_port_end
  Kinds,          \* the operations that are asked for
  MaxRequests, MaxRows, MaxFaults

Operations == {"reserve", "start", "stop", "restart", "reset", "health", "login", "preflight",
               "delete"}
NoPort == 0
NoId   == 0

ASSUME PortAssumption == Ports \subseteq Nat \ {NoPort}
ASSUME KindAssumption == Kinds \subseteq Operations
ASSUME BoundAssumption == {MaxRequests, MaxRows, MaxFaults} \subseteq Nat

VARIABLES
  row,       \* browser_runtimes
  link,      \* platform_accounts.browser_runtime_id
  login,     \* platform_accounts.login_status: is it "logged_in"
  deleted,   \* accounts without a row any more
  chromes,   \* the Chromium processes that are alive
  base,      \* which address new rows are given: the local one, or a forwarder's
  forwarders, \* _cdp_proxies: [id, account, port] of the rows that have one
  pids,      \* _browser_pids: the process of each row's id, by its number
  cookies,   \* is the profile logged in at Facebook
  snapshot,  \* does the profile hold a saved login state
  since,     \* did a user log in since the profile was reset
  thread,    \* the requests under way
  mixed,     \* accounts on which requests overlapped, whose browser outlived a restart, or
             \* that were shown such a browser
  requests, ids, launches, faults

state  == <<row, link, login, deleted, chromes, base, forwarders, pids, cookies, snapshot, since>>
bounds == <<requests, ids, launches, faults>>
vars   == <<state, thread, mixed, bounds>>

Addresses == {"local", "forwarded"}
NoRow   == [id |-> NoId, port |-> NoPort, address |-> "local", status |-> "none", pid |-> 0]
RowStatus == {"none", "stopped", "starting", "running", "unhealthy", "error"}
Chrome  == [pid : Nat, account : Accounts, port : Ports]
Forwarder == [id : Nat, account : Accounts, port : Ports]
\* What a request still has to do, in order.
Steps   == {"get", "alloc", "insert", "check", "launch", "confirm", "await", "close", "stopped",
            "wipe", "forget", "note", "drop", "probe", "judge", "look", "save", "snap"}
Idle    == [op |-> "none", account |-> NoAccount, step |-> "idle",
            runtime |-> NoRow, port |-> NoPort, seen |-> FALSE]

TypeOK ==
  /\ row \in [Accounts -> [id : Nat, port : Ports \cup {NoPort}, address : Addresses,
                          status : RowStatus, pid : Nat]]
  /\ link \in [Accounts -> Nat] /\ login \in [Accounts -> BOOLEAN]
  /\ deleted \subseteq Accounts
  /\ chromes \subseteq Chrome /\ \A b \in chromes : b.pid \in 1..launches
  /\ base \in Addresses /\ forwarders \subseteq Forwarder
  /\ pids \in [1..MaxRows -> 0..launches]
  /\ cookies \in [Accounts -> BOOLEAN] /\ snapshot \in [Accounts -> BOOLEAN]
  /\ since \in [Accounts -> BOOLEAN]
  /\ \A t \in Threads : /\ thread[t].op \in Operations \cup {"none"}
                        /\ thread[t].step \in Steps \cup {"idle"}
                        /\ thread[t].account \in Accounts \cup {NoAccount}
                        /\ thread[t].port \in Ports \cup {NoPort}
  /\ mixed \subseteq Accounts
  /\ requests \in 0..MaxRequests /\ ids \in 0..MaxRows /\ launches \in Nat /\ faults \in 0..MaxFaults

Init ==
  /\ row = [a \in Accounts |-> NoRow] /\ link = [a \in Accounts |-> NoId]
  /\ login = [a \in Accounts |-> FALSE] /\ deleted = {}
  /\ chromes = {} /\ pids = [i \in 1..MaxRows |-> 0]
  /\ base = "forwarded" /\ forwarders = {}
  /\ cookies = [a \in Accounts |-> FALSE] /\ snapshot = [a \in Accounts |-> FALSE]
  /\ since = [a \in Accounts |-> FALSE]
  /\ thread = [t \in Threads |-> Idle] /\ mixed = {}
  /\ requests = 0 /\ ids = 0 /\ launches = 0 /\ faults = 0

-----------------------------------------------------------------------------
Account(t) == thread[t].account
Row(t)     == row[Account(t)]
\* Rows are updated by id: a row that was deleted meanwhile stays away.
Mine(t)    == Row(t).id = thread[t].runtime.id

At(t, step)   == thread[t].step = step
Goto(t, step) == thread' = [thread EXCEPT ![t].step = step]
End(t)        == thread' = [thread EXCEPT ![t] = Idle]
Update(t, status) == row' = IF Mine(t) THEN [row EXCEPT ![Account(t)].status = status] ELSE row

\* Whatever process listens on the port of the local address answers.
PortInUse(port) == \E b \in chromes : b.port = port

\* _cdp_reachable asks the address of the row.
Reachable(r) ==
  PortInUse(r.port) /\ (r.address = "forwarded" => \E f \in forwarders : f.port = r.port)

\* _terminate_process_tree for the process this control process started for a row.
Killed(id) == {b \in chromes : b.pid # pids[id]}

\* Health checks write a status that the others do not rely on.
Begins(t, op, a) ==
  mixed' = IF op # "health" /\ \E u \in Threads \ {t} :
                /\ thread[u].step # "idle" /\ thread[u].account = a /\ thread[u].op # "health"
           THEN mixed \cup {a} ELSE mixed

\* Mutant of StopsFirst: only a runtime that is called running is stopped.
StopsFirstIfRunning(op, r) ==
  op \in {"stop", "restart", "reset", "delete"} /\ r.status = "running"

\* Whatever the status of the row, a browser may be there.
StopsFirst(op, r) == op \in {"stop", "restart", "reset", "delete"} /\ r # NoRow

\* preflight starts a stopped runtime, reset and delete do without one.
FirstStep(op, r) ==
  IF StopsFirst(op, r) THEN "close"
  ELSE CASE op \in {"reserve", "start"} -> "get"
         [] op = "preflight"            -> IF r.status = "stopped" THEN "get" ELSE "probe"
         [] op = "reset"                -> "forget"
         [] op = "delete"               -> "drop"
         [] OTHER                       -> "probe"

Request(t, op, a) ==
  /\ At(t, "idle") /\ requests < MaxRequests /\ a \notin deleted
  /\ requests' = requests + 1
  /\ Begins(t, op, a)
  /\ IF op \in {"stop", "restart", "health", "login", "preflight"} /\ row[a] = NoRow
     THEN UNCHANGED thread
     ELSE thread' = [thread EXCEPT ![t] = [Idle EXCEPT !.op = op, !.account = a, !.runtime = row[a],
                                                       !.step = FirstStep(op, row[a])]]
  /\ UNCHANGED <<state, ids, launches, faults>>

-----------------------------------------------------------------------------
(* create_runtime.                                                         *)

Have(t, r, next) == thread' = [thread EXCEPT ![t].step = next, ![t].runtime = r]
AfterCreate(t)   == IF thread[t].op \in {"reserve", "reset"} THEN "idle" ELSE "check"

\* _runtime_matches_current_backend: has the row the address it would be given now.
Matches(r) == r.address = base

\* A row of another configuration is given up, whatever browser still runs for it.
Get(t) ==
  /\ At(t, "get")
  /\ IF Row(t) # NoRow /\ Matches(Row(t))
     THEN Have(t, Row(t), AfterCreate(t)) /\ UNCHANGED <<row, link>>
     ELSE /\ row' = [row EXCEPT ![Account(t)] = NoRow]
          /\ link' = IF Row(t) = NoRow THEN link ELSE [link EXCEPT ![Account(t)] = NoId]
          /\ Goto(t, "alloc")
  /\ UNCHANGED <<login, deleted, chromes, base, forwarders, pids, cookies, snapshot, since, mixed, bounds>>

\* Mutant of PortTaken: the table has no unique key on cdp_port.
PortTakenNever(port) == FALSE

PortTaken(port) == \E a \in Accounts : row[a].port = port

\* Ports of rows are taken; only the control process can see which are in use.
Allocate(t) ==
  /\ At(t, "alloc")
  /\ LET free == {p \in Ports : /\ ~PortTaken(p)
                                /\ thread[t].op # "reserve" => ~PortInUse(p)}
     IN IF free = {} THEN End(t)
        ELSE \E p \in free : (\A q \in free : p <= q)
               /\ thread' = [thread EXCEPT ![t].step = "insert", ![t].port = p]
  /\ UNCHANGED <<state, mixed, bounds>>

\* The unique keys refuse a second row of the account, which is then used, or of
\* the port, and another port is tried.
Insert(t) ==
  /\ At(t, "insert")
  /\ IF Row(t) # NoRow
     THEN Have(t, Row(t), AfterCreate(t)) /\ UNCHANGED <<row, link, ids>>
     ELSE IF PortTaken(thread[t].port)
     THEN Goto(t, "alloc") /\ UNCHANGED <<row, link, ids>>
     ELSE /\ ids < MaxRows
          /\ ids' = ids + 1
          /\ row' = [row EXCEPT ![Account(t)] = [id |-> ids + 1, port |-> thread[t].port,
                                                 address |-> base, status |-> "stopped", pid |-> 0]]
          /\ link' = [link EXCEPT ![Account(t)] = ids + 1]
          /\ Have(t, row'[Account(t)], AfterCreate(t))
  /\ UNCHANGED <<login, deleted, chromes, base, forwarders, pids, cookies, snapshot, since, mixed, requests, launches, faults>>

-----------------------------------------------------------------------------
(* start_runtime, stop_runtime, restart_runtime.                           *)

\* After a successful start a preflight goes on; connect_platform_account and
\* reconnect_platform_account, unlike restart_platform_runtime, forget the login.
Started(t) ==
  \/ thread[t].op = "preflight" /\ Goto(t, "probe")
  \/ thread[t].op \in {"start", "restart"} /\ Goto(t, "note")
  \/ thread[t].op = "restart" /\ End(t)

\* A running browser is left as it is; otherwise the row is "starting".  If the
\* row is gone the copy in hand is used.
Check(t) ==
  LET r == IF Mine(t) THEN Row(t) ELSE thread[t].runtime IN
  /\ At(t, "check")
  /\ IF r.status = "running" /\ Reachable(r)
     THEN Started(t) /\ UNCHANGED row
     ELSE Update(t, "starting") /\ Have(t, r, "launch")
  /\ UNCHANGED <<link, login, deleted, chromes, base, forwarders, pids, cookies, snapshot, since, mixed, bounds>>

\* Mutant of Replaced: a start does not look for the process of an earlier start.
ReplacedNone(id) == chromes

Replaced(id) == Killed(id)

\* _restore_login_state_snapshot puts saved cookies back into the profile; what goes
\* wrong is only logged.
RestoreSnapshot(a) ==
  UNCHANGED cookies \/ cookies' = [cookies EXCEPT ![a] = @ \/ snapshot[a]]

Without(id) == {f \in forwarders : f.id # id}

\* _ensure_cdp_proxy: the row's forwarder is replaced, if its address needs one; it
\* cannot be bound where that of another row still listens.
Bindable(r) == r.address = "local" \/ \A f \in Without(r.id) : f.port # r.port

Forwarding(a, r) ==
  IF r.address = "local" THEN forwarders
  ELSE Without(r.id) \cup {[id |-> r.id, account |-> a, port |-> r.port]}

\* The old process of the row goes, a new one comes.  It is ended, and its forwarder,
\* if it does not answer in time; if anything else fails (the forwarder, the page) it
\* is left running.
Launch(t) ==
  LET a == Account(t)
      r == thread[t].runtime
      chrome == [pid |-> launches + 1, account |-> a, port |-> r.port]
  IN
  /\ At(t, "launch")
  /\ \/ /\ chromes' = Replaced(r.id)
        /\ pids' = [pids EXCEPT ![r.id] = 0]
        /\ forwarders' \in {forwarders, Without(r.id)}
        /\ Update(t, "error") /\ End(t) /\ UNCHANGED <<launches, cookies>>
     \/ /\ chromes' = Replaced(r.id) \cup {chrome}
        /\ pids' = [pids EXCEPT ![r.id] = launches + 1]
        /\ launches' = launches + 1
        /\ \/ /\ r.address = "forwarded" /\ forwarders' = Without(r.id)
              /\ Update(t, "error") /\ End(t) /\ UNCHANGED cookies
           \/ /\ Bindable(r) /\ forwarders' = Forwarding(a, r)
              /\ RestoreSnapshot(a)
              /\ \/ Update(t, "error") /\ End(t)
                 \/ UNCHANGED row /\ Goto(t, "confirm")
  /\ UNCHANGED <<link, login, deleted, base, snapshot, since, mixed, requests, ids, faults>>

Confirm(t) ==
  /\ At(t, "confirm")
  /\ row' = IF Mine(t) THEN [row EXCEPT ![Account(t)].status = "running",
                                        ![Account(t)].pid = pids[thread[t].runtime.id]]
            ELSE row
  /\ Goto(t, "await")
  /\ UNCHANGED <<link, login, deleted, chromes, base, forwarders, pids, cookies, snapshot, since, mixed, bounds>>

\* It is waited for once more; without an answer it is closed.
AwaitCdp(t) ==
  LET id == thread[t].runtime.id IN
  /\ At(t, "await")
  /\ \/ /\ Reachable(thread[t].runtime)
        /\ Started(t)
        /\ UNCHANGED <<row, chromes, forwarders, pids>>
     \/ /\ chromes' = Killed(id) /\ pids' = [pids EXCEPT ![id] = 0] /\ forwarders' = Without(id)
        /\ row' = IF Mine(t) THEN [row EXCEPT ![Account(t)].status = "error", ![Account(t)].pid = 0]
                  ELSE row
        /\ End(t)
  /\ UNCHANGED <<link, login, deleted, base, cookies, snapshot, since, mixed, bounds>>

NoteLogin(t) ==
  /\ At(t, "note")
  /\ login' = [login EXCEPT ![Account(t)] = FALSE]
  /\ End(t)
  /\ UNCHANGED <<row, link, deleted, chromes, base, forwarders, pids, cookies, snapshot, since, mixed, bounds>>

\* Mutant of CloseSession: the process is forgotten but not ended.
CloseSessionOnly(t) ==
  /\ At(t, "close")
  /\ pids' = [pids EXCEPT ![thread[t].runtime.id] = 0]
  /\ forwarders' = Without(thread[t].runtime.id)
  /\ Goto(t, "stopped")
  /\ UNCHANGED <<row, chromes, link, login, deleted, base, cookies, snapshot, since, mixed, bounds>>

\* Mutant of CloseSession: the forwarder goes on listening.
CloseSessionForwarding(t) ==
  LET id == thread[t].runtime.id IN
  /\ At(t, "close")
  /\ chromes' = Killed(id)
  /\ pids' = [pids EXCEPT ![id] = 0]
  /\ Goto(t, "stopped")
  /\ UNCHANGED <<row, link, login, deleted, base, forwarders, cookies, snapshot, since, mixed, bounds>>

\* _close_session forgets the forwarder and the process and ends both.
CloseSession(t) ==
  LET id == thread[t].runtime.id IN
  /\ At(t, "close")
  /\ chromes' = Killed(id)
  /\ pids' = [pids EXCEPT ![id] = 0]
  /\ forwarders' = Without(id)
  /\ Goto(t, "stopped")
  /\ UNCHANGED <<row, link, login, deleted, base, cookies, snapshot, since, mixed, bounds>>

MarkStopped(t) ==
  /\ At(t, "stopped")
  /\ row' = IF Mine(t) THEN [row EXCEPT ![Account(t)].status = "stopped", ![Account(t)].pid = 0] ELSE row
  /\ CASE thread[t].op = "reset"   -> Goto(t, "wipe")
       [] thread[t].op = "restart" -> Goto(t, "get")
       [] thread[t].op = "delete"  -> Goto(t, "drop")
       [] OTHER                    -> End(t)
  /\ UNCHANGED <<link, login, deleted, chromes, base, forwarders, pids, cookies, snapshot, since, mixed, bounds>>

\* delete_platform_account, after the stop: the account goes, the row of its runtime,
\* and with it the port, stays.
DropAccount(t) ==
  /\ At(t, "drop")
  /\ deleted' = deleted \cup {Account(t)}
  /\ End(t)
  /\ UNCHANGED <<row, link, login, chromes, base, forwarders, pids, cookies, snapshot, since, mixed, bounds>>

-----------------------------------------------------------------------------
(* reset_profile after the stop, health_check, check_login.                *)

WipeProfile(t) ==
  /\ At(t, "wipe")
  /\ cookies' = [cookies EXCEPT ![Account(t)] = FALSE]
  /\ snapshot' = [snapshot EXCEPT ![Account(t)] = FALSE]
  /\ since' = [since EXCEPT ![Account(t)] = FALSE]
  /\ row' = IF Mine(t) THEN [row EXCEPT ![Account(t)] = NoRow] ELSE row
  /\ Goto(t, "forget")
  /\ UNCHANGED <<link, login, deleted, chromes, base, forwarders, pids, mixed, bounds>>

\* Mutant of ForgetLogin: the account keeps the login status it had.
ForgetLoginNot(t) ==
  /\ At(t, "forget")
  /\ link' = [link EXCEPT ![Account(t)] = NoId]
  /\ Goto(t, "get")
  /\ UNCHANGED <<row, login, deleted, chromes, base, forwarders, pids, cookies, snapshot, since, mixed, bounds>>

ForgetLogin(t) ==
  /\ At(t, "forget")
  /\ link' = [link EXCEPT ![Account(t)] = NoId]
  /\ login' = [login EXCEPT ![Account(t)] = FALSE]
  /\ Goto(t, "get")
  /\ UNCHANGED <<row, deleted, chromes, base, forwarders, pids, cookies, snapshot, since, mixed, bounds>>

\* The row's own port is asked, then the status of the row is written.
Probe(t) ==
  /\ At(t, "probe")
  /\ IF ~Mine(t) THEN End(t)
     ELSE thread' = [thread EXCEPT ![t].step = "judge", ![t].runtime = Row(t),
                                   ![t].seen = Reachable(Row(t))]
  /\ UNCHANGED <<state, mixed, bounds>>

\* Mutant of HealthStatus: the row is given the word of the health report.
HealthStatusWord(t) == IF thread[t].seen THEN "reachable" ELSE "unreachable"

\* A browser that does not answer and whose process is gone is stopped.
HealthStatus(t) ==
  LET gone == thread[t].runtime.pid # 0 /\ \A b \in chromes : b.pid # thread[t].runtime.pid
  IN IF thread[t].seen THEN "running" ELSE IF gone THEN "stopped" ELSE "unhealthy"

Judge(t) ==
  /\ At(t, "judge")
  /\ Update(t, HealthStatus(t))
  /\ IF thread[t].op # "login" THEN End(t)
     ELSE IF thread[t].seen THEN Goto(t, "look")
     ELSE thread' = [thread EXCEPT ![t].step = "save"]
  /\ UNCHANGED <<link, login, deleted, chromes, base, forwarders, pids, cookies, snapshot, since, mixed, bounds>>

\* The login checker looks at the page of the browser that answers on the port, if
\* one does.  A row that was only reserved can have the port of a browser that
\* outlived a restart.
Look(t) ==
  /\ At(t, "look")
  /\ \/ /\ thread' = [thread EXCEPT ![t].step = "save", ![t].seen = FALSE]
        /\ UNCHANGED mixed
     \/ \E b \in {c \in chromes : c.port = thread[t].runtime.port} :
          /\ thread' = [thread EXCEPT ![t].step = "save", ![t].seen = cookies[b.account]]
          /\ mixed' = IF b.account \in mixed THEN mixed \cup {Account(t)} ELSE mixed
  /\ UNCHANGED <<state, bounds>>

Save(t) ==
  /\ At(t, "save")
  /\ login' = [login EXCEPT ![Account(t)] = thread[t].seen]
  /\ IF thread[t].seen THEN Goto(t, "snap") ELSE End(t)
  /\ UNCHANGED <<row, link, deleted, chromes, base, forwarders, pids, cookies, snapshot, since, mixed, bounds>>

\* _persist_login_state_snapshot: a login that was seen is saved beside the profile,
\* if the browser still answers; what goes wrong is only logged.
SaveSnapshot(t) ==
  /\ At(t, "snap")
  /\ \/ UNCHANGED snapshot
     \/ /\ Reachable(thread[t].runtime)
        /\ \E b \in chromes : b.port = thread[t].runtime.port /\ cookies[b.account]
        /\ snapshot' = [snapshot EXCEPT ![Account(t)] = TRUE]
  /\ End(t)
  /\ UNCHANGED <<row, link, login, deleted, chromes, base, forwarders, pids, cookies, since, mixed, bounds>>

-----------------------------------------------------------------------------
(* The world.                                                              *)

UserLogsIn(a) ==
  /\ ~cookies[a] /\ \E b \in chromes : b.account = a
  /\ cookies' = [cookies EXCEPT ![a] = TRUE] /\ since' = [since EXCEPT ![a] = TRUE]
  /\ UNCHANGED <<row, link, login, deleted, chromes, base, forwarders, pids, snapshot, thread, mixed, bounds>>

BrowserDies(b) ==
  /\ faults < MaxFaults /\ faults' = faults + 1
  /\ chromes' = chromes \ {b}
  /\ UNCHANGED <<row, link, login, deleted, base, forwarders, pids, cookies, snapshot, since, thread, mixed,
                 requests, ids, launches>>

\* reconcile_all asks the rows called running; no forwarder is there yet.
Reconciled(r, left) ==
  IF r.status = "running" /\ ~(r.address = "local" /\ \E b \in left : b.port = r.port)
  THEN [r EXCEPT !.status = "unhealthy"] ELSE r

\* The control process dies and comes back without its processes and forwarders, and
\* perhaps with another address for new rows; some browsers outlive it, and a reset or a login check may be half done.
Restart ==
  /\ faults < MaxFaults /\ faults' = faults + 1
  /\ \E left \in SUBSET chromes :
       /\ chromes' = left
       /\ mixed' = mixed \cup {b.account : b \in left}
                       \cup {Account(t) : t \in {u \in Threads : /\ ~At(u, "idle")
                                                             /\ thread[u].op \in {"reset", "login"}}}
       /\ row' = [a \in Accounts |-> Reconciled(row[a], left)]
  /\ pids' = [i \in 1..MaxRows |-> 0]
  /\ forwarders' = {} /\ base' \in Addresses
  /\ thread' = [t \in Threads |-> Idle]
  /\ UNCHANGED <<link, login, deleted, cookies, snapshot, since, requests, ids, launches>>

Step(t) ==
  \/ Get(t) \/ Allocate(t) \/ Insert(t) \/ Check(t) \/ Launch(t) \/ Confirm(t)
  \/ AwaitCdp(t) \/ CloseSession(t) \/ MarkStopped(t) \/ WipeProfile(t) \/ ForgetLogin(t)
  \/ NoteLogin(t) \/ DropAccount(t) \/ Probe(t) \/ Judge(t) \/ Look(t) \/ Save(t) \/ SaveSnapshot(t)

Next ==
  \/ \E t \in Threads : Step(t) \/ (\E op \in Kinds, a \in Accounts : Request(t, op, a))
  \/ \E a \in Accounts : UserLogsIn(a)
  \/ \E b \in chromes : BrowserDies(b)
  \/ Restart

Spec == Init /\ [][Next]_vars

=============================================================================
