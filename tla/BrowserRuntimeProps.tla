--------------------------- MODULE BrowserRuntimeProps ---------------------------
(* What the registry of browser runtimes keeps, for accounts whose requests did *)
(* not overlap, whose browser did not outlive a restart, and whose login was     *)
(* never looked up in a browser that did (`mixed`).                             *)
EXTENDS BrowserRuntime

\* Two browsers never share a profile directory: a start first ends the process
\* the row's id is known to have, also after a start that failed half way.
OneBrowserPerProfile ==
  \A a \in Accounts \ mixed : Cardinality({b \in chromes : b.account = a}) <= 1

\* The port in an account's row is answered by the account's own browser, so that
\* a campaign never runs in another account's login: rows are deleted and ports
\* used again while browsers of other rows keep running.
ServedByOwnBrowser ==
  \A a \in Accounts, b \in chromes :
    b.port = row[a].port /\ row[a] # NoRow => b.account = a \/ b.account \in mixed

\* An account has its own browser to itself: nobody else's on its profile, nobody
\* else's on its port.
OwnBrowserOnly == TypeOK /\ OneBrowserPerProfile /\ ServedByOwnBrowser

\* After stop_runtime the account has no browser left.
StopEndsBrowser ==
  [][\A t \in Threads : thread[t].step = "stopped" /\ thread'[t].step # "stopped"
        /\ Account(t) \notin mixed /\ faults' = faults
       => \A b \in chromes' : b.account # Account(t)]_vars

\* No browser and no forwarder goes on for an account that was deleted, whichever of
\* the starts, crashes and stops before left them.
DeletedIsSilent ==
  \A a \in deleted \ mixed :
    /\ \A b \in chromes : b.account # a
    /\ \A f \in forwarders : f.account # a

\* After a profile reset nothing says the account is logged in until a user logs
\* in again: not its row, not the profile, and not the saved login state that the
\* next start would restore.
ResetForgetsLogin ==
  \A a \in Accounts \ mixed :
    \/ cookies[a] \/ snapshot[a]
    \/ login[a] /\ \A t \in Threads : ~(At(t, "forget") /\ Account(t) = a)
    => since[a]

\* A forwarder listens only for the row it was started for, on that row's port: after
\* stops, failed starts and resets, and when a port is given to another row, none is
\* left behind to answer in the place of that row's own.
ForwarderHasRow ==
  \A f \in forwarders :
    f.account \in mixed \/ (row[f.account].id = f.id /\ row[f.account].port = f.port)

\* What a row started ends with it: no browser and no forwarder of an account goes on
\* after its row was replaced or the account deleted.
NothingLeftBehind == DeletedIsSilent /\ ForwarderHasRow

=============================================================================
