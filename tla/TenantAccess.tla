------------------------------ MODULE TenantAccess ------------------------------
(***************************************************************************)
(* Who may act for a tenant (service.py, productization.py, auth.py): login *)
(* sessions and their expiry, the change of a password, the members of the  *)
(* tenant with their roles, and invitations.  Every request reads what it   *)
(* decides on in one transaction and writes in another.                     *)
(***************************************************************************)
EXTENDS Integers, FiniteSets

CONSTANTS
  Users, Newcomer,  \* the newcomer is nobody's founder
  Founders,         \* who may be the first owner
  Offered,          \* the roles that requests ask for
  MaxUsers,         \* max_users of the plan, or what the subscription overrides it with
  Tokens, NoToken, Threads,
  Invitations, NoInvitation,
  SessionTtl, IdleTimeout, TouchInterval,
  MaxClock, MaxRequests

ASSUME UserAssumption == Newcomer \in Users /\ Founders \subseteq Users \ {Newcomer}
ASSUME TimeAssumption ==
  /\ {SessionTtl, IdleTimeout, TouchInterval, MaxUsers, MaxClock, MaxRequests} \subseteq Nat
  /\ 0 < TouchInterval /\ TouchInterval < IdleTimeout
\* The plan has room for whoever founds a tenant.
ASSUME PlanAssumption == IsFiniteSet(Users) /\ Cardinality(Founders) <= MaxUsers

VARIABLES
  clock,
  password,   \* the version of each user's password
  session,    \* sessions
  member,     \* tenant_users: role of each user
  invitation, \* tenant_invitations: whom for, status and role
  thread,     \* requests under way
  late,       \* sessions opened with a password that was changed during the login or rotation,
              \* and those that a password change which died half-way has left
  entangled,  \* did two requests that change members overlap
  crowded,    \* did two additions of members overlap
  invited,    \* users whose membership an invitation gave
  spent,      \* invitations accepted or revoked while no acceptance of them was under way
  admissions, \* how many memberships each invitation has given
  requests    \* logins and requests that name a session

vars == <<clock, password, session, member, invitation, thread, late, entangled, crowded, invited,
          spent, admissions, requests>>

Roles     == {"owner", "admin", "member", "viewer"}
ASSUME OfferAssumption == Offered \subseteq Roles

NoSession == [user |-> Newcomer, version |-> -1, expires |-> 0, seen |-> 0, used |-> 0,
              revoked |-> TRUE]
Idle      == [op |-> "none", phase |-> "idle", user |-> Newcomer, role |-> "none",
              target |-> Newcomer, to |-> "none", version |-> 0, was |-> "none",
              token |-> NoToken, inv |-> NoInvitation]
Unsent    == [status |-> "none", user |-> Newcomer, role |-> "none", expires |-> 0]
MemberOps == {"update", "remove", "transfer"}
Ops       == MemberOps \cup {"none", "add", "login", "rotate", "password", "end", "others", "invite", "resend", "revoke",
                          "accept"}

TypeOK ==
  /\ clock \in 0..MaxClock /\ requests \in 0..MaxRequests
  /\ password \in [Users -> Nat]
  /\ session \in [Tokens -> [user : Users, version : Nat \cup {-1}, expires : Nat, seen : Nat,
                             used : Nat, revoked : BOOLEAN]]
  /\ member \in [Users -> Roles \cup {"none"}]
  /\ invitation \in [Invitations ->
                       [status : {"none", "pending", "accepted", "revoked", "expired"},
                        user : Users, role : Roles \cup {"none"}, expires : Nat]]
  /\ thread \in [Threads -> [op : Ops, phase : {"idle", "check", "write", "sessions"},
                             user : Users, role : Roles \cup {"none"}, target : Users,
                             to : Roles \cup {"none"}, version : Nat,
                             was : Roles \cup {"none"}, token : Tokens \cup {NoToken},
                             inv : Invitations \cup {NoInvitation}]]
  /\ late \subseteq Tokens /\ {entangled, crowded} \subseteq BOOLEAN
  /\ invited \subseteq Users /\ spent \subseteq Invitations
  /\ admissions \in [Invitations -> Nat]

Pending(i, u) == invitation[i].status = "pending" /\ invitation[i].user = u

\* A tenant with its owners, scripts may have added several, perhaps an admin, and
\* perhaps an invitation that is pending for the newcomer.
Init ==
  /\ clock = 0 /\ requests = 0 /\ admissions = [i \in Invitations |-> 0]
  /\ password = [u \in Users |-> 0]
  /\ session = [k \in Tokens |-> NoSession]
  /\ \E owners, admins \in SUBSET Founders :
       /\ owners # {}
       /\ member = [u \in Users |-> IF u \in owners THEN "owner"
                                    ELSE IF u \in admins THEN "admin" ELSE "none"]
  /\ \E sent \in SUBSET Invitations :
       /\ \A i, j \in sent : i = j
       /\ invitation = [i \in Invitations |->
            IF i \in sent THEN [status |-> "pending", user |-> Newcomer, role |-> "member", expires |-> 2]
            ELSE Unsent]
  /\ thread = [t \in Threads |-> Idle]
  /\ late = {} /\ entangled = FALSE /\ crowded = FALSE /\ invited = {} /\ spent = {}

marks    == <<entangled, crowded, invited, spent, admissions>>
people   == <<member, invitation, marks>>
accounts == <<password, session, late>>

At(t, op, phase) == thread[t].op = op /\ thread[t].phase = phase
Goto(t, phase)   == thread' = [thread EXCEPT ![t].phase = phase]
End(t)           == thread' = [thread EXCEPT ![t] = Idle]

-----------------------------------------------------------------------------
(* Sessions.                                                               *)

\* context_from_token, but for the membership: the session is known, not revoked,
\* not expired and was seen within the idle timeout.
Valid(k) ==
  /\ ~session[k].revoked
  /\ session[k].expires > clock
  /\ session[k].seen > clock - IdleTimeout

\* Mutant of Touched: a session is touched when it would be idle, that is never.
TouchedIdle(k) ==
  [session[k] EXCEPT !.used = clock,
                     !.seen = IF @ <= clock - IdleTimeout THEN clock ELSE @]

\* last_seen_at is written again only after the touch interval.
Touched(k) ==
  [session[k] EXCEPT !.used = clock,
                     !.seen = IF @ <= clock - TouchInterval THEN clock ELSE @]

\* A session is deleted, if there is one: by a logout, and by a login for the session
\* whose cookie it carries.
SignOff(k) ==
  /\ session' = [j \in Tokens |-> IF j = k THEN NoSession ELSE session[j]]
  /\ late' = late \ {k}

\* The request of a login deletes the session that its cookie names, before the password
\* is looked at: a login that fails is no more than a logout.
SignOffFirst(cookie) == (cookie # NoToken => session[cookie] # NoSession) /\ SignOff(cookie)

\* login: the password is verified, then a session is opened.
Login(t, u, cookie) ==
  /\ thread[t] = Idle /\ requests < MaxRequests
  /\ member[u] # "none" /\ SignOffFirst(cookie)
  /\ thread' = [thread EXCEPT ![t] = [Idle EXCEPT !.op = "login", !.phase = "write", !.user = u,
                                                  !.version = password[u]]]
  /\ requests' = requests + 1
  /\ UNCHANGED <<clock, password, people>>

\* The new session of a login or a rotation, under a token nobody has had.
NewSession(t) ==
  [user |-> thread[t].user, version |-> thread[t].version, expires |-> clock + SessionTtl,
   seen |-> clock, used |-> clock, revoked |-> FALSE]
Unused(k) == session[k] = NoSession /\ \A t \in Threads : thread[t].token # k

\* The password was changed since this request has read it, and the sessions that were
\* opened with it are revoked already.
TooLate(t) ==
  /\ thread[t].version # password[thread[t].user]
  /\ \A s \in Threads : ~(At(s, "password", "sessions") /\ thread[s].user = thread[t].user)

OpenSession(t, k) ==
  /\ At(t, "login", "write") /\ Unused(k)
  /\ session' = [session EXCEPT ![k] = NewSession(t)]
  /\ late' = IF TooLate(t) THEN late \cup {k} ELSE late
  /\ End(t)
  /\ UNCHANGED <<clock, password, people, requests>>

\* rotate_session, when a user switches tenants: a new session is inserted and the one
\* of the request revoked in one transaction, whatever became of it meanwhile.
Rotate(t, k) ==
  LET old == thread[t].token IN
  /\ At(t, "rotate", "check") /\ Unused(k)
  /\ session' = [j \in Tokens |->
                   CASE j = k -> NewSession(t)
                     [] j = old /\ session[j] # NoSession -> [session[j] EXCEPT !.revoked = TRUE]
                     [] OTHER -> session[j]]
  /\ late' = IF TooLate(t) THEN late \cup {k} ELSE late
  /\ End(t)
  /\ UNCHANGED <<clock, password, people, requests>>

\* Every other request begins with the session and goes on with the role that the
\* user has at that moment.
Begin(t, k, op, u, role) ==
  LET me == session[k].user IN
  /\ thread[t] = Idle /\ requests < MaxRequests
  /\ Valid(k) /\ member[me] # "none"
  /\ session' = [session EXCEPT ![k] = Touched(k)]
  /\ thread' = [thread EXCEPT ![t] = [Idle EXCEPT
                  !.op = op, !.phase = "check", !.user = me, !.role = member[me],
                  !.target = u, !.to = role,
                  !.version = IF op = "rotate" THEN session[k].version ELSE 0,
                  !.token = IF op \in {"rotate", "others"} THEN k ELSE NoToken]]
  /\ requests' = requests + 1
  /\ entangled' = (entangled \/ /\ op \in MemberOps
                                /\ \E s \in Threads \ {t} : thread[s].op \in MemberOps)
  /\ crowded' = (crowded \/ /\ op = "add"
                            /\ \E s \in Threads \ {t} : thread[s].op = "add")
  /\ UNCHANGED <<clock, password, late, member, invitation, invited, spent, admissions>>

Logout(k) ==
  /\ session[k] # NoSession
  /\ SignOff(k)
  /\ UNCHANGED <<clock, password, people, thread, requests>>

\* Mutant of ChangePassword: the sessions are ended before the password is written.
ChangePasswordLast(t) ==
  LET u == thread[t].user IN
  \/ /\ At(t, "password", "check")
     /\ session' = [k \in Tokens |-> IF session[k].user = u /\ session[k] # NoSession
                                     THEN [session[k] EXCEPT !.revoked = TRUE] ELSE session[k]]
     /\ Goto(t, "sessions")
     /\ UNCHANGED <<clock, password, late, people, requests>>
  \/ /\ At(t, "password", "sessions")
     /\ password' = [password EXCEPT ![u] = @ + 1]
     /\ End(t)
     /\ UNCHANGED <<clock, session, late, people, requests>>

\* change_password writes the new hash, then revokes the sessions it finds.
ChangePassword(t) ==
  LET u == thread[t].user IN
  \/ /\ At(t, "password", "check")
     /\ \/ password' = [password EXCEPT ![u] = @ + 1] /\ Goto(t, "sessions")
        \/ UNCHANGED password /\ End(t)  \* wrong current password, short new one
     /\ UNCHANGED <<clock, session, late, people, requests>>
  \/ /\ At(t, "password", "sessions")
     /\ session' = [k \in Tokens |-> IF session[k].user = u /\ session[k] # NoSession
                                     THEN [session[k] EXCEPT !.revoked = TRUE] ELSE session[k]]
     /\ End(t)
     /\ UNCHANGED <<clock, password, late, people, requests>>

OwnSession(t, k) == session[k] # NoSession /\ session[k].user = thread[t].user

\* revoke_session: one of the user's own, the one of the request included; and
\* revoke_other_sessions.
EndSessions(t) ==
  /\ \/ /\ At(t, "end", "check")
        /\ \E k \in Tokens : OwnSession(t, k) /\ session' = [session EXCEPT ![k].revoked = TRUE]
     \/ /\ At(t, "others", "check")
        /\ session' = [k \in Tokens |-> IF OwnSession(t, k) /\ k # thread[t].token
                                        THEN [session[k] EXCEPT !.revoked = TRUE] ELSE session[k]]
  /\ End(t)
  /\ UNCHANGED <<clock, password, late, people, requests>>

\* revoke_session finds none.
NoSuchSession(t) ==
  /\ At(t, "end", "check") /\ End(t)
  /\ UNCHANGED <<clock, accounts, people, requests>>

Tick ==
  /\ clock < MaxClock
  /\ clock' = clock + 1
  /\ UNCHANGED <<accounts, people, thread, requests>>

-----------------------------------------------------------------------------
(* Members and invitations.                                                *)

\* Mutant of MayChange: an admin may take an owner's or admin's role away.
MayChangeAny(t) ==
  CASE thread[t].op = "update"   -> thread[t].to \notin {"owner", "none"}
                                    /\ (thread[t].role = "owner" \/ thread[t].to # "admin")
    [] thread[t].op = "remove"   -> TRUE
    [] thread[t].op = "transfer" -> thread[t].role = "owner" /\ thread[t].target # thread[t].user

\* _validate_change, remove_member, transfer_ownership.
MayChange(t) ==
  LET was == member[thread[t].target] IN
  CASE thread[t].op = "update" ->
         /\ thread[t].to \notin {"owner", "none"}
         /\ thread[t].role = "owner" \/ {was, thread[t].to} \cap {"owner", "admin"} = {}
    [] thread[t].op = "remove" ->
         IF was = "owner" THEN thread[t].role = "owner"
         ELSE ~(thread[t].role = "admin" /\ was = "admin")
    [] thread[t].op = "transfer" ->
         /\ thread[t].role = "owner" /\ thread[t].target # thread[t].user
         /\ member[thread[t].user] # "none"

\* Mutant of OtherOwner: the owner that goes is counted too.
OtherOwnerSelf(u) == \E v \in Users : member[v] = "owner"

\* _ensure_other_owner
OtherOwner(u) == \E v \in Users \ {u} : member[v] = "owner"

\* The row of the target is read, and remove_member counts the owners.
CheckChange(t) ==
  LET was == member[thread[t].target] IN
  /\ thread[t].op \in MemberOps /\ thread[t].phase = "check"
  /\ IF /\ thread[t].role \in {"owner", "admin"} /\ was # "none" /\ MayChange(t)
        /\ thread[t].op = "remove" /\ was = "owner" => OtherOwner(thread[t].target)
     THEN thread' = [thread EXCEPT ![t].phase = "write", ![t].was = was] ELSE End(t)
  /\ UNCHANGED <<clock, accounts, people, requests>>

\* update_member counts the owners in the transaction of its write; a row that is
\* gone by now is not written.
WriteChange(t) ==
  LET me == thread[t]
      gone == [u \in Users |-> IF u = me.target THEN "none" ELSE member[u]]
      to(u, role) == IF member[u] = "none" THEN "none" ELSE role IN
  /\ me.op \in MemberOps /\ me.phase = "write"
  /\ member' = CASE me.op = "remove"   -> gone
                 [] me.op = "update"   -> IF me.was = "owner" /\ ~OtherOwner(me.target) THEN member
                                          ELSE [member EXCEPT ![me.target] = to(me.target, me.to)]
                 [] me.op = "transfer" -> [member EXCEPT ![me.target] = to(me.target, "owner"),
                                                         ![me.user] = to(me.user, "admin")]
  /\ End(t)
  /\ UNCHANGED <<clock, accounts, invitation, marks, requests>>

\* _validate_managed_role: a role below the owner's and, for an admin, below admin.
MayGive(t) ==
  /\ thread[t].role \in {"owner", "admin"} /\ thread[t].to \notin {"owner", "none"}
  /\ thread[t].role = "owner" \/ thread[t].to # "admin"

Members == {u \in Users : member[u] # "none"}

\* Mutant of HasRoom: the one that comes is not counted.
HasRoomUntilFull == Cardinality(Members) <= MaxUsers

\* check_quota of users: invitations under way do not count.
HasRoom == Cardinality(Members) + 1 <= MaxUsers

\* add_member, which gives a user of another tenant a role here: the quota and the
\* user's rows are read, then the membership is inserted.
CheckAddition(t) ==
  /\ At(t, "add", "check")
  /\ IF MayGive(t) /\ HasRoom /\ member[thread[t].target] = "none" THEN Goto(t, "write") ELSE End(t)
  /\ UNCHANGED <<clock, accounts, people, requests>>

\* A second row of one user is refused.
Add(t) ==
  LET u == thread[t].target IN
  /\ At(t, "add", "write")
  /\ member' = [member EXCEPT ![u] = IF @ = "none" THEN thread[t].to ELSE @]
  /\ invited' = IF member[u] = "none" THEN invited \ {u} ELSE invited
  /\ End(t)
  /\ UNCHANGED <<clock, accounts, invitation, entangled, crowded, spent, admissions, requests>>

\* create_invitation looks for room, in which invitations that are pending do not
\* count, and for one that is pending for the same e-mail.
CheckInvitation(t) ==
  /\ At(t, "invite", "check")
  /\ IF MayGive(t) /\ HasRoom /\ ~\E i \in Invitations : Pending(i, thread[t].target)
     THEN Goto(t, "write") ELSE End(t)
  /\ UNCHANGED <<clock, accounts, people, requests>>

\* Then it inserts, into a row of the table that nobody has had (the model has no
\* more of them than Invitations).
Invite(t) ==
  /\ At(t, "invite", "write")
  /\ \E i \in Invitations :
       /\ invitation[i].status = "none"
       /\ invitation' = [invitation EXCEPT ![i] = [status |-> "pending", user |-> thread[t].target,
                                                   role |-> thread[t].to, expires |-> clock + 2]]
  /\ End(t)
  /\ UNCHANGED <<clock, accounts, member, marks, requests>>

\* Requests about an invitation that is in the table.
Manages(t, op, i) ==
  /\ At(t, op, "check")
  /\ thread[t].role \in {"owner", "admin"} /\ invitation[i].status # "none"

\* resend_invitation: a pending one is given more time, though it may have none left.
Resend(t, i) ==
  /\ Manages(t, "resend", i) /\ invitation[i].status = "pending"
  /\ invitation' = [invitation EXCEPT ![i].expires = clock + 2]
  /\ End(t)
  /\ UNCHANGED <<clock, accounts, member, marks, requests>>

Accepting(t, i) == \E s \in Threads \ {t} : At(s, "accept", "write") /\ thread[s].inv = i

\* revoke_invitation does not look at the status.
Revoke(t, i) ==
  /\ Manages(t, "revoke", i)
  /\ invitation' = [invitation EXCEPT ![i].status = "revoked"]
  /\ spent' = IF Accepting(t, i) THEN spent ELSE spent \cup {i}
  /\ End(t)
  /\ UNCHANGED <<clock, accounts, member, entangled, crowded, invited, admissions, requests>>

\* Not by this role, not found, or not pending.
NoInvitationFound(t) ==
  /\ At(t, "resend", "check") \/ At(t, "revoke", "check")
  /\ End(t)
  /\ UNCHANGED <<clock, accounts, people, requests>>

\* Mutant of Open: only an invitation that is accepted already is refused.
OpenUnlessAccepted(i) == invitation[i].status # "accepted"

Open(i) == invitation[i].status = "pending"

\* accept_invitation carries the token of an invitation, not a session.  It needs no
\* bound of its own: one that is refused changes nothing.
Accept(t, i) ==
  /\ thread[t] = Idle /\ invitation[i].status # "none"
  /\ IF ~Open(i) THEN UNCHANGED <<invitation, thread>>
     ELSE IF invitation[i].expires <= clock
     THEN invitation' = [invitation EXCEPT ![i].status = "expired"] /\ UNCHANGED thread
     ELSE /\ thread' = [thread EXCEPT ![t] = [Idle EXCEPT !.op = "accept", !.phase = "write", !.inv = i]]
          /\ UNCHANGED invitation
  /\ UNCHANGED <<clock, accounts, member, marks, requests>>

\* Mutant of Admit: the columns of role and status are mixed up.
AdmitStatus(t) ==
  LET i == thread[t].inv  u == invitation[i].user IN
  /\ At(t, "accept", "write")
  /\ invitation' = [invitation EXCEPT ![i].status = "accepted"]
  /\ spent' = IF Accepting(t, i) THEN spent ELSE spent \cup {i}
  /\ member' = [member EXCEPT ![u] = IF @ = "none" THEN "accepted" ELSE @]
  /\ invited' = IF member[u] = "none" THEN invited \cup {u} ELSE invited
  /\ admissions' = [admissions EXCEPT ![i] = IF member[u] = "none" THEN @ + 1 ELSE @]
  /\ End(t)
  /\ UNCHANGED <<clock, accounts, entangled, crowded, requests>>

\* No quota is asked for; a member keeps the role it has.
Admit(t) ==
  LET i == thread[t].inv  u == invitation[i].user IN
  /\ At(t, "accept", "write")
  /\ invitation' = [invitation EXCEPT ![i].status = "accepted"]
  /\ spent' = IF Accepting(t, i) THEN spent ELSE spent \cup {i}
  /\ member' = [member EXCEPT ![u] = IF @ = "none" THEN invitation[i].role ELSE @]
  /\ invited' = IF member[u] = "none" THEN invited \cup {u} ELSE invited
  /\ admissions' = [admissions EXCEPT ![i] = IF member[u] = "none" THEN @ + 1 ELSE @]
  /\ End(t)
  /\ UNCHANGED <<clock, accounts, entangled, crowded, requests>>

-----------------------------------------------------------------------------

\* The API process ends in the middle of a request; a password change has ended some of
\* the sessions, one by one.
Crash(t) ==
  LET mine == {k \in Tokens : session[k].user = thread[t].user /\ ~session[k].revoked} IN
  /\ thread[t] # Idle
  /\ IF At(t, "password", "sessions")
     THEN \E ended \in SUBSET mine :
            /\ session' = [k \in Tokens |-> IF k \in ended THEN [session[k] EXCEPT !.revoked = TRUE]
                                            ELSE session[k]]
            /\ late' = late \cup (mine \ ended)
     ELSE UNCHANGED <<session, late>>
  /\ End(t)
  /\ UNCHANGED <<clock, password, people, requests>>

Step(t) ==
  \/ ChangePassword(t) \/ EndSessions(t) \/ NoSuchSession(t)
  \/ CheckChange(t) \/ WriteChange(t) \/ CheckAddition(t) \/ Add(t)
  \/ CheckInvitation(t) \/ Invite(t) \/ NoInvitationFound(t) \/ Admit(t) \/ Crash(t)
  \/ \E i \in Invitations : Resend(t, i) \/ Revoke(t, i) \/ Accept(t, i)

Next ==
  \/ \E t \in Threads : Step(t) \/ (\E u \in Users, k \in Tokens \cup {NoToken} : Login(t, u, k))
                       \/ (\E k \in Tokens : OpenSession(t, k) \/ Rotate(t, k))
  \/ \E t \in Threads, k \in Tokens :
       \/ \E op \in {"password", "revoke", "resend", "rotate", "end", "others"} : Begin(t, k, op, Newcomer, "none")
       \/ \E u \in Users, role \in Offered, op \in {"update", "add", "invite"} : Begin(t, k, op, u, role)
       \/ \E u \in Users, op \in {"remove", "transfer"} : Begin(t, k, op, u, "none")
  \/ \E k \in Tokens : Logout(k)
  \/ Tick

Spec == Init /\ [][Next]_vars

=============================================================================
