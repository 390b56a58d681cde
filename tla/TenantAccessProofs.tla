--------------------------- MODULE TenantAccessProofs ---------------------------
(***************************************************************************)
(* Proofs about sessions, members and invitations of a tenant, for any      *)
(* number of users, sessions, invitations and requests under way.          *)
(***************************************************************************)
EXTENDS TenantAccessProps, FiniteSetTheorems, TLAPS

-----------------------------------------------------------------------------
(* The inductive invariant.                                                *)

SessionRow == [user : Users, version : Nat \cup {-1}, expires : Nat, seen : Nat, used : Nat,
               revoked : BOOLEAN]
InvitationRow ==
  [status : {"none", "pending", "accepted", "revoked", "expired"}, user : Users,
   role : Roles \cup {"none"}, expires : Nat]
ThreadRow ==
  [op : Ops, phase : {"idle", "check", "write", "sessions"}, user : Users,
   role : Roles \cup {"none"}, target : Users, to : Roles \cup {"none"}, version : Nat,
   was : Roles \cup {"none"}, token : Tokens \cup {NoToken},
   inv : Invitations \cup {NoInvitation}]

\* TypeOK with a name for each kind of row.
Types ==
  /\ clock \in 0..MaxClock /\ requests \in 0..MaxRequests
  /\ password \in [Users -> Nat] /\ session \in [Tokens -> SessionRow]
  /\ member \in [Users -> Roles \cup {"none"}] /\ invitation \in [Invitations -> InvitationRow]
  /\ thread \in [Threads -> ThreadRow] /\ late \subseteq Tokens
  /\ entangled \in BOOLEAN /\ crowded \in BOOLEAN
  /\ invited \subseteq Users /\ spent \subseteq Invitations /\ admissions \in [Invitations -> Nat]

\* A session that was opened has the version of a password, and its last use is written
\* unless the last time that was written is less than the touch interval before.
SessionOK(k) ==
  /\ ~session[k].revoked => session[k].version \in Nat
  /\ session[k].used < session[k].seen + TouchInterval

SessionInv == PasswordChangeEndsSessions /\ \A k \in Tokens : SessionOK(k)

\* What a request that is about to change a member has checked is still so.
Checked(t) ==
  LET me == thread[t] IN
  /\ me.was = member[me.target] /\ me.was # "none" /\ me.role \in {"owner", "admin"}
  /\ me.op = "update" => /\ me.to \notin {"owner", "none"}
                         /\ me.role = "owner" \/ {me.was, me.to} \cap {"owner", "admin"} = {}
  /\ me.op = "remove" => /\ me.was = "owner" => OtherOwner(me.target) /\ me.role = "owner"
                         /\ me.was = "admin" => me.role = "owner"
  /\ me.op = "transfer" => me.role = "owner" /\ me.target # me.user

Changing(t) == thread[t].op \in MemberOps

OwnerInv ==
  ~entangled => /\ \E u \in Users : member[u] = "owner"
                /\ \A s, t \in Threads : Changing(s) /\ Changing(t) => s = t
                /\ \A t \in Threads : Changing(t) /\ thread[t].phase = "write" => Checked(t)

\* Those who were added directly, for whom there was room.
Uninvited == Members \ invited

RoomInv ==
  ~crowded => /\ Cardinality(Uninvited) <= MaxUsers
              /\ \A s, t \in Threads : thread[s].op = "add" /\ thread[t].op = "add" => s = t
              /\ \A t \in Threads : At(t, "add", "write") => Cardinality(Uninvited) + 1 <= MaxUsers

SpentInv ==
  /\ \A t \in Threads : thread[t].op = "accept" => thread[t].inv \in Invitations
  /\ \A i \in spent :
       /\ invitation[i].status \notin {"none", "pending"}
       /\ \A t \in Threads : ~(At(t, "accept", "write") /\ thread[t].inv = i)

Inv == Types /\ SessionInv /\ OwnerInv /\ RoomInv /\ SpentInv

-----------------------------------------------------------------------------
(* Types.                                                                  *)

LEMMA IdleTypes ==
  Idle \in ThreadRow /\ NoSession \in SessionRow
  BY UserAssumption DEF Idle, ThreadRow, NoSession, SessionRow, Ops, Roles

LEMMA ThreadUpdate ==
  ASSUME Types, NEW t \in Threads, NEW row \in ThreadRow, thread' = [thread EXCEPT ![t] = row]
  PROVE  /\ thread' \in [Threads -> ThreadRow] /\ thread'[t] = row
         /\ \A s \in Threads \ {t} : thread'[s] = thread[s]
  BY DEF Types

\* A request goes on, or it is at its end.
LEMMA GoesOn ==
  ASSUME Types, NEW t \in Threads, NEW phase \in {"write", "sessions"}, Goto(t, phase)
  PROVE  /\ thread' \in [Threads -> ThreadRow]
         /\ thread'[t].phase = phase /\ thread'[t].op = thread[t].op
         /\ thread'[t].user = thread[t].user /\ thread'[t].target = thread[t].target
         /\ thread'[t].to = thread[t].to /\ thread'[t].role = thread[t].role
         /\ \A s \in Threads \ {t} : thread'[s] = thread[s]
  <1> DEFINE row == [thread[t] EXCEPT !.phase = phase]
  <1>1. thread[t] \in ThreadRow
    BY DEF Types
  <1>2. /\ row \in ThreadRow /\ row.phase = phase /\ row.op = thread[t].op
        /\ row.user = thread[t].user /\ row.target = thread[t].target
        /\ row.to = thread[t].to /\ row.role = thread[t].role
    BY <1>1 DEF ThreadRow
  <1>3. thread' = [thread EXCEPT ![t] = row]
    BY DEF Goto, Types
  <1> HIDE DEF row
  <1> QED
    BY <1>2, <1>3, ThreadUpdate

LEMMA Ends ==
  ASSUME Types, NEW t \in Threads, End(t)
  PROVE  /\ thread' \in [Threads -> ThreadRow] /\ thread'[t].op = "none" /\ thread'[t] = Idle
         /\ \A s \in Threads \ {t} : thread'[s] = thread[s]
  BY ThreadUpdate, IdleTypes DEF End, Idle

LEMMA MembersFinite ==
  /\ IsFiniteSet(Members) /\ IsFiniteSet(Uninvited) /\ MaxUsers \in Nat
  /\ Cardinality(Members) \in Nat /\ Cardinality(Uninvited) \in Nat
  BY PlanAssumption, TimeAssumption, FS_Subset, FS_CardinalityType DEF Members, Uninvited

LEMMA InvInit == Init => Inv
  <1> SUFFICES ASSUME Init PROVE Inv
    OBVIOUS
  <1>1. PICK owners, admins \in SUBSET Founders :
          /\ owners # {}
          /\ member = [u \in Users |-> IF u \in owners THEN "owner"
                                       ELSE IF u \in admins THEN "admin" ELSE "none"]
    BY DEF Init
  <1>2. Types
    <2>1. member \in [Users -> Roles \cup {"none"}]
      BY <1>1 DEF Roles
    <2>2. invitation \in [Invitations -> InvitationRow]
      BY UserAssumption DEF Init, Unsent, InvitationRow, Roles
    <2>3. /\ clock \in 0..MaxClock /\ requests \in 0..MaxRequests
          /\ admissions \in [Invitations -> Nat]
      BY TimeAssumption DEF Init
    <2>4. password \in [Users -> Nat] /\ session \in [Tokens -> SessionRow]
      BY IdleTypes DEF Init
    <2>5. thread \in [Threads -> ThreadRow] /\ late \subseteq Tokens
      BY IdleTypes DEF Init
    <2> QED
      BY <2>1, <2>2, <2>3, <2>4, <2>5 DEF Init, Types
  <1>3. SessionInv
    BY TimeAssumption DEF Init, SessionInv, PasswordChangeEndsSessions, SessionOK, NoSession
  <1>4. OwnerInv
    BY <1>1, UserAssumption DEF Init, OwnerInv, Changing, Idle, MemberOps
  <1>5. RoomInv
    <2>1. Members \subseteq Founders
      BY <1>1 DEF Members
    <2>2. IsFiniteSet(Founders)
      BY PlanAssumption, UserAssumption, FS_Subset
    <2>3. Cardinality(Uninvited) <= MaxUsers
      <3>1. Uninvited \subseteq Founders
        BY <2>1 DEF Uninvited
      <3>2. Cardinality(Uninvited) <= Cardinality(Founders) /\ Cardinality(Founders) \in Nat
        BY <2>2, <3>1, FS_Subset, FS_CardinalityType
      <3> QED
        BY <3>2, MembersFinite, PlanAssumption
    <2> QED
      BY <2>3 DEF Init, RoomInv, At, Idle
  <1>6. SpentInv
    BY DEF Init, SpentInv, Idle
  <1> QED
    BY <1>2, <1>3, <1>4, <1>5, <1>6 DEF Inv

-----------------------------------------------------------------------------
(* What steps that concern one part leave of the others.                   *)

\* A password change is under way until it has ended the sessions.
Revoking(t) == At(t, "password", "sessions")

LEMMA SessionFrame ==
  ASSUME SessionInv, UNCHANGED <<password, session, late>>,
         \A t \in Threads : Revoking(t) => thread'[t] = thread[t]
  PROVE  SessionInv'
  BY DEF SessionInv, PasswordChangeEndsSessions, SessionOK, Revoking, At

\* Nobody who was a member changes, and no change is checked or begun.
LEMMA OwnerFrame ==
  ASSUME Types, OwnerInv, entangled' = entangled,
         \A u \in Users : member[u] # "none" => member'[u] = member[u],
         \A t \in Threads : thread'[t] = thread[t] \/ thread'[t].op \notin MemberOps
  PROVE  OwnerInv'
  <1> SUFFICES ASSUME ~entangled PROVE OwnerInv'
    BY DEF OwnerInv
  <1>1. \E u \in Users : member'[u] = "owner"
    BY DEF OwnerInv
  <1>2. \A s, t \in Threads : thread'[s].op \in MemberOps /\ thread'[t].op \in MemberOps => s = t
    BY DEF OwnerInv, Changing
  <1>3. ASSUME NEW t \in Threads, thread'[t].op \in MemberOps, thread'[t].phase = "write"
        PROVE  Checked(t)'
    <2>1. thread'[t] = thread[t] /\ Checked(t)
      BY <1>3 DEF OwnerInv, Changing
    <2>2. thread[t].target \in Users
      BY DEF Types, ThreadRow
    <2> QED
      BY <2>1, <2>2 DEF Checked, OtherOwner
  <1> QED
    BY <1>1, <1>2, <1>3 DEF OwnerInv, Changing

\* Nobody is added, and nobody is about to be.
LEMMA RoomFrame ==
  ASSUME RoomInv, crowded' = crowded, Uninvited' \subseteq Uninvited,
         \A t \in Threads : thread'[t] = thread[t] \/ thread'[t].op # "add"
  PROVE  RoomInv'
  <1>1. Cardinality(Uninvited') <= Cardinality(Uninvited) /\ Cardinality(Uninvited') \in Nat
    BY MembersFinite, FS_Subset, FS_CardinalityType
  <1> SUFFICES ASSUME ~crowded PROVE RoomInv'
    BY DEF RoomInv
  <1>2. Cardinality(Uninvited') <= MaxUsers
    BY <1>1, MembersFinite DEF RoomInv
  <1>3. \A s, t \in Threads : thread'[s].op = "add" /\ thread'[t].op = "add" => s = t
    BY DEF RoomInv
  <1>4. ASSUME NEW t \in Threads, thread'[t].op = "add", thread'[t].phase = "write"
        PROVE  Cardinality(Uninvited') + 1 <= MaxUsers
    <2>1. Cardinality(Uninvited) + 1 <= MaxUsers
      BY <1>4 DEF RoomInv, At
    <2> QED
      BY <1>1, <2>1, MembersFinite
  <1> QED
    BY <1>2, <1>3, <1>4 DEF RoomInv, At

LEMMA SpentFrame ==
  ASSUME SpentInv, spent' = spent,
         \A i \in spent : invitation'[i].status \notin {"none", "pending"},
         \A t \in Threads : thread'[t] = thread[t] \/ thread'[t].op # "accept"
  PROVE  SpentInv'
  BY DEF SpentInv, At

\* The steps that concern sessions only: they take up no change of members.
LEMMA PeopleFrame ==
  ASSUME Inv, UNCHANGED people,
         \A t \in Threads : thread'[t] = thread[t] \/ thread'[t].op \notin MemberOps \cup {"add", "accept"}
  PROVE  OwnerInv' /\ RoomInv' /\ SpentInv'
  <1>1. UNCHANGED <<member, invitation, entangled, crowded, invited, spent, admissions>>
    BY DEF people, marks
  <1>2. OwnerInv'
    BY <1>1, OwnerFrame DEF Inv
  <1>3. RoomInv'
    BY <1>1, RoomFrame DEF Inv, Members, Uninvited
  <1>4. SpentInv'
    BY <1>1, SpentFrame DEF Inv, SpentInv
  <1> QED
    BY <1>2, <1>3, <1>4

-----------------------------------------------------------------------------
(* Steps that concern sessions.                                            *)

\* A session that is signed off is as if it had never been.
LEMMA SignOffKeeps ==
  ASSUME Types, SessionInv, NEW k, SignOff(k), password' = password,
         \A t \in Threads : Revoking(t) => thread'[t] = thread[t]
  PROVE  session' \in [Tokens -> SessionRow] /\ late' \subseteq Tokens /\ SessionInv'
  <1>1. /\ session' = [j \in Tokens |-> IF j = k THEN NoSession ELSE session[j]]
        /\ late' = late \ {k}
    BY DEF SignOff
  <1>2. session' \in [Tokens -> SessionRow] /\ late' \subseteq Tokens
    BY <1>1, IdleTypes DEF Types
  <1>3. ASSUME NEW j \in Tokens PROVE SessionOK(j)'
    BY <1>1, TimeAssumption DEF SessionInv, SessionOK, NoSession
  <1>4. PasswordChangeEndsSessions'
    <2> SUFFICES ASSUME NEW j \in Tokens \ late', ~session'[j].revoked
                 PROVE  \/ session'[j].version = password[session'[j].user]
                        \/ \E t \in Threads : thread'[t].op = "password" /\ thread'[t].phase = "sessions"
                                              /\ thread'[t].user = session'[j].user
      BY DEF PasswordChangeEndsSessions, At
    <2>1. j # k /\ session'[j] = session[j] /\ j \notin late
      BY <1>1 DEF NoSession
    <2> QED
      BY <2>1 DEF SessionInv, PasswordChangeEndsSessions, Revoking, At
  <1> QED
    BY <1>2, <1>3, <1>4 DEF SessionInv

LEMMA LoginStep ==
  ASSUME Inv, NEW t \in Threads, NEW u \in Users, NEW k \in Tokens \cup {NoToken}, Login(t, u, k)
  PROVE  Inv'
  <1>1. /\ UNCHANGED <<clock, password, member, invitation, entangled, crowded, invited, spent, admissions>>
        /\ UNCHANGED people /\ SignOff(k) /\ thread[t] = Idle
        /\ requests' = requests + 1 /\ requests < MaxRequests
    BY DEF Login, people, marks, SignOffFirst
  <1> DEFINE row == [Idle EXCEPT !.op = "login", !.phase = "write", !.user = u, !.version = password[u]]
  <1>2. row \in ThreadRow /\ row.op = "login"
    BY UserAssumption DEF Inv, Types, Idle, ThreadRow, Ops, Roles
  <1>3. thread' = [thread EXCEPT ![t] = row]
    BY DEF Login
  <1> HIDE DEF row
  <1>4. /\ thread' \in [Threads -> ThreadRow] /\ thread'[t] = row
        /\ \A s \in Threads \ {t} : thread'[s] = thread[s]
    BY <1>2, <1>3, ThreadUpdate DEF Inv
  <1>5. session' \in [Tokens -> SessionRow] /\ late' \subseteq Tokens /\ SessionInv'
    BY <1>1, <1>4, SignOffKeeps DEF Inv, Revoking, At, Idle
  <1>6. Types'
    BY <1>1, <1>4, <1>5, TimeAssumption DEF Inv, Types
  <1>7. OwnerInv' /\ RoomInv' /\ SpentInv'
    BY <1>1, <1>2, <1>4, PeopleFrame DEF MemberOps
  <1> QED
    BY <1>5, <1>6, <1>7 DEF Inv

LEMMA LogoutStep ==
  ASSUME Inv, NEW k \in Tokens, Logout(k)
  PROVE  Inv'
  <1>1. /\ UNCHANGED <<clock, password, member, invitation, entangled, crowded, invited, spent, admissions,
                       thread, requests>>
        /\ UNCHANGED people /\ SignOff(k)
    BY DEF Logout, people, marks
  <1>2. session' \in [Tokens -> SessionRow] /\ late' \subseteq Tokens /\ SessionInv'
    BY <1>1, SignOffKeeps DEF Inv
  <1>3. Types'
    BY <1>1, <1>2 DEF Inv, Types
  <1> QED
    BY <1>1, <1>2, <1>3, PeopleFrame DEF Inv

\* The session that a login or a switch of tenants inserts has the password as it is, or
\* comes too late, or before the sessions are ended.
LEMMA NewSessionOK ==
  ASSUME Types, NEW t \in Threads, ~Revoking(t)
  PROVE  /\ NewSession(t) \in SessionRow
         /\ NewSession(t).user = thread[t].user
         /\ NewSession(t).version \in Nat
         /\ NewSession(t).used = clock /\ NewSession(t).seen = clock
         /\ \/ TooLate(t)
            \/ NewSession(t).version = password[thread[t].user]
            \/ \E s \in Threads \ {t} : Revoking(s) /\ thread[s].user = thread[t].user
  <1>1. thread[t] \in ThreadRow /\ clock \in Nat
    BY DEF Types
  <1> QED
    BY <1>1, TimeAssumption DEF NewSession, SessionRow, ThreadRow, TooLate, Revoking

LEMMA InsertStep ==
  ASSUME Inv, NEW t \in Threads, NEW k \in Tokens, OpenSession(t, k) \/ Rotate(t, k)
  PROVE  Inv'
  <1>1. /\ UNCHANGED <<clock, password, member, invitation, entangled, crowded, invited, spent, admissions, requests>>
        /\ UNCHANGED people /\ End(t) /\ ~Revoking(t)
        /\ late' = IF TooLate(t) THEN late \cup {k} ELSE late
    BY DEF OpenSession, Rotate, people, marks, Revoking, At
  <1>2. /\ thread' \in [Threads -> ThreadRow] /\ thread'[t].op = "none"
        /\ \A s \in Threads \ {t} : thread'[s] = thread[s]
    BY <1>1, Ends DEF Inv
  <1>3. /\ session' \in [Tokens -> SessionRow] /\ session'[k] = NewSession(t)
        /\ \A j \in Tokens \ {k} : \/ session'[j] = session[j]
                                   \/ /\ session'[j].revoked
                                      /\ session'[j].used = session[j].used
                                      /\ session'[j].seen = session[j].seen
    <2>1. NewSession(t) \in SessionRow
      BY <1>1, NewSessionOK DEF Inv
    <2>2. CASE OpenSession(t, k)
      BY <2>1, <2>2 DEF OpenSession, Inv, Types
    <2>3. CASE Rotate(t, k)
      <3>1. session' = [j \in Tokens |->
                          CASE j = k -> NewSession(t)
                            [] j = thread[t].token /\ session[j] # NoSession ->
                                 [session[j] EXCEPT !.revoked = TRUE]
                            [] OTHER -> session[j]]
        BY <2>3 DEF Rotate
      <3>2. ASSUME NEW j \in Tokens
            PROVE  /\ [session[j] EXCEPT !.revoked = TRUE] \in SessionRow
                   /\ [session[j] EXCEPT !.revoked = TRUE].revoked
                   /\ [session[j] EXCEPT !.revoked = TRUE].used = session[j].used
                   /\ [session[j] EXCEPT !.revoked = TRUE].seen = session[j].seen
        <4>1. session[j] \in SessionRow
          BY DEF Inv, Types
        <4> QED
          BY <4>1 DEF SessionRow
      <3>3. session'[k] = NewSession(t)
        BY <2>3, <3>1 DEF Rotate, Unused
      <3>4. ASSUME NEW j \in Tokens, j # k
            PROVE  session'[j] = session[j] \/ session'[j] = [session[j] EXCEPT !.revoked = TRUE]
        BY <3>1, <3>4
      <3>5. \A j \in Tokens : session'[j] \in SessionRow
        BY <2>1, <3>2, <3>3, <3>4 DEF Inv, Types
      <3>6. session' \in [Tokens -> SessionRow]
        BY <3>1, <3>5
      <3> QED
        BY <3>2, <3>3, <3>4, <3>6
    <2> QED
      BY <2>2, <2>3
  <1>4. Types'
    BY <1>1, <1>2, <1>3 DEF Inv, Types
  <1>5. ASSUME NEW j \in Tokens PROVE SessionOK(j)'
    <2>1. CASE j = k
      BY <1>1, <1>3, <2>1, NewSessionOK, TimeAssumption DEF SessionOK, Inv, Types
    <2>2. CASE j # k
      BY <1>3, <2>2 DEF SessionOK, Inv, SessionInv
    <2> QED  BY <2>1, <2>2
  <1>6. PasswordChangeEndsSessions'
    <2> SUFFICES ASSUME NEW j \in Tokens \ late', ~session'[j].revoked
                 PROVE  \/ session'[j].version = password[session'[j].user]
                        \/ \E s \in Threads : Revoking(s)' /\ thread'[s].user = session'[j].user
      BY <1>1 DEF PasswordChangeEndsSessions, Revoking
    <2>1. \A s \in Threads : Revoking(s) => Revoking(s)' /\ thread'[s] = thread[s]
      BY <1>1, <1>2 DEF Revoking, At
    <2>2. CASE j = k
      <3>1. ~TooLate(t)
        BY <1>1, <2>2
      <3> QED
        BY <1>1, <1>3, <2>1, <2>2, <3>1, NewSessionOK DEF Inv
    <2>3. CASE j # k
      <3>1. session'[j] = session[j] /\ j \notin late
        BY <1>1, <1>3, <2>3
      <3> QED
        BY <2>1, <3>1 DEF Inv, SessionInv, PasswordChangeEndsSessions, Revoking
    <2> QED  BY <2>2, <2>3
  <1>7. OwnerInv' /\ RoomInv' /\ SpentInv'
    BY <1>1, <1>2, PeopleFrame DEF MemberOps
  <1> QED
    BY <1>4, <1>5, <1>6, <1>7 DEF Inv, SessionInv

\* A request that begins touches its session and takes up what the user may do.
LEMMA BeginStep ==
  ASSUME Inv, NEW t \in Threads, NEW k \in Tokens, NEW op \in Ops \ {"accept"}, NEW u \in Users,
         NEW role \in Roles \cup {"none"}, Begin(t, k, op, u, role)
  PROVE  Inv'
  <1>1. /\ UNCHANGED <<clock, password, late, member, invitation, invited, spent, admissions>>
        /\ requests' = requests + 1 /\ requests < MaxRequests
        /\ session' = [session EXCEPT ![k] = Touched(k)]
        /\ thread[t] = Idle /\ ~session[k].revoked
    BY DEF Begin, Valid
  <1> DEFINE me == session[k].user
             row == [Idle EXCEPT !.op = op, !.phase = "check", !.user = me, !.role = member[me],
                                 !.target = u, !.to = role,
                                 !.version = IF op = "rotate" THEN session[k].version ELSE 0,
                                 !.token = IF op \in {"rotate", "others"} THEN k ELSE NoToken]
  <1>2. session[k] \in SessionRow /\ session[k].version \in Nat
    BY <1>1 DEF Inv, Types, SessionInv, SessionOK
  <1>3. row \in ThreadRow /\ row.op = op /\ row.phase = "check"
    <2>1. me \in Users /\ member[me] \in Roles \cup {"none"}
      BY <1>2 DEF SessionRow, Inv, Types
    <2> HIDE DEF me
    <2> QED
      BY <1>2, <2>1 DEF Idle, ThreadRow
  <1>4. thread' = [thread EXCEPT ![t] = row]
    BY DEF Begin
  <1>5. /\ entangled' = (entangled \/ /\ op \in MemberOps
                                      /\ \E s \in Threads \ {t} : thread[s].op \in MemberOps)
        /\ crowded' = (crowded \/ /\ op = "add"
                                  /\ \E s \in Threads \ {t} : thread[s].op = "add")
    BY DEF Begin
  <1> HIDE DEF row
  <1>6. /\ thread' \in [Threads -> ThreadRow] /\ thread'[t] = row
        /\ \A s \in Threads \ {t} : thread'[s] = thread[s]
    BY <1>3, <1>4, ThreadUpdate DEF Inv
  <1>7. /\ Touched(k) \in SessionRow /\ Touched(k).user = session[k].user
        /\ Touched(k).version = session[k].version /\ Touched(k).revoked = session[k].revoked
        /\ Touched(k).used < Touched(k).seen + TouchInterval
    <2>1. clock \in Nat /\ session[k].seen \in Nat /\ TouchInterval \in Nat /\ 0 < TouchInterval
      BY <1>2, TimeAssumption DEF Inv, Types, SessionRow
    <2> DEFINE seen == IF session[k].seen <= clock - TouchInterval THEN clock ELSE session[k].seen
    <2>2. Touched(k) = [session[k] EXCEPT !.used = clock, !.seen = seen]
      BY <1>2 DEF Touched, SessionRow
    <2>3. seen \in Nat /\ clock < seen + TouchInterval
      BY <2>1
    <2> HIDE DEF seen
    <2> QED
      BY <1>2, <2>1, <2>2, <2>3 DEF SessionRow
  <1>8. Types'
    <2>1. session' \in [Tokens -> SessionRow]
      BY <1>1, <1>7 DEF Inv, Types
    <2>2. requests' \in 0..MaxRequests
      BY <1>1, TimeAssumption DEF Inv, Types
    <2> QED
      BY <1>1, <1>5, <1>6, <2>1, <2>2 DEF Inv, Types
  <1>9. SessionInv'
    <2>1. /\ session'[k] = Touched(k)
          /\ \A j \in Tokens \ {k} : session'[j] = session[j]
      BY <1>1 DEF Inv, Types
    <2>2. ASSUME NEW j \in Tokens PROVE SessionOK(j)'
      BY <1>2, <1>7, <2>1 DEF SessionOK, Inv, SessionInv
    <2>3. \A s \in Threads : Revoking(s) => thread'[s] = thread[s]
      BY <1>1, <1>6 DEF Revoking, At, Idle
    <2>4. PasswordChangeEndsSessions'
      BY <1>1, <1>7, <2>1, <2>3 DEF Inv, SessionInv, PasswordChangeEndsSessions, Revoking, At
    <2> QED  BY <2>2, <2>4 DEF SessionInv
  <1>10. OwnerInv'
    <2> SUFFICES ASSUME ~entangled' PROVE OwnerInv'
      BY DEF OwnerInv
    <2>1. ~entangled /\ \A s \in Threads \ {t} : op \in MemberOps => thread[s].op \notin MemberOps
      BY <1>5
    <2>2. \A r, s \in Threads : thread'[r].op \in MemberOps /\ thread'[s].op \in MemberOps => r = s
      BY <1>3, <1>6, <2>1 DEF Inv, OwnerInv, Changing
    <2>3. ASSUME NEW s \in Threads, thread'[s].op \in MemberOps, thread'[s].phase = "write"
          PROVE  Checked(s)'
      <3>1. s # t /\ thread'[s] = thread[s] /\ Checked(s)
        BY <1>3, <1>6, <2>1, <2>3 DEF Inv, OwnerInv, Changing
      <3> QED
        BY <1>1, <3>1 DEF Checked, OtherOwner
    <2> QED
      BY <1>1, <2>1, <2>2, <2>3 DEF Inv, OwnerInv, Changing
  <1>11. RoomInv'
    <2> SUFFICES ASSUME ~crowded' PROVE RoomInv'
      BY DEF RoomInv
    <2>1. ~crowded /\ \A s \in Threads \ {t} : op = "add" => thread[s].op # "add"
      BY <1>5
    <2>2. \A r, s \in Threads : thread'[r].op = "add" /\ thread'[s].op = "add" => r = s
      BY <1>3, <1>6, <2>1 DEF Inv, RoomInv
    <2>3. \A s \in Threads : At(s, "add", "write")' => At(s, "add", "write")
      BY <1>3, <1>6 DEF At
    <2>4. Uninvited' = Uninvited
      BY <1>1 DEF Members, Uninvited
    <2> QED
      BY <1>1, <2>1, <2>2, <2>3, <2>4 DEF Inv, RoomInv
  <1>12. SpentInv'
    BY <1>1, <1>3, <1>6 DEF Inv, SpentInv, At
  <1> QED
    BY <1>8, <1>9, <1>10, <1>11, <1>12 DEF Inv

\* Revoking a session takes nothing from the others; whom it leaves out comes late.
LEMMA RevokeKeeps ==
  ASSUME Types, SessionInv, password' = password, late \subseteq late',
         NEW S \in SUBSET Tokens,
         session' = [k \in Tokens |-> IF k \in S THEN [session[k] EXCEPT !.revoked = TRUE]
                                      ELSE session[k]],
         \A t \in Threads : Revoking(t) =>
           \/ thread'[t] = thread[t]
           \/ \A k \in Tokens : session[k].user = thread[t].user => session'[k].revoked \/ k \in late'
  PROVE  session' \in [Tokens -> SessionRow] /\ SessionInv'
  <1>1. ASSUME NEW k \in Tokens
        PROVE  /\ session'[k] \in SessionRow /\ SessionOK(k)'
               /\ ~session'[k].revoked => session'[k] = session[k]
    <2>1. session[k] \in SessionRow /\ SessionOK(k)
      BY DEF Types, SessionInv
    <2>2. CASE k \in S
      <3> DEFINE row == [session[k] EXCEPT !.revoked = TRUE]
      <3>1. /\ row \in SessionRow /\ row.revoked /\ row.used = session[k].used
            /\ row.seen = session[k].seen
        BY <2>1 DEF SessionRow
      <3>2. session'[k] = row
        BY <2>2
      <3> HIDE DEF row
      <3> QED
        BY <2>1, <3>1, <3>2 DEF SessionOK
    <2>3. CASE k \notin S
      BY <2>1, <2>3 DEF SessionOK
    <2> QED  BY <2>2, <2>3
  <1>2. session' \in [Tokens -> SessionRow]
    BY <1>1
  <1>3. PasswordChangeEndsSessions'
    <2> SUFFICES ASSUME NEW k \in Tokens \ late', ~session'[k].revoked
                 PROVE  \/ session'[k].version = password[session'[k].user]
                        \/ \E t \in Threads : Revoking(t)' /\ thread'[t].user = session'[k].user
      BY DEF PasswordChangeEndsSessions, Revoking
    <2>1. session'[k] = session[k]
      BY <1>1
    <2>2. \A t \in Threads : Revoking(t) /\ thread[t].user = session[k].user
                             => Revoking(t)' /\ thread'[t] = thread[t]
      BY <2>1 DEF Revoking, At
    <2> QED
      BY <2>1, <2>2 DEF SessionInv, PasswordChangeEndsSessions, Revoking
  <1> QED
    BY <1>1, <1>2, <1>3 DEF SessionInv

LEMMA PasswordStep ==
  ASSUME Inv, NEW t \in Threads, ChangePassword(t)
  PROVE  Inv'
  <1>1. /\ UNCHANGED <<clock, late, member, invitation, entangled, crowded, invited, spent, admissions, requests>>
        /\ UNCHANGED people /\ thread[t].op = "password"
    BY DEF ChangePassword, people, marks, At
  <1>2. CASE End(t) /\ UNCHANGED <<password, session>> /\ At(t, "password", "check")
    <2>1. /\ thread' \in [Threads -> ThreadRow] /\ thread'[t].op = "none"
          /\ \A s \in Threads \ {t} : thread'[s] = thread[s]
      BY <1>2, Ends DEF Inv
    <2>2. Types'
      BY <1>1, <1>2, <2>1 DEF Inv, Types
    <2>3. SessionInv'
      BY <1>1, <1>2, <2>1, SessionFrame DEF Inv, Revoking, At
    <2>4. OwnerInv' /\ RoomInv' /\ SpentInv'
      BY <1>1, <2>1, PeopleFrame DEF MemberOps
    <2> QED
      BY <2>2, <2>3, <2>4 DEF Inv
  <1>3. CASE /\ At(t, "password", "check") /\ session' = session
             /\ password' = [password EXCEPT ![thread[t].user] = @ + 1] /\ Goto(t, "sessions")
    <2>1. /\ thread' \in [Threads -> ThreadRow] /\ thread'[t].op = "password"
          /\ thread'[t].phase = "sessions" /\ thread'[t].user = thread[t].user
          /\ \A s \in Threads \ {t} : thread'[s] = thread[s]
      BY <1>1, <1>3, GoesOn DEF Inv
    <2>2. password' \in [Users -> Nat] /\ \A u \in Users \ {thread[t].user} : password'[u] = password[u]
      BY <1>3 DEF Inv, Types, ThreadRow
    <2>3. Types'
      BY <1>1, <1>3, <2>1, <2>2 DEF Inv, Types
    <2>4. ASSUME NEW k \in Tokens \ late, ~session[k].revoked
          PROVE  \/ session[k].version = password'[session[k].user]
                 \/ \E s \in Threads : /\ thread'[s].op = "password" /\ thread'[s].phase = "sessions"
                                       /\ thread'[s].user = session[k].user
      <3>1. session[k].user \in Users
        BY DEF Inv, Types, SessionRow
      <3>2. CASE session[k].user = thread[t].user
        BY <2>1, <3>2
      <3>3. CASE session[k].user # thread[t].user
        <4>1. \A s \in Threads : Revoking(s) => s # t
          BY <1>3 DEF Revoking, At
        <4> QED
          BY <2>1, <2>2, <2>4, <3>1, <3>3, <4>1 DEF Inv, SessionInv, PasswordChangeEndsSessions, Revoking, At
      <3> QED  BY <3>2, <3>3
    <2>5. SessionInv'
      BY <1>1, <1>3, <2>4 DEF Inv, SessionInv, PasswordChangeEndsSessions, SessionOK, At
    <2>6. OwnerInv' /\ RoomInv' /\ SpentInv'
      BY <1>1, <2>1, PeopleFrame DEF MemberOps
    <2> QED
      BY <2>3, <2>5, <2>6 DEF Inv
  <1>4. CASE /\ At(t, "password", "sessions") /\ password' = password /\ End(t)
             /\ session' = [k \in Tokens |->
                              IF session[k].user = thread[t].user /\ session[k] # NoSession
                              THEN [session[k] EXCEPT !.revoked = TRUE] ELSE session[k]]
    <2>1. /\ thread' \in [Threads -> ThreadRow] /\ thread'[t].op = "none"
          /\ \A s \in Threads \ {t} : thread'[s] = thread[s]
      BY <1>4, Ends DEF Inv
    <2> DEFINE S == {k \in Tokens : session[k].user = thread[t].user /\ session[k] # NoSession}
    <2>2. /\ S \in SUBSET Tokens
          /\ session' = [k \in Tokens |-> IF k \in S THEN [session[k] EXCEPT !.revoked = TRUE]
                                          ELSE session[k]]
      BY <1>4
    <2>3. ASSUME NEW k \in Tokens, session[k].user = thread[t].user PROVE session'[k].revoked
      <3>1. session[k] \in SessionRow
        BY DEF Inv, Types
      <3> QED
        BY <2>2, <2>3, <3>1 DEF SessionRow, NoSession
    <2> HIDE DEF S
    <2>4. session' \in [Tokens -> SessionRow] /\ SessionInv'
      BY <1>1, <1>4, <2>1, <2>2, <2>3, RevokeKeeps DEF Inv
    <2>5. Types'
      BY <1>1, <1>4, <2>1, <2>4 DEF Inv, Types
    <2>6. OwnerInv' /\ RoomInv' /\ SpentInv'
      BY <1>1, <2>1, PeopleFrame DEF MemberOps
    <2> QED
      BY <2>4, <2>5, <2>6 DEF Inv
  <1> QED
    BY <1>2, <1>3, <1>4 DEF ChangePassword

LEMMA EndSessionsStep ==
  ASSUME Inv, NEW t \in Threads, EndSessions(t) \/ NoSuchSession(t)
  PROVE  Inv'
  <1>1. /\ UNCHANGED <<clock, password, late, member, invitation, entangled, crowded, invited, spent,
                       admissions, requests>>
        /\ UNCHANGED people /\ thread[t].op \in {"end", "others"} /\ End(t)
    BY DEF EndSessions, NoSuchSession, people, marks, accounts, At
  <1>2. /\ thread' \in [Threads -> ThreadRow] /\ thread'[t].op = "none"
        /\ \A s \in Threads \ {t} : thread'[s] = thread[s]
    BY <1>1, Ends DEF Inv
  <1>3. PICK S \in SUBSET Tokens :
          session' = [k \in Tokens |-> IF k \in S THEN [session[k] EXCEPT !.revoked = TRUE]
                                       ELSE session[k]]
    <2>1. session \in [Tokens -> SessionRow]
      BY DEF Inv, Types
    <2>2. CASE NoSuchSession(t)
      <3> DEFINE nobody == {}
      <3>1. /\ nobody \in SUBSET Tokens
            /\ session' = [k \in Tokens |-> IF k \in nobody THEN [session[k] EXCEPT !.revoked = TRUE]
                                            ELSE session[k]]
        BY <2>1, <2>2 DEF NoSuchSession, accounts
      <3> HIDE DEF nobody
      <3> QED  BY <3>1
    <2>3. ASSUME NEW k \in Tokens, session' = [session EXCEPT ![k].revoked = TRUE]
          PROVE  \E S \in SUBSET Tokens :
                   session' = [j \in Tokens |-> IF j \in S THEN [session[j] EXCEPT !.revoked = TRUE]
                                                ELSE session[j]]
      <3>1. session' = [j \in Tokens |-> IF j \in {k} THEN [session[j] EXCEPT !.revoked = TRUE]
                                         ELSE session[j]]
        BY <2>1, <2>3
      <3> QED  BY <3>1
    <2>4. CASE session' = [k \in Tokens |-> IF OwnSession(t, k) /\ k # thread[t].token
                                            THEN [session[k] EXCEPT !.revoked = TRUE] ELSE session[k]]
      <3> DEFINE own == {k \in Tokens : OwnSession(t, k) /\ k # thread[t].token}
      <3>1. session' = [k \in Tokens |-> IF k \in own THEN [session[k] EXCEPT !.revoked = TRUE]
                                         ELSE session[k]]
        BY <2>4
      <3> QED  BY <3>1
    <2> QED
      BY <2>2, <2>3, <2>4 DEF EndSessions
  <1>4. session' \in [Tokens -> SessionRow] /\ SessionInv'
    BY <1>1, <1>2, <1>3, RevokeKeeps DEF Inv, Revoking, At
  <1>5. Types'
    BY <1>1, <1>2, <1>4 DEF Inv, Types
  <1>6. OwnerInv' /\ RoomInv' /\ SpentInv'
    BY <1>1, <1>2, PeopleFrame DEF MemberOps
  <1> QED
    BY <1>4, <1>5, <1>6 DEF Inv

LEMMA TickStep ==
  ASSUME Inv, Tick
  PROVE  Inv'
  <1>1. Types'
    BY TimeAssumption DEF Tick, Inv, Types, people, marks, accounts
  <1>2. SessionInv'
    BY SessionFrame DEF Tick, Inv, accounts
  <1>3. OwnerInv' /\ RoomInv' /\ SpentInv'
    BY PeopleFrame DEF Tick
  <1> QED
    BY <1>1, <1>2, <1>3 DEF Inv

-----------------------------------------------------------------------------
(* Steps that concern members and invitations.                             *)

\* They leave sessions alone.
LEMMA AccountsFrame ==
  ASSUME Inv, UNCHANGED accounts, NEW t \in Threads, ~Revoking(t),
         \A s \in Threads \ {t} : thread'[s] = thread[s]
  PROVE  SessionInv'
  BY SessionFrame DEF accounts, Inv

\* A change is checked against rows that nobody else is about to change.
LEMMA CheckChangeStep ==
  ASSUME Inv, NEW t \in Threads, CheckChange(t)
  PROVE  Inv'
  <1>1. /\ UNCHANGED <<clock, member, invitation, entangled, crowded, invited, spent, admissions, requests>>
        /\ UNCHANGED accounts /\ UNCHANGED <<password, session, late>> /\ UNCHANGED people
        /\ thread[t].op \in MemberOps /\ ~Revoking(t)
    BY DEF CheckChange, people, marks, accounts, Revoking, At, MemberOps
  <1>2. CASE End(t)
    <2>1. /\ thread' \in [Threads -> ThreadRow] /\ thread'[t].op = "none"
          /\ \A s \in Threads \ {t} : thread'[s] = thread[s]
      BY <1>2, Ends DEF Inv
    <2>2. Types'
      BY <1>1, <2>1 DEF Inv, Types
    <2> QED
      BY <1>1, <2>1, <2>2, AccountsFrame, PeopleFrame DEF Inv, MemberOps
  <1>3. ASSUME ~End(t) PROVE Inv'
    <2> DEFINE was == member[thread[t].target]
               row == [thread[t] EXCEPT !.phase = "write", !.was = was]
    <2>1. thread[t] \in ThreadRow /\ was \in Roles \cup {"none"}
      BY DEF Inv, Types, ThreadRow
    <2>2. thread' = [thread EXCEPT ![t] = row]
      BY <1>3 DEF CheckChange, Inv, Types
    <2>3. /\ thread[t].role \in {"owner", "admin"} /\ was # "none" /\ MayChange(t)
          /\ thread[t].op = "remove" /\ was = "owner" => OtherOwner(thread[t].target)
      BY <1>3 DEF CheckChange
    <2> HIDE DEF was
    <2>4. /\ row \in ThreadRow /\ row.op = thread[t].op /\ row.was = was
          /\ row.target = thread[t].target /\ row.user = thread[t].user
          /\ row.role = thread[t].role /\ row.to = thread[t].to
      BY <2>1 DEF ThreadRow
    <2> HIDE DEF row
    <2>5. /\ thread' \in [Threads -> ThreadRow] /\ thread'[t] = row
          /\ \A s \in Threads \ {t} : thread'[s] = thread[s]
      BY <2>2, <2>4, ThreadUpdate DEF Inv
    <2>6. Types'
      BY <1>1, <2>5 DEF Inv, Types
    <2>7. OwnerInv'
      <3> SUFFICES ASSUME ~entangled PROVE OwnerInv'
        BY <1>1 DEF OwnerInv
      <3>1. \A r, s \in Threads : thread'[r].op \in MemberOps /\ thread'[s].op \in MemberOps => r = s
        BY <1>1, <2>4, <2>5 DEF Inv, OwnerInv, Changing
      <3>2. Checked(t)'
        <4>1. was = member'[row.target]
          BY <1>1, <2>4 DEF was
        <4> QED
          BY <1>1, <2>1, <2>3, <2>4, <2>5, <4>1 DEF Checked, MayChange, OtherOwner, was, MemberOps, Roles
      <3>3. ASSUME NEW s \in Threads, thread'[s].op \in MemberOps PROVE s = t
        BY <1>1, <2>4, <2>5, <3>1, <3>3
      <3> QED
        BY <1>1, <3>1, <3>2, <3>3 DEF Inv, OwnerInv, Changing
    <2>8. RoomInv'
      BY <1>1, <2>4, <2>5, RoomFrame DEF Inv, Members, Uninvited, MemberOps
    <2>9. SpentInv'
      BY <1>1, <2>4, <2>5, SpentFrame DEF Inv, SpentInv, MemberOps
    <2> QED
      BY <1>1, <2>5, <2>6, <2>7, <2>8, <2>9, AccountsFrame DEF Inv
  <1> QED
    BY <1>2, <1>3

\* What the write of a change does, when nobody else changes members.
LEMMA ChangeWritten ==
  ASSUME Inv, NEW t \in Threads, WriteChange(t), ~entangled
  PROVE  /\ \E u \in Users : member'[u] = "owner"
         /\ thread[t].role # "owner" =>
              \A u \in Users : member'[u] # member[u] =>
                {member[u], member'[u]} \cap {"owner", "admin"} = {}
  <1> DEFINE me == thread[t]
             to(u, role) == IF member[u] = "none" THEN "none" ELSE role
  <1>1. me \in ThreadRow /\ me.target \in Users /\ me.user \in Users
        /\ member \in [Users -> Roles \cup {"none"}]
    BY DEF Inv, Types, ThreadRow
  <1>2. Checked(t) /\ me.op \in MemberOps
    BY DEF WriteChange, Inv, OwnerInv, Changing
  <1>3. PICK o \in Users : member[o] = "owner"
    BY DEF Inv, OwnerInv
  <1>4. CASE me.op = "remove"
    <2>1. member' = [u \in Users |-> IF u = me.target THEN "none" ELSE member[u]]
      BY <1>4 DEF WriteChange
    <2> QED
      BY <1>1, <1>2, <1>3, <1>4, <2>1 DEF Checked, OtherOwner, Roles
  <1>5. CASE me.op = "update"
    <2>1. member' = IF me.was = "owner" /\ ~OtherOwner(me.target) THEN member
                    ELSE [member EXCEPT ![me.target] = to(me.target, me.to)]
      BY <1>5 DEF WriteChange
    <2> QED
      BY <1>1, <1>2, <1>3, <1>5, <2>1 DEF Checked, OtherOwner, Roles
  <1>6. CASE me.op = "transfer"
    <2>1. member' = [member EXCEPT ![me.target] = to(me.target, "owner"),
                                   ![me.user] = to(me.user, "admin")]
      BY <1>6 DEF WriteChange
    <2> QED
      BY <1>1, <1>2, <1>6, <2>1 DEF Checked
  <1> QED
    BY <1>2, <1>4, <1>5, <1>6 DEF MemberOps

LEMMA WriteChangeStep ==
  ASSUME Inv, NEW t \in Threads, WriteChange(t)
  PROVE  Inv'
  <1>1. /\ UNCHANGED <<clock, invitation, entangled, crowded, invited, spent, admissions, requests>>
        /\ UNCHANGED accounts /\ UNCHANGED <<password, session, late>>
        /\ thread[t].op \in MemberOps /\ ~Revoking(t) /\ End(t)
    BY DEF WriteChange, marks, accounts, Revoking, At, MemberOps
  <1>2. /\ thread' \in [Threads -> ThreadRow] /\ thread'[t].op = "none"
        /\ \A s \in Threads \ {t} : thread'[s] = thread[s]
    BY <1>1, Ends DEF Inv
  <1>3. /\ member' \in [Users -> Roles \cup {"none"}]
        /\ \A u \in Users : member[u] = "none" => member'[u] = "none"
    <2> DEFINE me == thread[t]
               to(u, role) == IF member[u] = "none" THEN "none" ELSE role
    <2>1. me \in ThreadRow /\ me.target \in Users /\ me.user \in Users /\ me.to \in Roles \cup {"none"}
          /\ member \in [Users -> Roles \cup {"none"}]
      BY DEF Inv, Types, ThreadRow
    <2>2. CASE me.op = "remove"
      BY <2>1, <2>2 DEF WriteChange
    <2>3. CASE me.op = "update"
      <3>1. member' = IF me.was = "owner" /\ ~OtherOwner(me.target) THEN member
                      ELSE [member EXCEPT ![me.target] = to(me.target, me.to)]
        BY <2>3 DEF WriteChange
      <3> QED
        BY <2>1, <3>1
    <2>4. CASE me.op = "transfer"
      <3>1. member' = [member EXCEPT ![me.target] = to(me.target, "owner"),
                                     ![me.user] = to(me.user, "admin")]
        BY <2>4 DEF WriteChange
      <3> QED
        BY <2>1, <3>1 DEF Roles
    <2> QED
      BY <1>1, <2>2, <2>3, <2>4 DEF MemberOps
  <1>4. Types'
    BY <1>1, <1>2, <1>3 DEF Inv, Types
  <1>5. OwnerInv'
    <2> SUFFICES ASSUME ~entangled PROVE OwnerInv'
      BY <1>1 DEF OwnerInv
    <2>1. \E u \in Users : member'[u] = "owner"
      BY ChangeWritten
    <2>2. ASSUME NEW s \in Threads PROVE thread'[s].op \notin MemberOps
      BY <1>1, <1>2 DEF Inv, OwnerInv, Changing, MemberOps
    <2> QED
      BY <2>1, <2>2 DEF OwnerInv, Changing
  <1>6. RoomInv'
    <2>1. Uninvited' \subseteq Uninvited
      BY <1>1, <1>3 DEF Members, Uninvited
    <2> QED
      BY <1>1, <1>2, <2>1, RoomFrame DEF Inv
  <1>7. SpentInv'
    BY <1>1, <1>2, SpentFrame DEF Inv, SpentInv
  <1> QED
    BY <1>1, <1>2, <1>4, <1>5, <1>6, <1>7, AccountsFrame DEF Inv

\* One who is added makes the tenant one larger at most.
LEMMA Joins ==
  ASSUME NEW u \in Users, Uninvited' \subseteq Uninvited \cup {u}
  PROVE  /\ Cardinality(Uninvited') \in Nat
         /\ Cardinality(Uninvited') <= Cardinality(Uninvited) + 1
  <1>1. /\ IsFiniteSet(Uninvited \cup {u})
        /\ Cardinality(Uninvited \cup {u}) <= Cardinality(Uninvited) + 1
    <2>1. /\ IsFiniteSet(Uninvited \cup {u})
          /\ \/ Cardinality(Uninvited \cup {u}) = Cardinality(Uninvited)
             \/ Cardinality(Uninvited \cup {u}) = Cardinality(Uninvited) + 1
      BY MembersFinite, FS_AddElement
    <2> QED
      BY <2>1, MembersFinite
  <1>2. IsFiniteSet(Uninvited') /\ Cardinality(Uninvited') <= Cardinality(Uninvited \cup {u})
    BY <1>1, FS_Subset
  <1>3. Cardinality(Uninvited \cup {u}) \in Nat /\ Cardinality(Uninvited') \in Nat
    BY <1>1, <1>2, FS_CardinalityType
  <1> QED
    BY <1>1, <1>2, <1>3, MembersFinite

LEMMA CheckAdditionStep ==
  ASSUME Inv, NEW t \in Threads, CheckAddition(t)
  PROVE  Inv'
  <1>1. /\ UNCHANGED <<clock, member, invitation, entangled, crowded, invited, spent, admissions, requests>>
        /\ UNCHANGED accounts /\ UNCHANGED <<password, session, late>> /\ UNCHANGED people
        /\ thread[t].op = "add" /\ ~Revoking(t)
    BY DEF CheckAddition, people, marks, accounts, Revoking, At
  <1>2. CASE End(t)
    <2>1. /\ thread' \in [Threads -> ThreadRow] /\ thread'[t].op = "none"
          /\ \A s \in Threads \ {t} : thread'[s] = thread[s]
      BY <1>2, Ends DEF Inv
    <2>2. Types'
      BY <1>1, <2>1 DEF Inv, Types
    <2> QED
      BY <1>1, <2>1, <2>2, AccountsFrame, PeopleFrame DEF Inv, MemberOps
  <1>3. CASE Goto(t, "write") /\ HasRoom
    <2>1. /\ thread' \in [Threads -> ThreadRow] /\ thread'[t].op = "add" /\ thread'[t].phase = "write"
          /\ \A s \in Threads \ {t} : thread'[s] = thread[s]
      BY <1>1, <1>3, GoesOn DEF Inv
    <2>2. Types'
      BY <1>1, <2>1 DEF Inv, Types
    <2>3. OwnerInv'
      BY <1>1, <2>1, OwnerFrame DEF Inv, MemberOps
    <2>4. SpentInv'
      BY <1>1, <2>1, SpentFrame DEF Inv, SpentInv
    <2>5. RoomInv'
      <3> SUFFICES ASSUME ~crowded PROVE RoomInv'
        BY <1>1 DEF RoomInv
      <3>1. Cardinality(Uninvited) <= Cardinality(Members)
        BY MembersFinite, FS_Subset DEF Uninvited
      <3>2. Cardinality(Uninvited) + 1 <= MaxUsers
        BY <1>3, <3>1, MembersFinite DEF HasRoom
      <3>3. Uninvited' = Uninvited
        BY <1>1 DEF Members, Uninvited
      <3>4. \A r, s \in Threads : thread'[r].op = "add" /\ thread'[s].op = "add" => r = s
        BY <1>1, <2>1 DEF Inv, RoomInv
      <3> QED
        BY <1>1, <2>1, <3>2, <3>3, <3>4 DEF Inv, RoomInv, At
    <2> QED
      BY <1>1, <2>1, <2>2, <2>3, <2>4, <2>5, AccountsFrame DEF Inv
  <1> QED
    BY <1>2, <1>3 DEF CheckAddition

LEMMA AddStep ==
  ASSUME Inv, NEW t \in Threads, Add(t)
  PROVE  Inv'
  <1>1. /\ UNCHANGED <<clock, invitation, entangled, crowded, spent, admissions, requests>>
        /\ UNCHANGED accounts /\ UNCHANGED <<password, session, late>>
        /\ At(t, "add", "write") /\ thread[t].op = "add" /\ ~Revoking(t) /\ End(t)
        /\ member' = [member EXCEPT ![thread[t].target] = IF @ = "none" THEN thread[t].to ELSE @]
        /\ invited' = IF member[thread[t].target] = "none" THEN invited \ {thread[t].target} ELSE invited
    BY DEF Add, accounts, Revoking, At
  <1>2. /\ thread' \in [Threads -> ThreadRow] /\ thread'[t].op = "none"
        /\ \A s \in Threads \ {t} : thread'[s] = thread[s]
    BY <1>1, Ends DEF Inv
  <1>3. /\ thread[t].target \in Users /\ thread[t].to \in Roles \cup {"none"}
        /\ member \in [Users -> Roles \cup {"none"}]
    BY DEF Inv, Types, ThreadRow
  <1>4. /\ member' \in [Users -> Roles \cup {"none"}]
        /\ \A u \in Users : member[u] # "none" => member'[u] = member[u]
        /\ \A u \in Users : u # thread[t].target => member'[u] = member[u]
        /\ invited' \subseteq Users /\ invited \subseteq invited' \cup {thread[t].target}
    BY <1>1, <1>3 DEF Inv, Types
  <1>5. Types'
    BY <1>1, <1>2, <1>4 DEF Inv, Types
  <1>6. OwnerInv'
    BY <1>1, <1>2, <1>4, OwnerFrame DEF Inv, MemberOps
  <1>7. RoomInv'
    <2> SUFFICES ASSUME ~crowded PROVE RoomInv'
      BY <1>1 DEF RoomInv
    <2>1. Uninvited' \subseteq Uninvited \cup {thread[t].target}
      BY <1>4 DEF Members, Uninvited
    <2>2. Cardinality(Uninvited) + 1 <= MaxUsers
      BY <1>1 DEF Inv, RoomInv
    <2>3. Cardinality(Uninvited') <= MaxUsers
      BY <1>3, <2>1, <2>2, Joins, MembersFinite
    <2>4. \A s \in Threads : thread'[s].op # "add"
      BY <1>1, <1>2 DEF Inv, RoomInv
    <2> QED
      BY <1>1, <2>3, <2>4 DEF RoomInv, At
  <1>8. SpentInv'
    BY <1>1, <1>2, SpentFrame DEF Inv, SpentInv
  <1> QED
    BY <1>1, <1>2, <1>5, <1>6, <1>7, <1>8, AccountsFrame DEF Inv

\* The row that an invitation is given.
LEMMA InvitationUpdate ==
  ASSUME Types, NEW i \in Invitations, NEW row \in InvitationRow,
         invitation' = [invitation EXCEPT ![i] = row]
  PROVE  /\ invitation' \in [Invitations -> InvitationRow] /\ invitation'[i] = row
         /\ \A j \in Invitations \ {i} : invitation'[j] = invitation[j]
  BY DEF Types

\* One that is given a new status.
LEMMA InvitationRestated ==
  ASSUME Types, NEW i \in Invitations, NEW status \in {"accepted", "revoked", "expired"},
         invitation' = [invitation EXCEPT ![i].status = status]
  PROVE  /\ invitation' \in [Invitations -> InvitationRow] /\ invitation'[i].status = status
         /\ \A j \in Invitations \ {i} : invitation'[j] = invitation[j]
  <1> DEFINE row == [invitation[i] EXCEPT !.status = status]
  <1>1. row \in InvitationRow /\ row.status = status
    BY DEF Types, InvitationRow
  <1>2. invitation' = [invitation EXCEPT ![i] = row]
    BY DEF Types
  <1> HIDE DEF row
  <1> QED
    BY <1>1, <1>2, InvitationUpdate

\* Steps that concern invitations only.
LEMMA InvitationFrame ==
  ASSUME Inv, UNCHANGED <<clock, member, entangled, crowded, invited, admissions, requests>>,
         UNCHANGED accounts, NEW t \in Threads, ~Revoking(t), End(t),
         invitation' \in [Invitations -> InvitationRow], spent' \subseteq Invitations, SpentInv'
  PROVE  Inv'
  <1>1. /\ thread' \in [Threads -> ThreadRow] /\ thread'[t].op = "none"
        /\ \A s \in Threads \ {t} : thread'[s] = thread[s]
    BY Ends DEF Inv
  <1>2. Types'
    BY <1>1 DEF Inv, Types, accounts
  <1>3. OwnerInv'
    BY <1>1, OwnerFrame DEF Inv, MemberOps
  <1>4. RoomInv'
    BY <1>1, RoomFrame DEF Inv, Members, Uninvited
  <1>5. SessionInv'
    BY <1>1, AccountsFrame
  <1> QED
    BY <1>2, <1>3, <1>4, <1>5 DEF Inv

\* What is looked up, and what is not found, leaves members and invitations alone.
LEMMA LookUpStep ==
  ASSUME Inv, NEW t \in Threads, CheckInvitation(t) \/ NoInvitationFound(t)
  PROVE  Inv'
  <1>1. /\ UNCHANGED <<clock, member, invitation, entangled, crowded, invited, spent, admissions, requests>>
        /\ UNCHANGED accounts /\ UNCHANGED <<password, session, late>> /\ UNCHANGED people
        /\ thread[t].op \in {"invite", "resend", "revoke"} /\ ~Revoking(t)
    BY DEF CheckInvitation, NoInvitationFound, people, marks, accounts, Revoking, At
  <1>2. /\ thread' \in [Threads -> ThreadRow] /\ thread'[t].op \in {"none", "invite"}
        /\ \A s \in Threads \ {t} : thread'[s] = thread[s]
    <2>1. CASE End(t)
      BY <2>1, Ends DEF Inv
    <2>2. CASE Goto(t, "write") /\ thread[t].op = "invite"
      BY <2>2, GoesOn DEF Inv
    <2> QED
      BY <2>1, <2>2 DEF CheckInvitation, NoInvitationFound, At
  <1>3. Types'
    BY <1>1, <1>2 DEF Inv, Types
  <1>4. OwnerInv' /\ RoomInv' /\ SpentInv'
    BY <1>1, <1>2, PeopleFrame DEF MemberOps
  <1> QED
    BY <1>1, <1>2, <1>3, <1>4, AccountsFrame DEF Inv

\* A new invitation is inserted into a row that was not spent.
LEMMA InviteStep ==
  ASSUME Inv, NEW t \in Threads, Invite(t)
  PROVE  Inv'
  <1> DEFINE row == [status |-> "pending", user |-> thread[t].target, role |-> thread[t].to,
                     expires |-> clock + 2]
  <1>1. PICK i \in Invitations : /\ invitation[i].status = "none"
                                 /\ invitation' = [invitation EXCEPT ![i] = row]
    BY DEF Invite
  <1>2. /\ UNCHANGED <<clock, member, entangled, crowded, invited, spent, admissions, requests>>
        /\ UNCHANGED accounts /\ ~Revoking(t) /\ End(t)
    BY DEF Invite, marks, Revoking, At
  <1>3. row \in InvitationRow
    BY DEF Inv, Types, ThreadRow, InvitationRow
  <1> HIDE DEF row
  <1>4. /\ invitation' \in [Invitations -> InvitationRow]
        /\ \A j \in Invitations \ {i} : invitation'[j] = invitation[j]
    BY <1>1, <1>3, InvitationUpdate DEF Inv
  <1>5. SpentInv'
    <2>1. \A j \in spent : invitation'[j].status \notin {"none", "pending"}
      BY <1>1, <1>4 DEF Inv, SpentInv, Types
    <2>2. \A s \in Threads : thread'[s] = thread[s] \/ thread'[s].op # "accept"
      BY <1>2, Ends DEF Inv
    <2> QED
      BY <1>2, <2>1, <2>2, SpentFrame DEF Inv
  <1> QED
    BY <1>2, <1>4, <1>5, InvitationFrame DEF Inv, Types

\* More time is given to a pending invitation only.
LEMMA ResendStep ==
  ASSUME Inv, NEW t \in Threads, NEW i \in Invitations, Resend(t, i)
  PROVE  Inv'
  <1> DEFINE row == [invitation[i] EXCEPT !.expires = clock + 2]
  <1>1. /\ UNCHANGED <<clock, member, entangled, crowded, invited, spent, admissions, requests>>
        /\ UNCHANGED accounts /\ ~Revoking(t) /\ End(t) /\ invitation[i].status = "pending"
    BY DEF Resend, Manages, marks, Revoking, At
  <1>2. row \in InvitationRow /\ invitation' = [invitation EXCEPT ![i] = row]
    BY DEF Resend, Inv, Types, InvitationRow
  <1> HIDE DEF row
  <1>3. /\ invitation' \in [Invitations -> InvitationRow]
        /\ \A j \in Invitations \ {i} : invitation'[j] = invitation[j]
    BY <1>2, InvitationUpdate DEF Inv
  <1>4. SpentInv'
    <2>1. \A j \in spent : invitation'[j].status \notin {"none", "pending"}
      BY <1>1, <1>3 DEF Inv, SpentInv, Types
    <2>2. \A s \in Threads : thread'[s] = thread[s] \/ thread'[s].op # "accept"
      BY <1>1, Ends DEF Inv
    <2> QED
      BY <1>1, <2>1, <2>2, SpentFrame DEF Inv
  <1> QED
    BY <1>1, <1>3, <1>4, InvitationFrame DEF Inv, Types

\* An invitation that was revoked while nobody accepts it is never pending again.
LEMMA RevokeStep ==
  ASSUME Inv, NEW t \in Threads, NEW i \in Invitations, Revoke(t, i)
  PROVE  Inv'
  <1>1. /\ UNCHANGED <<clock, member, entangled, crowded, invited, admissions, requests>>
        /\ UNCHANGED accounts /\ ~Revoking(t) /\ End(t)
        /\ invitation' = [invitation EXCEPT ![i].status = "revoked"]
        /\ spent' = IF Accepting(t, i) THEN spent ELSE spent \cup {i}
    BY DEF Revoke, Manages, Revoking, At
  <1>2. /\ invitation' \in [Invitations -> InvitationRow] /\ invitation'[i].status = "revoked"
        /\ \A j \in Invitations \ {i} : invitation'[j] = invitation[j]
    BY <1>1, InvitationRestated DEF Inv
  <1>3. /\ thread'[t].op = "none" /\ \A s \in Threads \ {t} : thread'[s] = thread[s]
    BY <1>1, Ends DEF Inv
  <1>4. spent' \subseteq Invitations /\ spent \subseteq Invitations
    BY <1>1 DEF Inv, Types
  <1>5. SpentInv'
    <2>1. \A s \in Threads : thread'[s].op = "accept" => thread'[s].inv \in Invitations
      BY <1>3 DEF Inv, SpentInv
    <2>2. ASSUME NEW j \in spent' PROVE invitation'[j].status \notin {"none", "pending"}
      BY <1>1, <1>2, <1>4 DEF Inv, SpentInv
    <2>3. ASSUME NEW j \in spent', NEW s \in Threads, thread'[s].op = "accept",
                 thread'[s].phase = "write", thread'[s].inv = j
          PROVE  FALSE
      <3>1. s # t /\ At(s, "accept", "write") /\ thread[s].inv = j
        BY <1>3, <2>3 DEF At
      <3> QED
        BY <1>1, <3>1 DEF Accepting, Inv, SpentInv
    <2> QED
      BY <2>1, <2>2, <2>3 DEF SpentInv, At
  <1> QED
    BY <1>1, <1>2, <1>4, <1>5, InvitationFrame

\* An acceptance begins while its invitation is pending.
LEMMA AcceptStep ==
  ASSUME Inv, NEW t \in Threads, NEW i \in Invitations, Accept(t, i)
  PROVE  Inv'
  <1>1. /\ UNCHANGED <<clock, member, entangled, crowded, invited, spent, admissions, requests>>
        /\ UNCHANGED accounts /\ UNCHANGED <<password, session, late>>
        /\ thread[t] = Idle /\ ~Revoking(t)
    BY DEF Accept, marks, accounts, Revoking, At, Idle
  <1> DEFINE row == [Idle EXCEPT !.op = "accept", !.phase = "write", !.inv = i]
  <1>2. row \in ThreadRow /\ row.op = "accept" /\ row.inv = i
    BY UserAssumption DEF Idle, ThreadRow, Ops, Roles
  <1>3. \/ thread' = thread /\ invitation' = invitation
        \/ thread' = thread /\ invitation' = [invitation EXCEPT ![i].status = "expired"]
        \/ Open(i) /\ thread' = [thread EXCEPT ![t] = row] /\ invitation' = invitation
    BY DEF Accept
  <1> HIDE DEF row
  <1>4. /\ thread' \in [Threads -> ThreadRow] /\ \A s \in Threads \ {t} : thread'[s] = thread[s]
        /\ thread' = thread \/ (Open(i) /\ thread'[t] = row /\ invitation' = invitation)
    BY <1>2, <1>3, ThreadUpdate DEF Inv, Types
  <1>5. /\ invitation' \in [Invitations -> InvitationRow]
        /\ \A j \in Invitations : invitation'[j] = invitation[j] \/ invitation'[j].status = "expired"
    <2>1. CASE invitation' = invitation
      BY <2>1 DEF Inv, Types
    <2>2. CASE invitation' = [invitation EXCEPT ![i].status = "expired"]
      BY <2>2, InvitationRestated DEF Inv
    <2> QED
      BY <1>3, <2>1, <2>2
  <1>6. Types'
    BY <1>1, <1>4, <1>5 DEF Inv, Types
  <1>7. \A s \in Threads : thread'[s] = thread[s] \/ thread'[s].op \notin MemberOps \cup {"add"}
    BY <1>2, <1>4 DEF MemberOps
  <1>8. OwnerInv'
    BY <1>1, <1>7, OwnerFrame DEF Inv
  <1>9. RoomInv'
    BY <1>1, <1>7, RoomFrame DEF Inv, Members, Uninvited
  <1>10. SpentInv'
    <2>1. \A j \in spent : invitation'[j].status \notin {"none", "pending"}
      BY <1>5 DEF Inv, Types, SpentInv
    <2>2. CASE thread' = thread
      BY <1>1, <2>1, <2>2, SpentFrame DEF Inv
    <2>3. CASE Open(i) /\ thread'[t] = row
      <3>1. i \notin spent
        BY <2>3 DEF Open, Inv, SpentInv
      <3> QED
        BY <1>1, <1>2, <1>4, <2>1, <2>3, <3>1 DEF Inv, SpentInv, At
    <2> QED
      BY <1>4, <2>2, <2>3
  <1> QED
    BY <1>1, <1>4, <1>6, <1>8, <1>9, <1>10, AccountsFrame DEF Inv

\* Whoever was invited is let in without asking for room.
LEMMA AdmitStep ==
  ASSUME Inv, NEW t \in Threads, Admit(t)
  PROVE  Inv'
  <1> DEFINE i == thread[t].inv
             u == invitation[i].user
  <1>1. /\ UNCHANGED <<clock, entangled, crowded, requests>>
        /\ UNCHANGED accounts /\ UNCHANGED <<password, session, late>>
        /\ At(t, "accept", "write") /\ ~Revoking(t) /\ End(t)
        /\ invitation' = [invitation EXCEPT ![i].status = "accepted"]
        /\ spent' = IF Accepting(t, i) THEN spent ELSE spent \cup {i}
        /\ member' = [member EXCEPT ![u] = IF @ = "none" THEN invitation[i].role ELSE @]
        /\ invited' = IF member[u] = "none" THEN invited \cup {u} ELSE invited
        /\ admissions' = [admissions EXCEPT ![i] = IF member[u] = "none" THEN @ + 1 ELSE @]
    BY DEF Admit, accounts, Revoking, At
  <1>2. /\ thread' \in [Threads -> ThreadRow] /\ thread'[t].op = "none"
        /\ \A s \in Threads \ {t} : thread'[s] = thread[s]
    BY <1>1, Ends DEF Inv
  <1>3. i \in Invitations /\ i \notin spent
    BY <1>1 DEF Inv, SpentInv, At
  <1>4. u \in Users /\ invitation[i].role \in Roles \cup {"none"}
    BY <1>3 DEF Inv, Types, InvitationRow
  <1> HIDE DEF u
  <1>5. /\ member' \in [Users -> Roles \cup {"none"}]
        /\ \A v \in Users : member[v] # "none" => member'[v] = member[v]
        /\ \A v \in Users : v # u => member'[v] = member[v]
    BY <1>1, <1>4 DEF Inv, Types
  <1>6. admissions' \in [Invitations -> Nat] /\ invited' \subseteq Users
    BY <1>1, <1>3, <1>4 DEF Inv, Types
  <1>7. /\ invitation' \in [Invitations -> InvitationRow] /\ invitation'[i].status = "accepted"
        /\ \A j \in Invitations \ {i} : invitation'[j] = invitation[j]
    BY <1>1, <1>3, InvitationRestated DEF Inv
  <1>8. spent' \subseteq Invitations /\ spent \subseteq Invitations
    BY <1>1, <1>3 DEF Inv, Types
  <1> HIDE DEF i
  <1>9. Types'
    BY <1>1, <1>2, <1>5, <1>6, <1>7, <1>8 DEF Inv, Types
  <1>10. OwnerInv'
    BY <1>1, <1>2, <1>5, OwnerFrame DEF Inv, MemberOps
  <1>11. RoomInv'
    <2>1. Uninvited' \subseteq Uninvited
      BY <1>1, <1>5 DEF Members, Uninvited
    <2> QED
      BY <1>1, <1>2, <2>1, RoomFrame DEF Inv
  <1>12. SpentInv'
    <2>1. \A s \in Threads : thread'[s].op = "accept" => thread'[s].inv \in Invitations
      BY <1>2 DEF Inv, SpentInv
    <2>2. ASSUME NEW j \in spent' PROVE invitation'[j].status \notin {"none", "pending"}
      BY <1>1, <1>7, <1>8 DEF Inv, SpentInv
    <2>3. ASSUME NEW j \in spent', NEW s \in Threads, thread'[s].op = "accept",
                 thread'[s].phase = "write", thread'[s].inv = j
          PROVE  FALSE
      <3>1. s # t /\ At(s, "accept", "write") /\ thread[s].inv = j
        BY <1>2, <2>3 DEF At
      <3> QED
        BY <1>1, <3>1 DEF Accepting, Inv, SpentInv
    <2> QED
      BY <2>1, <2>2, <2>3 DEF SpentInv, At
  <1> QED
    BY <1>1, <1>2, <1>9, <1>10, <1>11, <1>12, AccountsFrame DEF Inv

\* What a crash leaves undone: the sessions that a password change has not ended.
LEMMA CrashStep ==
  ASSUME Inv, NEW t \in Threads, Crash(t)
  PROVE  Inv'
  <1>1. /\ UNCHANGED <<clock, password, member, invitation, entangled, crowded, invited, spent,
                       admissions, requests>>
        /\ UNCHANGED people /\ End(t)
    BY DEF Crash, people, marks
  <1>2. /\ thread' \in [Threads -> ThreadRow] /\ thread'[t].op = "none"
        /\ \A s \in Threads \ {t} : thread'[s] = thread[s]
    BY <1>1, Ends DEF Inv
  <1>3. OwnerInv' /\ RoomInv' /\ SpentInv'
    BY <1>1, <1>2, PeopleFrame DEF MemberOps
  <1>4. CASE ~Revoking(t)
    <2>1. UNCHANGED <<session, late>>
      BY <1>4 DEF Crash, Revoking
    <2>2. SessionInv'
      BY <1>1, <1>2, <1>4, <2>1, SessionFrame DEF Inv
    <2>3. Types'
      BY <1>1, <1>2, <2>1 DEF Inv, Types
    <2> QED
      BY <1>3, <2>2, <2>3 DEF Inv
  <1>5. CASE Revoking(t)
    <2> DEFINE mine == {k \in Tokens : session[k].user = thread[t].user /\ ~session[k].revoked}
    <2>1. PICK ended \in SUBSET mine :
            /\ session' = [k \in Tokens |-> IF k \in ended THEN [session[k] EXCEPT !.revoked = TRUE]
                                            ELSE session[k]]
            /\ late' = late \cup (mine \ ended)
      BY <1>5 DEF Crash, Revoking
    <2>2. ended \in SUBSET Tokens /\ late \subseteq late' /\ late' \subseteq Tokens
      BY <2>1 DEF Inv, Types
    <2>3. ASSUME NEW k \in Tokens, session[k].user = thread[t].user
          PROVE  session'[k].revoked \/ k \in late'
      <3>1. session[k] \in SessionRow
        BY DEF Inv, Types
      <3> QED
        BY <2>1, <2>3, <3>1 DEF SessionRow
    <2> HIDE DEF mine
    <2>4. session' \in [Tokens -> SessionRow] /\ SessionInv'
      BY <1>1, <1>2, <2>1, <2>2, <2>3, RevokeKeeps DEF Inv
    <2>5. Types'
      BY <1>1, <1>2, <2>2, <2>4 DEF Inv, Types
    <2> QED
      BY <1>3, <2>4, <2>5 DEF Inv
  <1> QED
    BY <1>4, <1>5

-----------------------------------------------------------------------------
(* Every step, and the theorems.                                           *)

LEMMA InvStep == Inv /\ [Next]_vars => Inv'
  <1> SUFFICES ASSUME Inv, [Next]_vars PROVE Inv'
    OBVIOUS
  <1>1. ASSUME NEW t \in Threads, Step(t) PROVE Inv'
    BY <1>1, PasswordStep, EndSessionsStep, CheckChangeStep, WriteChangeStep, CheckAdditionStep,
       AddStep, LookUpStep, InviteStep, ResendStep, RevokeStep, AcceptStep, AdmitStep, CrashStep
       DEF Step
  <1>2. ASSUME NEW t \in Threads, NEW u \in Users, NEW k \in Tokens \cup {NoToken}, Login(t, u, k)
        PROVE  Inv'
    BY <1>2, LoginStep
  <1>3. ASSUME NEW t \in Threads, NEW k \in Tokens, OpenSession(t, k) \/ Rotate(t, k) PROVE Inv'
    BY <1>3, InsertStep
  <1>4. ASSUME NEW t \in Threads, NEW k \in Tokens,
               \/ \E op \in {"password", "revoke", "resend", "rotate", "end", "others"} :
                    Begin(t, k, op, Newcomer, "none")
               \/ \E u \in Users, role \in Offered, op \in {"update", "add", "invite"} :
                    Begin(t, k, op, u, role)
               \/ \E u \in Users, op \in {"remove", "transfer"} : Begin(t, k, op, u, "none")
        PROVE  Inv'
    <2>1. PICK op \in Ops \ {"accept"}, u \in Users, role \in Roles \cup {"none"} :
            Begin(t, k, op, u, role)
      BY <1>4, UserAssumption, OfferAssumption DEF Ops, MemberOps
    <2> QED
      BY <2>1, BeginStep
  <1>5. ASSUME NEW k \in Tokens, Logout(k) PROVE Inv'
    BY <1>5, LogoutStep
  <1>6. CASE Tick
    BY <1>6, TickStep
  <1>7. CASE UNCHANGED vars
    <2>1. Types'
      BY <1>7 DEF vars, Inv, Types
    <2>2. SessionInv'
      BY <1>7, SessionFrame DEF vars, Inv
    <2>3. OwnerInv' /\ RoomInv' /\ SpentInv'
      BY <1>7, PeopleFrame DEF vars, people, marks
    <2> QED
      BY <2>1, <2>2, <2>3 DEF Inv
  <1> QED
    BY <1>1, <1>2, <1>3, <1>4, <1>5, <1>6, <1>7 DEF Next

LEMMA InvHolds == Spec => []Inv
  BY InvInit, InvStep, PTL DEF Spec

\* No session outlives the password it was opened with, unless it was inserted too late,
\* and none ends before its idle time is over, although not every use of it is written.
THEOREM SessionsLiveAsTheyShould == Spec => []SessionsLive
  <1>1. Inv => SessionsLive
    <2> SUFFICES ASSUME Inv PROVE SessionsLive
      OBVIOUS
    <2>1. TypeOK
      BY DEF Inv, Types, TypeOK, SessionRow, InvitationRow, ThreadRow
    <2>2. ActiveSessionLives
      <3> SUFFICES ASSUME NEW k \in Tokens, ~session[k].revoked, session[k].expires > clock,
                          clock - session[k].used <= IdleTimeout - TouchInterval
                   PROVE  Valid(k)
        BY DEF ActiveSessionLives
      <3>1. session[k] \in SessionRow /\ clock \in Nat /\ session[k].used < session[k].seen + TouchInterval
        BY DEF Inv, Types, SessionInv, SessionOK
      <3>2. session[k].seen > clock - IdleTimeout
        BY <3>1, TimeAssumption DEF SessionRow
      <3> QED
        BY <3>2 DEF Valid
    <2> QED
      BY <2>1, <2>2 DEF Inv, SessionInv, SessionsLive
  <1> QED
    BY <1>1, InvHolds, PTL

\* A tenant keeps an owner and adds no more members than its plan allows, whoever else
\* was invited, as long as changes of members, or additions, do not overlap.
THEOREM MembershipAlwaysHolds == Spec => []MembershipHolds
  <1>1. Inv => MembershipHolds
    BY DEF Inv, OwnerInv, RoomInv, Uninvited, OwnerRemains, MembersBounded, MembershipHolds
  <1> QED
    BY <1>1, InvHolds, PTL

\* A request that is about to change a member ends by changing it, or dies.
LEMMA WhoChanges ==
  ASSUME Inv, [Next]_vars, NEW t \in Threads, thread[t].phase = "write", thread[t].op \in MemberOps,
         thread'[t] = Idle
  PROVE  WriteChange(t) \/ Crash(t)
  <1>1. thread[t] # Idle /\ thread' # thread /\ thread[t].op \notin {"none", "login", "rotate", "password", "end",
           "others", "add", "invite", "resend", "revoke", "accept"}
    BY DEF Idle, MemberOps
  <1>2. ASSUME NEW s \in Threads, s # t,
               \/ Step(s) \/ (\E u \in Users, k \in Tokens \cup {NoToken} : Login(s, u, k))
               \/ \E k \in Tokens : OpenSession(s, k) \/ Rotate(s, k)
        PROVE  FALSE
    <2>1. thread'[t] = thread[t]
      BY <1>2 DEF Step, ChangePassword, EndSessions, NoSuchSession, Resend, Manages, CheckChange, WriteChange,
         CheckAddition, Add, CheckInvitation, Invite, NoInvitationFound, Revoke, Accept, Admit, Crash, Login, OpenSession, Rotate, End, Goto,
         Inv, Types
    <2> QED
      BY <1>1, <2>1
  <1>3. ASSUME NEW s \in Threads, NEW k \in Tokens, NEW op, NEW u, NEW role, Begin(s, k, op, u, role)
        PROVE  FALSE
    <2>1. s # t
      BY <1>1, <1>3 DEF Begin
    <2>2. thread'[t] = thread[t]
      BY <1>3, <2>1 DEF Begin, Inv, Types
    <2> QED
      BY <1>1, <2>2
  <1>4. \/ Step(t) \/ (\E u \in Users, k \in Tokens \cup {NoToken} : Login(t, u, k))
        \/ \E k \in Tokens : OpenSession(t, k) \/ Rotate(t, k)
    BY <1>1, <1>2, <1>3 DEF Next, Logout, Tick, vars
  <1>5. Step(t)
    BY <1>1, <1>4 DEF Login, OpenSession, Rotate, At
  <1> QED
    BY <1>1, <1>5 DEF Step, ChangePassword, EndSessions, NoSuchSession, Resend, Manages, CheckChange,
       CheckAddition, Add, CheckInvitation, Invite, NoInvitationFound, Revoke, Accept, Admit, At

\* No admin makes or unmakes an owner or an admin, and an invitation that was accepted or
\* revoked lets nobody in any more.
THEOREM OnlyTheEntitledChange == Spec => EntitledChanges
  <1>1. Inv /\ [Next]_vars => [AdminsStayApart /\ InvitationIsSpent]_vars
    <2> SUFFICES ASSUME Inv, [Next]_vars PROVE AdminsStayApart /\ InvitationIsSpent
      OBVIOUS
    <2>1. AdminsStayApart
      <3> SUFFICES ASSUME NEW t \in Threads, thread[t].phase = "write", thread[t].op \in MemberOps,
                          thread[t].role = "admin", thread'[t] = Idle, ~entangled
                   PROVE  \A u \in Users : member'[u] # member[u] =>
                            {member[u], member'[u]} \cap {"owner", "admin"} = {}
        BY DEF AdminsStayApart
      <3>1. WriteChange(t) \/ Crash(t)
        BY WhoChanges
      <3>2. CASE Crash(t)
        BY <3>2 DEF Crash, people
      <3>3. CASE WriteChange(t)
        BY <3>3, ChangeWritten
      <3> QED
        BY <3>1, <3>2, <3>3
    <2>2. InvitationIsSpent
      <3> SUFFICES ASSUME NEW i \in spent, admissions'[i] # admissions[i] PROVE FALSE
        BY DEF InvitationIsSpent
      <3>1. PICK t \in Threads : Admit(t)
        <4>1. ASSUME NEW t \in Threads, Step(t) PROVE Admit(t)
          BY <4>1 DEF Step, ChangePassword, EndSessions, NoSuchSession, Resend, CheckChange,
             WriteChange, CheckAddition, Add, CheckInvitation, Invite, NoInvitationFound, Revoke,
             Accept, Crash, people, marks
        <4>2. ASSUME NEW t \in Threads, NEW k, NEW u,
                     Login(t, u, k) \/ OpenSession(t, k) \/ Rotate(t, k)
              PROVE  FALSE
          BY <4>2 DEF Login, OpenSession, Rotate, people, marks
        <4>3. ASSUME NEW t, NEW k, NEW op, NEW u, NEW role, Begin(t, k, op, u, role) PROVE FALSE
          BY <4>3 DEF Begin
        <4>4. ASSUME NEW k \in Tokens, Logout(k) PROVE FALSE
          BY <4>4 DEF Logout, people, marks
        <4>5. ~Tick /\ ~UNCHANGED vars
          BY DEF Tick, people, marks, vars
        <4>6. Next
          BY <4>5
        <4> QED
          BY <4>1, <4>2, <4>3, <4>4, <4>5, <4>6 DEF Next
      <3>2. thread[t].inv \in Invitations /\ thread[t].inv # i /\ i \in Invitations
        BY <3>1 DEF Admit, At, Inv, SpentInv, Types
      <3> QED
        BY <3>1, <3>2 DEF Admit, Inv, Types
    <2> QED  BY <2>1, <2>2
  <1> QED
    BY <1>1, InvHolds, PTL DEF Spec, EntitledChanges

=============================================================================
