--------------------------- MODULE TenantAccessProps ---------------------------
(* What sessions, roles and invitations of a tenant promise. *)
EXTENDS TenantAccess

\* After a password was changed no session opened with the old one is left, except
\* by a login or a switch of tenants that had read the old one and inserts its session
\* later, and by a change that died between its two writes.
PasswordChangeEndsSessions ==
  \A k \in Tokens \ late :
    ~session[k].revoked =>
      \/ session[k].version = password[session[k].user]
      \/ \E t \in Threads : At(t, "password", "sessions") /\ thread[t].user = session[k].user

\* A session that is used often enough lives until it expires, although its last
\* use is not always written: the two intervals work together.
ActiveSessionLives ==
  \A k \in Tokens :
    /\ ~session[k].revoked /\ session[k].expires > clock
    /\ clock - session[k].used <= IdleTimeout - TouchInterval
    => Valid(k)

\* A session lives as long as it should: not beyond the password it was opened with,
\* and not shorter than its use and its expiry allow.
SessionsLive == TypeOK /\ PasswordChangeEndsSessions /\ ActiveSessionLives

\* A tenant always has an owner, through removals, changes of role and transfers,
\* as long as no two of them overlap.
OwnerRemains == entangled \/ \E u \in Users : member[u] = "owner"

\* No request of an admin makes or unmakes an owner or an admin, although its role
\* was read before the rows it changes (as long as no two changes overlap).
AdminsStayApart ==
  \A t \in Threads :
    thread[t].phase = "write" /\ thread[t].op \in MemberOps /\ thread[t].role = "admin"
      /\ thread'[t] = Idle /\ ~entangled
    => \A u \in Users : member'[u] # member[u] =>
         {member[u], member'[u]} \cap {"owner", "admin"} = {}

\* An invitation that was accepted or revoked admits nobody any more, not even the
\* member who was removed in the meantime.
InvitationIsSpent == \A i \in spent : admissions'[i] = admissions[i]

\* Who becomes or stops being a member, and with which role, is decided by who was
\* entitled to: an admin below their own rank, an invitation once.
EntitledChanges == [][AdminsStayApart /\ InvitationIsSpent]_vars

\* A tenant adds no more members than its plan allows (unless additions overlap), though
\* acceptances come between the count and the insert.  Those who were invited come on
\* top, any number of them: acceptance asks for no quota, and pending ones do not count.
MembersBounded == crowded \/ Cardinality(Members \ invited) <= MaxUsers

\* The members of a tenant stay what its plan and its owners need them to be,
\* although counts are taken before the rows change.
MembershipHolds == OwnerRemains /\ MembersBounded

=============================================================================
