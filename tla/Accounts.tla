------------------------------ MODULE Accounts ------------------------------
(***************************************************************************)
(* The people of one factory: accounts, the super-admin role, web and pad  *)
(* sessions (service/auth.go, org.go, node_device.go; store/account.go,    *)
(* org.go).  Every request checks its session and role first and writes    *)
(* later; between the two, other requests run.  Disabling an account and   *)
(* taking the role away re-count the super admins under one lock.          *)
(* Passwords are left out: a login that names an account that is not       *)
(* disabled may succeed.                                                   *)
(***************************************************************************)
EXTENDS Naturals, FiniteSets

CONSTANTS People,
          Requests,     \* requests that may run at once
          MaxRequests,  \* bound: requests of super admins
          MaxSessions   \* bound: sessions opened

ASSUME AccountsAssumption == IsFiniteSet(People)

VARIABLES person,       \* people: status; role_grants: the active super-admin grant
          sessions,     \* sessions
          request,      \* per request: what it does and what it has read
          requests, opened

avars == <<person, sessions, request, requests, opened>>

NoRequest == [op |-> "none"]
Statuses == {"absent", "active", "disabled"}

Active(p) == person[p].status = "active"
SuperAdmins == {p \in People : Active(p) /\ person[p].grant > 0}
PadSessions(p) == {s \in sessions : s.who = p /\ s.kind = "pad"}

\* A factory of some age: one super admin at least, sessions of active people.
AccountsInit ==
    /\ person \in [People -> [status : Statuses, grant : {0, 1}]]
    /\ \A p \in People : person[p].status = "absent" => person[p].grant = 0
    /\ SuperAdmins # {}
    /\ sessions = {[n |-> 0, who |-> p, kind |-> "web"] : p \in SuperAdmins}
    /\ request = [r \in Requests |-> NoRequest]
    /\ requests = 0 /\ opened = 0

\* RequireActive and can(permManageAccount).
RequireActive(p) == Active(p) /\ \E s \in sessions : s.who = p
CanManage(p) == RequireActive(p) /\ person[p].grant > 0

Begin(r, req) ==
    /\ request[r] = NoRequest
    /\ request' = [request EXCEPT ![r] = req]
    /\ UNCHANGED <<person, sessions>>
Manage(r, req) ==
    /\ requests < MaxRequests /\ requests' = requests + 1
    /\ \E p \in People : CanManage(p) /\ (req.op = "reset" => p # req.to)
    /\ Begin(r, req)
    /\ UNCHANGED opened
End(r) == request' = [request EXCEPT ![r] = NoRequest] /\ UNCHANGED <<requests, opened>>
SetStatus(p, st) == person' = [person EXCEPT ![p].status = st]
DropSessions(p) == sessions' = {s \in sessions : s.who # p}

\* The quick look before the lock is taken.
GuardLastAdmin(p) == p \in SuperAdmins => Cardinality(SuperAdmins) > 1

\* A plausible slip: the count is not taken again under the lock.
TrustGuard(p) == TRUE

\* keepLastAdmin, under the lock: the last entry stays.
KeepLastAdmin(p) == p \in SuperAdmins => Cardinality(SuperAdmins) > 1

-----------------------------------------------------------------------------
\* DisableAccount: the guard, then DisablePersonKeepAdmin in a transaction.
DisableAccount(r, p) ==
    /\ person[p].status # "absent" /\ GuardLastAdmin(p)
    /\ Manage(r, [op |-> "disable", to |-> p])
DisablePersonKeepAdmin(r) ==
    /\ request[r].op = "disable"
    /\ LET p == request[r].to IN
        IF KeepLastAdmin(p) THEN SetStatus(p, "disabled") /\ DropSessions(p)
        ELSE UNCHANGED <<person, sessions>>
    /\ End(r)

\* RevokeRole: the grant is read, guarded, and taken away if still there.
RevokeRole(r, p) ==
    /\ person[p].grant > 0 /\ GuardLastAdmin(p)
    /\ Manage(r, [op |-> "revoke", to |-> p, grant |-> person[p].grant])
RevokeRoleKeepAdmin(r) ==
    /\ request[r].op = "revoke"
    /\ LET p == request[r].to IN
        IF person[p].grant = request[r].grant /\ KeepLastAdmin(p)
        THEN person' = [person EXCEPT ![p].grant = 0] ELSE UNCHANGED person
    /\ UNCHANGED sessions
    /\ End(r)

\* GrantRole: a new grant, unless one is active.
GrantRole(r, p) ==
    /\ person[p].status # "absent"
    /\ Manage(r, [op |-> "grant", to |-> p, grant |-> requests + 2])
InsertGrant(r) ==
    /\ request[r].op = "grant"
    /\ LET p == request[r].to IN
        person' = IF person[p].grant > 0 THEN person
                  ELSE [person EXCEPT ![p].grant = request[r].grant]
    /\ UNCHANGED sessions
    /\ End(r)

\* CreatePerson: active at once, with the default password.
CreatePerson(r, p) == Manage(r, [op |-> "create", to |-> p])
InsertPerson(r) ==
    /\ request[r].op = "create"
    /\ LET p == request[r].to IN
        IF person[p].status = "absent" THEN SetStatus(p, "active") ELSE UNCHANGED person
    /\ UNCHANGED sessions
    /\ End(r)

\* EnableAccount: nothing to do unless it reads "disabled".
EnableAccount(r, p) ==
    /\ person[p].status = "disabled"
    /\ Manage(r, [op |-> "enable", to |-> p])
SetPersonStatus(r) ==
    /\ request[r].op = "enable"
    /\ SetStatus(request[r].to, "active")
    /\ UNCHANGED sessions
    /\ End(r)

\* ResetPassword of somebody else: the status read is written back with the
\* new password; the sessions go in a statement of their own.
ResetPassword(r, p) ==
    /\ person[p].status # "absent"
    /\ Manage(r, [op |-> "reset", to |-> p, status |-> person[p].status])
ApplyPersonPassword(r) ==
    /\ request[r].op = "reset"
    /\ SetStatus(request[r].to, request[r].status)
    /\ request' = [request EXCEPT ![r] = [op |-> "clear", to |-> @.to]]
    /\ UNCHANGED <<sessions, requests, opened>>
DeleteSessionsForPerson(r) ==
    /\ request[r].op = "clear"
    /\ DropSessions(request[r].to)
    /\ UNCHANGED person
    /\ End(r)

-----------------------------------------------------------------------------
\* Login, LoginPad: the account is looked at; the session's time is taken
\* before it is stored.
Login(r, p, kind) ==
    /\ Active(p) /\ opened < MaxSessions
    /\ Begin(r, [op |-> "login", session |-> [n |-> opened + 1, who |-> p, kind |-> kind]])
    /\ opened' = opened + 1
    /\ UNCHANGED requests
CreateSession(r) ==
    /\ request[r].op = "login"
    /\ sessions' = sessions \cup {request[r].session}
    /\ request' = [request EXCEPT ![r].op = "opened"]
    /\ UNCHANGED <<person, requests, opened>>

\* A plausible slip: every other pad session goes.
Others(s) == PadSessions(s.who) \ {s}

\* Earlier pad sessions of this person, none if this one is gone already.
Earlier(s) == IF s \in sessions THEN {o \in PadSessions(s.who) : o.n < s.n} ELSE {}

\* The end of a login: a pad's drops the earlier ones; a web login only audits.
LoginEnds(r) ==
    /\ request[r].op = "opened"
    /\ sessions' = IF request[r].session.kind = "pad"
                   THEN sessions \ Earlier(request[r].session) ELSE sessions
    /\ UNCHANGED person
    /\ End(r)

\* A read, the audit or the deletion fails: the new session goes.
LoginFails(r) ==
    /\ request[r].op = "opened"
    /\ sessions' = sessions \ {request[r].session}
    /\ UNCHANGED person
    /\ End(r)

\* ChangePassword: a valid session, then all the others of this person go.
ChangePassword(r, s) ==
    /\ RequireActive(s.who)
    /\ Begin(r, [op |-> "change", session |-> s])
    /\ UNCHANGED <<requests, opened>>
ReplacePasswordKeepSession(r) ==
    /\ request[r].op = "change"
    /\ sessions' = {s \in sessions : s.who # request[r].session.who} \cup
                   (sessions \cap {request[r].session})
    /\ UNCHANGED person
    /\ End(r)

\* Logout, or a session runs out.
SessionEnds(s) ==
    /\ sessions' = sessions \ {s}
    /\ UNCHANGED <<person, request, requests, opened>>

AccountsNext ==
    \/ \E r \in Requests, p \in People :
        \/ DisableAccount(r, p) \/ RevokeRole(r, p) \/ GrantRole(r, p)
        \/ CreatePerson(r, p) \/ EnableAccount(r, p) \/ ResetPassword(r, p)
        \/ \E kind \in {"web", "pad"} : Login(r, p, kind)
    \/ \E r \in Requests :
        \/ DisablePersonKeepAdmin(r) \/ RevokeRoleKeepAdmin(r) \/ InsertGrant(r)
        \/ InsertPerson(r) \/ SetPersonStatus(r) \/ ApplyPersonPassword(r)
        \/ DeleteSessionsForPerson(r) \/ CreateSession(r) \/ LoginEnds(r)
        \/ LoginFails(r) \/ ReplacePasswordKeepSession(r)
        \/ \E s \in sessions : ChangePassword(r, s)
    \/ \E s \in sessions : SessionEnds(s)

AccountsSpec == AccountsInit /\ [][AccountsNext]_avars

-----------------------------------------------------------------------------
\* The last super admin's account and role go only when a password reset
\* writes back a status it read before: two super admins who disable each
\* other, or take each other's role, never both succeed
\* (DisablePersonKeepAdmin, RevokeRoleKeepAdmin).
AdminsKept ==
    [][SuperAdmins # {} /\ SuperAdmins' = {}
        => \E r \in Requests : request[r].op = "reset" /\ request[r].status = "disabled"
                               /\ request'[r].op = "clear"]_avars

\* The end of one pad login never drops the newest pad session of a person:
\* of two logins at once the later one stays (DeleteOtherAppSessions).
NewestPadStays ==
    [][\A r \in Requests : LoginEnds(r) =>
        \A s \in sessions : s.kind = "pad" /\ (\A o \in PadSessions(s.who) : o.n <= s.n)
            => s \in sessions']_avars

\* Claims of documents that do not hold: a super admin remains; an account
\* that was disabled has no session; one pad session per person is left.
AdminRemains == SuperAdmins # {}
DisabledHasNoSession == \A s \in sessions : person[s.who].status # "disabled"
OnePadSession ==
    (\A r \in Requests : request[r].op \notin {"login", "opened"})
        => \A p \in People : Cardinality(PadSessions(p)) <= 1
=============================================================================
