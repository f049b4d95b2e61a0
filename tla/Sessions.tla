------------------------------- MODULE Sessions -------------------------------
(***************************************************************************)
(* Signing in, authenticated requests, refreshing, logging out, deleting   *)
(* the account, and the administrator's account that every start of the    *)
(* server puts in place.                                                   *)
(*                                                                         *)
(* A token names an e-mail address and a cookie names a session: a client  *)
(* that has used two accounts can send the token of one with the cookie    *)
(* of the other, and an address can pass to a new account while its old    *)
(* tokens last.  Authentication reads the account and then the session;    *)
(* the handler, and the middleware that logs the request, run later.       *)
(***************************************************************************)
EXTENDS Integers, FiniteSets

CONSTANTS
    Emails,      \* e-mail addresses
    Users,       \* primary keys of users (bound: accounts ever made)
    Sessions,    \* primary keys of refresh_sessions (bound: sign-ins ever)
    Requests,    \* requests in flight at once
    None,        \* NULL; no row yet
    Gone         \* a deleted row: its key does not come back

Account == [email : Emails, admin : BOOLEAN]

RefreshSession == [user_id : Users, expired : BOOLEAN]

ASSUME ConstantsAssumption ==
    /\ None \notin Account /\ Gone \notin Account
    /\ None \notin RefreshSession /\ Gone \notin RefreshSession
    /\ None \notin Emails \cup Users \cup Sessions
    /\ None # Gone

VARIABLES
    users,       \* Users -> Account, None or Gone
    sessions,    \* Sessions -> RefreshSession, None or Gone
    access,      \* the addresses for which an unexpired access token is about
    tied,        \* accounts with activity logs, bookings or the like
    req,         \* Requests -> the request in flight
    server,      \* "seeding" and "cleared" are initialize_admin's two commits
    superAdmin   \* SUPER_ADMIN_EMAIL_ADDRESS of this start

vars == <<users, sessions, access, tied, req, server, superAdmin>>

Endpoints == {"any", "logout", "delete-account"}

Request == [pc : {"idle", "signin", "auth", "handle", "leave", "erase", "log",
                  "renew", "discard"},
            endpoint : Endpoints \cup {None},
            user : Users \cup {None},
            session : Sessions \cup {None},
            late : BOOLEAN,      \* history: its session was deleted before it came
            owing : BOOLEAN]     \* history: its account had rows when looked at

TypeOK ==
    /\ users \in [Users -> Account \cup {None, Gone}]
    /\ sessions \in [Sessions -> RefreshSession \cup {None, Gone}]
    /\ access \subseteq Emails
    /\ tied \subseteq Users
    /\ req \in [Requests -> Request]
    /\ server \in {"seeding", "cleared", "up"}
    /\ superAdmin \in Emails

-----------------------------------------------------------------------------
Exists(u) == users[u] \notin {None, Gone}

Open(s) == sessions[s] \notin {None, Gone}

\* Mutant: the session is looked up by its key alone
ByKeyOnly(u, s) == Open(s) /\ ~sessions[s].expired

\* Mutant: logging out sets is_revoked, which nothing reads
IgnoreRevoked(u, s) ==
    IF sessions[s] = Gone THEN TRUE
    ELSE sessions[s].user_id = u /\ ~sessions[s].expired

\* The row that decode_user_from_token and handle_refresh look for.  verify_token
\* adds nothing: bcrypt reads 72 bytes, and the tokens of one account agree in these
\* (the JWT header and the beginning of "sub"), so that a refreshed token verifies
\* against the hash stored at sign-in.
Valid(u, s) == Open(s) /\ sessions[s].user_id = u /\ ~sessions[s].expired

Idle == [pc |-> "idle", endpoint |-> None, user |-> None, session |-> None,
         late |-> FALSE, owing |-> FALSE]

Goto(r, pc) ==
    req' = [req EXCEPT ![r] =
               [pc |-> pc, endpoint |-> req[r].endpoint, user |-> req[r].user,
                session |-> req[r].session, late |-> req[r].late,
                owing |-> req[r].owing]]

Reply(r) == req' = [req EXCEPT ![r] = Idle]

\* DELETE of users: the database takes their sessions and logs along
Remove(us) ==
    /\ users' = [u \in Users |-> IF u \in us THEN Gone ELSE users[u]]
    /\ sessions' = [s \in Sessions |->
          IF Open(s) /\ sessions[s].user_id \in us THEN Gone ELSE sessions[s]]
    /\ tied' = tied \ us

Init ==
    /\ users = [u \in Users |-> None]
    /\ sessions = [s \in Sessions |-> None]
    /\ access = {}
    /\ tied = {}
    /\ req = [r \in Requests |-> Idle]
    /\ server = "seeding"
    /\ superAdmin \in Emails

-----------------------------------------------------------------------------
\* confirm_email_verification_code_and_sign_user_up; users.email is UNIQUE
Register(u, e) ==
    /\ server = "up"
    /\ users[u] = None
    /\ \A v \in Users : Exists(v) => users[v].email # e
    /\ users' = [users EXCEPT ![u] = [email |-> e, admin |-> FALSE]]
    /\ UNCHANGED <<sessions, access, tied, req, server, superAdmin>>

\* The first select of a request finds account u by its address
Find(r, u, pc, endpoint, s) ==
    /\ server = "up"
    /\ req[r].pc = "idle"
    /\ Exists(u)
    /\ req' = [req EXCEPT ![r] =
          [pc |-> pc, endpoint |-> endpoint, user |-> u, session |-> s,
           late |-> s # None /\ sessions[s] = Gone, owing |-> FALSE]]
    /\ UNCHANGED <<users, sessions, access, tied, server, superAdmin>>

\* signin: authenticate_user
BeginSignIn(r, u) == Find(r, u, "signin", None, None)

\* ... insert the session, return an access token
CommitSignIn(r) ==
    /\ req[r].pc = "signin"
    /\ LET u == req[r].user
       IN /\ Exists(u)
          /\ \E s \in Sessions :
                /\ sessions[s] = None
                /\ sessions' = [sessions EXCEPT ![s] =
                                   [user_id |-> u, expired |-> FALSE]]
          /\ access' = access \cup {users[u].email}
    /\ Reply(r)
    /\ UNCHANGED <<users, tied, server, superAdmin>>

\* decode_user_from_token: the account of the token, ...
BeginRequest(r, u, s, endpoint) ==
    /\ sessions[s] # None
    /\ Exists(u) /\ users[u].email \in access
    /\ Find(r, u, "auth", endpoint, s)

\* ... the session of the cookie
Authenticate(r) ==
    /\ req[r].pc = "auth"
    /\ Valid(req[r].user, req[r].session)
    /\ Goto(r, "handle")
    /\ UNCHANGED <<users, sessions, access, tied, server, superAdmin>>

\* Any other endpoint; it may leave rows that refer to the account
Handle(r) ==
    /\ req[r].pc = "handle" /\ req[r].endpoint = "any"
    /\ \/ UNCHANGED tied
       \/ Exists(req[r].user) /\ tied' = tied \cup {req[r].user}
    /\ Goto(r, "log")
    /\ UNCHANGED <<users, sessions, access, server, superAdmin>>

\* revoke_refresh_session selects the session again; 404 when it has gone meanwhile
BeginLogout(r) ==
    /\ req[r].pc = "handle" /\ req[r].endpoint = "logout"
    /\ Goto(r, IF Open(req[r].session) THEN "leave" ELSE "log")
    /\ UNCHANGED <<users, sessions, access, tied, server, superAdmin>>

\* ... and deletes it; of a row that is gone the DELETE only warns
CommitLogout(r) ==
    /\ req[r].pc = "leave"
    /\ sessions' = [sessions EXCEPT ![req[r].session] = Gone]
    /\ Goto(r, "log")
    /\ UNCHANGED <<users, access, tied, server, superAdmin>>

\* Mutant: the children are left to ON DELETE CASCADE (passive_deletes)
BeginErasePassive(r) ==
    /\ req[r].pc = "handle" /\ req[r].endpoint = "delete-account"
    /\ req' = [req EXCEPT ![r] =
          [pc |-> "erase", endpoint |-> req[r].endpoint, user |-> req[r].user,
           session |-> req[r].session, late |-> req[r].late,
           owing |-> req[r].user \in tied]]
    /\ UNCHANGED <<users, sessions, access, tied, server, superAdmin>>

\* delete_user: the flush looks for rows that refer to the account, to set their
\* user_id to NULL; it is NOT NULL, so that one such row fails the request
BeginErase(r) ==
    /\ req[r].pc = "handle" /\ req[r].endpoint = "delete-account"
    /\ req[r].user \notin tied
    /\ req' = [req EXCEPT ![r] =
          [pc |-> "erase", endpoint |-> req[r].endpoint, user |-> req[r].user,
           session |-> req[r].session, late |-> req[r].late,
           owing |-> req[r].user \in tied]]
    /\ UNCHANGED <<users, sessions, access, tied, server, superAdmin>>

\* ... and deletes the account; what was committed since the look goes with it, and
\* request.state.user = None spares the log
CommitErase(r) ==
    /\ req[r].pc = "erase"
    /\ Remove({req[r].user})
    /\ Reply(r)
    /\ UNCHANGED <<access, server, superAdmin>>

\* ActivityLoggerMiddleware; without the account the foreign key raises, which is
\* swallowed
Log(r) ==
    /\ req[r].pc = "log"
    /\ Exists(req[r].user)
    /\ tied' = tied \cup {req[r].user}
    /\ Reply(r)
    /\ UNCHANGED <<users, sessions, access, server, superAdmin>>

\* handle_refresh: the account of the refresh token, ...
BeginRefresh(r, u, s) ==
    /\ sessions[s] # None
    /\ Find(r, u, "renew", None, s)

\* ... its session: a new access token.  The branch for a token that does not verify
\* (revoke every session) is dead, see Valid.
Renew(r) ==
    /\ req[r].pc = "renew"
    /\ Valid(req[r].user, req[r].session)
    /\ Exists(req[r].user)
    /\ access' = access \cup {users[req[r].user].email}
    /\ Reply(r)
    /\ UNCHANGED <<users, sessions, tied, server, superAdmin>>

\* ... or, when the session has expired, delete it and answer 401
BeginDiscard(r) ==
    /\ req[r].pc = "renew"
    /\ LET s == req[r].session
       IN Open(s) /\ sessions[s].user_id = req[r].user /\ sessions[s].expired
    /\ Goto(r, "discard")
    /\ UNCHANGED <<users, sessions, access, tied, server, superAdmin>>

CommitDiscard(r) ==
    /\ req[r].pc = "discard"
    /\ sessions' = [sessions EXCEPT ![req[r].session] = Gone]
    /\ Reply(r)
    /\ UNCHANGED <<users, access, tied, server, superAdmin>>

\* 401, 404 or 500: nothing is committed, and the rollback keeps the log away
Fail(r) ==
    /\ req[r].pc # "idle"
    /\ Reply(r)
    /\ UNCHANGED <<users, sessions, access, tied, server, superAdmin>>

-----------------------------------------------------------------------------
\* Time: a session reaches expires_at, the access tokens of an address their "exp"
ExpireSession(s) ==
    /\ Open(s) /\ ~sessions[s].expired
    /\ sessions' = [sessions EXCEPT ![s] =
                       [user_id |-> sessions[s].user_id, expired |-> TRUE]]
    /\ UNCHANGED <<users, access, tied, req, server, superAdmin>>

ExpireAccess(e) ==
    /\ e \in access
    /\ access' = access \ {e}
    /\ UNCHANGED <<users, sessions, tied, req, server, superAdmin>>

\* The server stops, at any point, and starts with e as SUPER_ADMIN_EMAIL_ADDRESS
Restart(e) ==
    /\ req' = [r \in Requests |-> Idle]
    /\ server' = "seeding"
    /\ superAdmin' = e
    /\ UNCHANGED <<users, sessions, access, tied>>

SuperAdmin(u) == Exists(u) /\ users[u].admin /\ users[u].email = superAdmin

\* initialize_admin finds the administrator (and renews a changed password)
KeepAdmin ==
    /\ server = "seeding"
    /\ \E u \in Users : SuperAdmin(u)
    /\ server' = "up"
    /\ UNCHANGED <<users, sessions, access, tied, req, superAdmin>>

\* Mutant: only the account that holds the address makes way
ClearAddress ==
    /\ server = "seeding"
    /\ \A u \in Users : ~SuperAdmin(u)
    /\ Remove({u \in Users : Exists(u) /\ users[u].email = superAdmin})
    /\ server' = "cleared"
    /\ UNCHANGED <<access, req, superAdmin>>

\* ... or deletes every other administrator and whoever holds the address
ClearAdmins ==
    /\ server = "seeding"
    /\ \A u \in Users : ~SuperAdmin(u)
    /\ Remove({u \in Users :
                  Exists(u) /\ (users[u].admin \/ users[u].email = superAdmin)})
    /\ server' = "cleared"
    /\ UNCHANGED <<access, req, superAdmin>>

\* Mutant: an unset SUPER_ADMIN_EMAIL_ADDRESS is inserted as NULL
InsertAdminUnset(u) ==
    /\ server = "cleared"
    /\ users[u] = None
    /\ users' = [users EXCEPT ![u] = [email |-> None, admin |-> TRUE]]
    /\ server' = "up"
    /\ UNCHANGED <<sessions, access, tied, req, superAdmin>>

\* ... and inserts the administrator
InsertAdmin(u) ==
    /\ server = "cleared"
    /\ users[u] = None
    /\ users' = [users EXCEPT ![u] = [email |-> superAdmin, admin |-> TRUE]]
    /\ server' = "up"
    /\ UNCHANGED <<sessions, access, tied, req, superAdmin>>

Next ==
    \/ \E u \in Users, e \in Emails : Register(u, e)
    \/ \E r \in Requests :
          \/ \E u \in Users : BeginSignIn(r, u)
          \/ CommitSignIn(r)
          \/ \E u \in Users, s \in Sessions, p \in Endpoints : BeginRequest(r, u, s, p)
          \/ Authenticate(r)
          \/ Handle(r)
          \/ BeginLogout(r)
          \/ CommitLogout(r)
          \/ BeginErase(r)
          \/ CommitErase(r)
          \/ Log(r)
          \/ \E u \in Users, s \in Sessions : BeginRefresh(r, u, s)
          \/ Renew(r)
          \/ BeginDiscard(r)
          \/ CommitDiscard(r)
          \/ Fail(r)
    \/ \E s \in Sessions : ExpireSession(s)
    \/ \E e \in Emails : ExpireAccess(e)
    \/ \E e \in Emails : Restart(e)
    \/ KeepAdmin
    \/ ClearAdmins
    \/ \E u \in Users : InsertAdmin(u)

Spec == Init /\ [][Next]_vars

-----------------------------------------------------------------------------
(***************************************************************************)
(* Properties.                                                             *)
(***************************************************************************)
Admitted(r) == req[r].pc \in {"handle", "leave", "erase", "log"}

\* A session serves the account that signed in with it, whatever token comes with
\* the cookie, and no session outlives its account (decode_user_from_token matches
\* user_id; refresh_sessions.user_id is ON DELETE CASCADE).
SessionsServeTheirAccount ==
    /\ \A s \in Sessions : Open(s) => Exists(sessions[s].user_id)
    /\ \A r \in Requests :
          Admitted(r) /\ Open(req[r].session) =>
             sessions[req[r].session].user_id = req[r].user

\* A request that comes after its session was logged out, discarded or deleted with
\* the account is never let in, not with a token refreshed meanwhile either.
RevokedStaysOut == \A r \in Requests : Admitted(r) => ~req[r].late

\* While requests are served there is one administrator at most, at the configured
\* address, through changes of that address and crashes between the two commits of
\* initialize_admin.
OneAdmin ==
    server = "up" =>
       \A u, v \in Users :
          Exists(u) /\ Exists(v) /\ users[u].admin =>
             /\ users[u].email = superAdmin
             /\ users[v].admin => u = v

\* An account goes when the server starts, or by a delete-account request that found
\* nothing recorded of it: the log of one earlier request keeps the account.
OnlyUnusedAccountsErased ==
    [][\A u \in Users : Exists(u) /\ ~Exists(u)' =>
          \/ server = "seeding"
          \/ \E r \in Requests :
                /\ req[r].pc = "erase" /\ req[r].user = u
                /\ ~req[r].owing]_vars
=============================================================================
