------------------------------- MODULE Invites -------------------------------
(***************************************************************************)
(* Staff invites.  An administrator generates a token; whoever signs up    *)
(* with it, and with the code mailed to his address, becomes staff.        *)
(*                                                                         *)
(* One request spends both, in separate commits: the dependency            *)
(* validate_role_token deletes the token before the decorator looks for    *)
(* the code, the decorator deletes the code before the handler inserts the *)
(* account.  Whatever fails on the way, what was spent stays spent.        *)
(*                                                                         *)
(* The sign-up codes are those of EmailCodes, without its cleanup tasks.   *)
(***************************************************************************)
EXTENDS Integers, FiniteSets

CONSTANTS
    Emails,      \* addresses that sign up
    Tokens,      \* primary keys of role_based_tokens (bound: invites ever)
    Codes,       \* primary keys of sign-up codes (bound: codes ever)
    Requests,    \* requests in flight at once
    None,        \* NULL; no row yet
    Gone         \* a deleted row: its key does not come back

Roles == {"admin", "staff", "user"}

RoleBasedToken == [role : Roles \ {"admin"}, expired : BOOLEAN]

Code == [email : Emails, expired : BOOLEAN]

ASSUME ConstantsAssumption ==
    /\ None \notin RoleBasedToken /\ Gone \notin RoleBasedToken
    /\ None \notin Code /\ Gone \notin Code
    /\ None \notin Roles \cup Emails \cup Tokens \cup Codes
    /\ None # Gone

VARIABLES
    tokens,      \* Tokens -> RoleBasedToken, None or Gone
    codes,       \* Codes -> Code, None or Gone
    accounts,    \* Emails -> the role of its account, or None
    req,         \* Requests -> the request in flight
    invite,      \* history: Emails -> the token that gave the account its role
    shared       \* history: tokens that two requests held at once

vars == <<tokens, codes, accounts, req, invite, shared>>

Request == [pc : {"idle", "burn", "confirm", "spend", "register"},
            email : Emails \cup {None},
            token : Tokens \cup {None},
            role : Roles \cup {None},      \* None: the token had expired
            code : Codes \cup {None}]

TypeOK ==
    /\ tokens \in [Tokens -> RoleBasedToken \cup {None, Gone}]
    /\ codes \in [Codes -> Code \cup {None, Gone}]
    /\ accounts \in [Emails -> Roles \cup {None}]
    /\ req \in [Requests -> Request]
    /\ invite \in [Emails -> Tokens \cup {None}]
    /\ shared \subseteq Tokens

-----------------------------------------------------------------------------
Stored(t) == tokens[t] \notin {None, Gone}

Pending(c) == codes[c] \notin {None, Gone}

Idle == [pc |-> "idle", email |-> None, token |-> None, role |-> None, code |-> None]

Goto(r, pc, code) ==
    req' = [req EXCEPT ![r] =
               [pc |-> pc, email |-> req[r].email, token |-> req[r].token,
                role |-> req[r].role, code |-> code]]

Reply(r) == req' = [req EXCEPT ![r] = Idle]

Init ==
    /\ tokens = [t \in Tokens |-> None]
    /\ codes = [c \in Codes |-> None]
    /\ accounts = [e \in Emails |-> None]
    /\ req = [r \in Requests |-> Idle]
    /\ invite = [e \in Emails |-> None]
    /\ shared = {}

-----------------------------------------------------------------------------
\* Mutant: any role is accepted, the administrator's too
GenerateAnyRole(t) ==
    /\ tokens[t] = None
    /\ \E role \in Roles :
          tokens' = [tokens EXCEPT ![t] = [role |-> role, expired |-> FALSE]]
    /\ UNCHANGED <<codes, accounts, req, invite, shared>>

\* generate_staff_invite_link, for an administrator; the endpoint passes no role, so
\* that it is always the default
GenerateInvite(t) ==
    /\ tokens[t] = None
    /\ tokens' = [tokens EXCEPT ![t] = [role |-> "staff", expired |-> FALSE]]
    /\ UNCHANGED <<codes, accounts, req, invite, shared>>

ExpireInvite(t) ==
    /\ Stored(t) /\ ~tokens[t].expired
    /\ tokens' = [tokens EXCEPT ![t] = [role |-> tokens[t].role, expired |-> TRUE]]
    /\ UNCHANGED <<codes, accounts, req, invite, shared>>

\* probe_email_uniqueness_and_request_verification_code; the address is UNIQUE
RequestCode(c, e) ==
    /\ accounts[e] = None
    /\ codes[c] = None
    /\ \A d \in Codes : Pending(d) => codes[d].email # e
    /\ codes' = [codes EXCEPT ![c] = [email |-> e, expired |-> FALSE]]
    /\ UNCHANGED <<tokens, accounts, req, invite, shared>>

ExpireCode(c) ==
    /\ Pending(c) /\ ~codes[c].expired
    /\ codes' = [codes EXCEPT ![c] = [email |-> codes[c].email, expired |-> TRUE]]
    /\ UNCHANGED <<tokens, accounts, req, invite, shared>>

\* email_code_cleanup_loop
CleanUp(c) ==
    /\ Pending(c) /\ codes[c].expired
    /\ codes' = [codes EXCEPT ![c] = Gone]
    /\ UNCHANGED <<tokens, accounts, req, invite, shared>>

-----------------------------------------------------------------------------
\* Mutant: without a token the role comes from the data
SignUpWithRole(r, e) ==
    /\ req[r].pc = "idle"
    /\ \E role \in Roles :
          req' = [req EXCEPT ![r] = [pc |-> "confirm", email |-> e, token |-> None,
                                     role |-> role, code |-> None]]
    /\ UNCHANGED <<tokens, codes, accounts, invite, shared>>

\* A sign-up that names no token: the role is user
SignUp(r, e) ==
    /\ req[r].pc = "idle"
    /\ req' = [req EXCEPT ![r] = [pc |-> "confirm", email |-> e, token |-> None,
                                  role |-> "user", code |-> None]]
    /\ UNCHANGED <<tokens, codes, accounts, invite, shared>>

\* Two requests hold t at once
Share(r, t) ==
    shared' = IF \E q \in Requests \ {r} : req[q].pc = "burn" /\ req[q].token = t
              THEN shared \cup {t}
              ELSE shared

\* validate_role_token: select the token (a missing one ends as 500, since the
\* "finally" deletes None), compare its expiry
Validate(r, e, t) ==
    /\ req[r].pc = "idle"
    /\ Stored(t)
    /\ req' = [req EXCEPT ![r] =
          [pc |-> "burn", email |-> e, token |-> t,
           role |-> IF tokens[t].expired THEN None ELSE tokens[t].role,
           code |-> None]]
    /\ Share(r, t)
    /\ UNCHANGED <<tokens, codes, accounts, invite>>

\* Mutant: the token is deleted with the account's insert, not before
BurnLater(r) ==
    /\ req[r].pc = "burn"
    /\ UNCHANGED tokens
    /\ IF req[r].role = None THEN Reply(r) ELSE Goto(r, "confirm", None)
    /\ UNCHANGED <<codes, accounts, invite, shared>>

\* ... delete it in any case and commit; 400 if it had expired.  Of a token that
\* another request has deleted the DELETE only warns.
Burn(r) ==
    /\ req[r].pc = "burn"
    /\ tokens' = [tokens EXCEPT ![req[r].token] = Gone]
    /\ IF req[r].role = None THEN Reply(r) ELSE Goto(r, "confirm", None)
    /\ UNCHANGED <<codes, accounts, invite, shared>>

\* confirm_email_verification_code: the code of the address, ...
FindCode(r, c) ==
    /\ req[r].pc = "confirm"
    /\ Pending(c) /\ ~codes[c].expired
    /\ codes[c].email = req[r].email
    /\ Goto(r, "spend", c)
    /\ UNCHANGED <<tokens, codes, accounts, invite, shared>>

\* ... is deleted
SpendCode(r) ==
    /\ req[r].pc = "spend"
    /\ codes' = [codes EXCEPT ![req[r].code] = Gone]
    /\ Goto(r, "register", req[r].code)
    /\ UNCHANGED <<tokens, accounts, invite, shared>>

\* confirm_email_verification_code_and_sign_user_up; users.email is UNIQUE
Register(r) ==
    /\ req[r].pc = "register"
    /\ LET e == req[r].email
       IN /\ accounts[e] = None
          /\ accounts' = [accounts EXCEPT ![e] = req[r].role]
          /\ invite' = [invite EXCEPT ![e] = req[r].token]
    /\ Reply(r)
    /\ UNCHANGED <<tokens, codes, shared>>

\* The request ends here: 400, 410 or 500, or the server stops.  What earlier
\* commits deleted stays deleted.
Fail(r) ==
    /\ req[r].pc # "idle"
    /\ Reply(r)
    /\ UNCHANGED <<tokens, codes, accounts, invite, shared>>

\* delete_user
DeleteAccount(e) ==
    /\ accounts[e] # None
    /\ accounts' = [accounts EXCEPT ![e] = None]
    /\ invite' = [invite EXCEPT ![e] = None]
    /\ UNCHANGED <<tokens, codes, req, shared>>

Next ==
    \/ \E t \in Tokens : GenerateInvite(t) \/ ExpireInvite(t)
    \/ \E c \in Codes, e \in Emails : RequestCode(c, e)
    \/ \E c \in Codes : ExpireCode(c) \/ CleanUp(c)
    \/ \E r \in Requests :
          \/ \E e \in Emails : SignUp(r, e)
          \/ \E e \in Emails, t \in Tokens : Validate(r, e, t)
          \/ Burn(r)
          \/ \E c \in Codes : FindCode(r, c)
          \/ SpendCode(r)
          \/ Register(r)
          \/ Fail(r)
    \/ \E e \in Emails : DeleteAccount(e)

Spec == Init /\ [][Next]_vars

-----------------------------------------------------------------------------
(***************************************************************************)
(* Properties.                                                             *)
(***************************************************************************)
\* The staff are those who presented an invite, and an invite that made somebody
\* staff is used up; nobody becomes an administrator by signing up
\* (validate_role_token commits the deletion first of all).
StaffInvited ==
    \A e \in Emails :
       /\ accounts[e] = "staff" =>
             invite[e] # None /\ tokens[invite[e]] = Gone
       /\ accounts[e] = "user" => invite[e] = None
       /\ accounts[e] # "admin"

\* An invite makes one account, unless two requests had both read it before either
\* deleted it (validate_role_token takes no lock).
OneAccountPerInvite ==
    \A e, f \in Emails :
       e # f /\ invite[e] # None /\ invite[e] = invite[f] => invite[e] \in shared
=============================================================================
