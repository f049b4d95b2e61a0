------------------------------ MODULE InvitesProofs ------------------------------
(***************************************************************************)
(* Proofs about Invites, for any number of addresses, invites, codes and   *)
(* requests.  A request that is past its deletion of the invite holds a    *)
(* token that is gone, so that nobody can read the invite after it; who    *)
(* read it before is counted in shared (Sharing).                          *)
(***************************************************************************)
EXTENDS Invites, TLAPS

Later == {"confirm", "spend", "register"}

\* What a request in flight knows of its invite
Knows(q) ==
    /\ q.pc = "idle" => q.token = None
    /\ q.pc # "idle" => q.email \in Emails
    /\ q.pc = "burn" =>
          /\ q.token \in Tokens /\ tokens[q.token] # None
          /\ q.role \in {None, "staff"}
    /\ q.pc \in Later =>
          \/ q.token = None /\ q.role = "user"
          \/ q.token \in Tokens /\ q.role = "staff" /\ tokens[q.token] = Gone

InFlight == \A r \in Requests : Knows(req[r])

\* Who holds an invite with another, or after it made an account, shares it
Sharing ==
    /\ \A r, q \in Requests :
          r # q /\ req[r].token # None /\ req[r].token = req[q].token =>
             req[r].token \in shared
    /\ \A r \in Requests, e \in Emails :
          req[r].token # None /\ invite[e] = req[r].token => req[r].token \in shared
    /\ OneAccountPerInvite

Membership ==
    /\ \A e \in Emails :
          /\ accounts[e] \in {None, "user", "staff"}
          /\ accounts[e] = "staff" => invite[e] # None
          /\ accounts[e] # "staff" => invite[e] = None
          /\ invite[e] # None => tokens[invite[e]] = Gone
    /\ \A t \in Tokens : Stored(t) => tokens[t].role = "staff"

IInv == TypeOK /\ Membership /\ Sharing /\ InFlight

-----------------------------------------------------------------------------
\* An idle request knows nothing.
LEMMA IdleKnows == Idle \in Request /\ Knows(Idle) /\ Idle.token = None
  BY DEF Idle, Request, Knows, Later

\* The invariant holds initially.
LEMMA InitIInv == Init => IInv
<1> SUFFICES ASSUME Init PROVE IInv
  OBVIOUS
<1>1. TypeOK /\ InFlight
  BY IdleKnows DEF Init, TypeOK, InFlight
<1>2. Membership
  <2>1. None # "staff"
    BY ConstantsAssumption DEF Roles
  <2> QED  BY <2>1 DEF Init, Membership, Stored
<1>3. Sharing
  BY IdleKnows DEF Init, Sharing, OneAccountPerInvite
<1> QED  BY <1>1, <1>2, <1>3 DEF IInv

\* One request moves on while deleted invites stay deleted.
LEMMA RequestsKept ==
    ASSUME IInv, NEW r \in Requests, NEW q \in Request, Knows(q),
           req' = [req EXCEPT ![r] = q],
           \A t \in Tokens : tokens'[t] \in {tokens[t], Gone}
    PROVE  /\ InFlight' /\ req' \in [Requests -> Request]
           /\ \A x \in Requests : req'[x] = IF x = r THEN q ELSE req[x]
<1>1. /\ req' \in [Requests -> Request]
      /\ \A x \in Requests : req'[x] = IF x = r THEN q ELSE req[x]
  BY DEF IInv, TypeOK
<1>2. ASSUME NEW x \in Requests
      PROVE  Knows(req[x])'
  <2>1. PICK k \in Request : k = req'[x] /\ Knows(k)
    BY <1>1 DEF IInv, TypeOK, InFlight
  <2>2. Knows(k)'
    BY <2>1, ConstantsAssumption DEF Knows
  <2> QED  BY <2>1, <2>2 DEF Knows
<1> QED  BY <1>1, <1>2 DEF InFlight

\* A step without a request, that neither creates nor shares anything.
LEMMA StillStep ==
    ASSUME IInv, codes' \in [Codes -> Code \cup {None, Gone}],
           tokens' \in [Tokens -> RoleBasedToken \cup {None, Gone}],
           \A t \in Tokens :
              /\ tokens[t] = Gone => tokens'[t] = Gone
              /\ tokens[t] # None => tokens'[t] # None
              /\ tokens'[t] \notin {None, Gone} => tokens'[t].role = "staff",
           UNCHANGED <<accounts, req, invite, shared>>
    PROVE  IInv'
<1>1. TypeOK'
  BY DEF IInv, TypeOK
<1>2. Membership'
  BY DEF IInv, TypeOK, Membership, Stored
<1>3. Sharing'
  BY DEF IInv, Sharing, OneAccountPerInvite
<1>4. InFlight'
  BY DEF IInv, InFlight, Knows
<1> QED  BY <1>1, <1>2, <1>3, <1>4 DEF IInv

\* A step of one request that takes no invite up.
LEMMA QuietStep ==
    ASSUME IInv, NEW r \in Requests, NEW q \in Request, Knows(q),
           q.token \in {None, req[r].token}, req' = [req EXCEPT ![r] = q],
           codes' \in [Codes -> Code \cup {None, Gone}],
           tokens' \in [Tokens -> RoleBasedToken \cup {None, Gone}],
           \A t \in Tokens : tokens'[t] \in {tokens[t], Gone},
           UNCHANGED <<accounts, invite, shared>>
    PROVE  IInv'
<1>1. /\ InFlight' /\ req' \in [Requests -> Request]
      /\ \A x \in Requests : req'[x] = IF x = r THEN q ELSE req[x]
  BY RequestsKept
<1>2. TypeOK'
  BY <1>1 DEF IInv, TypeOK
<1>3. Membership'
  <2>1. ASSUME NEW e \in Emails, invite[e] # None
        PROVE  tokens'[invite[e]] = Gone
    BY <2>1 DEF IInv, TypeOK, Membership
  <2> QED  BY <2>1 DEF IInv, Membership, Stored
<1>4. Sharing'
  BY <1>1 DEF IInv, Sharing, OneAccountPerInvite
<1> QED  BY <1>1, <1>2, <1>3, <1>4 DEF IInv

\* An answer.
LEMMA ReplyKeeps ==
    ASSUME IInv, NEW r \in Requests, Reply(r),
           tokens' \in [Tokens -> RoleBasedToken \cup {None, Gone}],
           \A t \in Tokens : tokens'[t] \in {tokens[t], Gone},
           UNCHANGED <<codes, accounts, invite, shared>>
    PROVE  IInv'
<1>1. codes' \in [Codes -> Code \cup {None, Gone}]
  BY DEF IInv, TypeOK
<1> QED  BY <1>1, IdleKnows, QuietStep DEF Reply

\* A sign-up without an invite.
LEMMA SignUpKeeps ==
    ASSUME IInv, NEW r \in Requests, NEW e \in Emails, SignUp(r, e)
    PROVE  IInv'
<1> DEFINE q == [pc |-> "confirm", email |-> e, token |-> None, role |-> "user",
                 code |-> None]
<1>1. q \in Request /\ Knows(q) /\ q.token = None
  BY DEF Request, Knows, Later, Roles
<1>2. /\ req' = [req EXCEPT ![r] = q] /\ UNCHANGED <<tokens, codes, accounts, invite, shared>>
      /\ codes' \in [Codes -> Code \cup {None, Gone}]
      /\ tokens' \in [Tokens -> RoleBasedToken \cup {None, Gone}]
  BY DEF SignUp, IInv, TypeOK
<1> HIDE DEF q
<1> QED  BY <1>1, <1>2, QuietStep

\* Going on with the invite that it has deleted, or without one.
LEMMA GotoKeeps ==
    ASSUME IInv, NEW r \in Requests, NEW pc \in Later, NEW c \in Codes \cup {None},
           Goto(r, pc, c), req[r].pc \in Later,
           codes' \in [Codes -> Code \cup {None, Gone}],
           UNCHANGED <<tokens, accounts, invite, shared>>
    PROVE  IInv'
<1> DEFINE q == [pc |-> pc, email |-> req[r].email, token |-> req[r].token,
                 role |-> req[r].role, code |-> c]
<1>1. req[r] \in Request /\ Knows(req[r])
  BY DEF IInv, TypeOK, InFlight
<1>2. q \in Request
  BY <1>1 DEF Request, Later
<1>3. Knows(q) /\ q.token = req[r].token
  BY <1>1 DEF Knows, Later
<1>4. /\ req' = [req EXCEPT ![r] = q]
      /\ tokens' \in [Tokens -> RoleBasedToken \cup {None, Gone}]
      /\ \A t \in Tokens : tokens'[t] \in {tokens[t], Gone}
  BY DEF Goto, IInv, TypeOK
<1> HIDE DEF q
<1> QED  BY <1>2, <1>3, <1>4, QuietStep

\* Reading an invite.
LEMMA ValidateKeeps ==
    ASSUME IInv, NEW r \in Requests, NEW e \in Emails, NEW t \in Tokens,
           Validate(r, e, t)
    PROVE  IInv'
<1>1. PICK role \in {None, "staff"} :
         role = IF tokens[t].expired THEN None ELSE tokens[t].role
  BY DEF Validate, IInv, Membership
<1> DEFINE q == [pc |-> "burn", email |-> e, token |-> t, role |-> role, code |-> None]
<1>2. q \in Request /\ Knows(q) /\ q.token = t
  BY DEF Validate, Stored, Request, Knows, Later, Roles
<1>3. req' = [req EXCEPT ![r] = q] /\ UNCHANGED <<tokens, codes, accounts, invite>>
  BY <1>1 DEF Validate
<1> HIDE DEF q
<1>4. /\ InFlight' /\ req' \in [Requests -> Request]
      /\ \A x \in Requests : req'[x] = IF x = r THEN q ELSE req[x]
  BY <1>2, <1>3, RequestsKept
<1>5. shared' \in {shared, shared \cup {t}}
  BY DEF Validate, Share
<1>6. TypeOK'
  BY <1>3, <1>4, <1>5 DEF IInv, TypeOK
<1>7. Membership'
  BY <1>3 DEF IInv, Membership, Stored
<1>8. tokens[t] # Gone /\ t # None
  BY ConstantsAssumption DEF Validate, Stored
<1>9. ASSUME NEW x \in Requests, x # r, req[x].token = t
      PROVE  t \in shared'
  <2>1. Knows(req[x]) /\ req[x] \in Request
    BY DEF IInv, TypeOK, InFlight
  <2>2. req[x].pc = "burn"
    BY <2>1, <1>8, <1>9 DEF Knows, Request, Later
  <2> QED  BY <2>2, <1>9 DEF Validate, Share
<1>10. \A d \in Emails : invite[d] # t
  BY <1>8 DEF IInv, Membership
<1>11. Sharing'
  BY <1>2, <1>3, <1>4, <1>5, <1>9, <1>10 DEF IInv, Sharing, OneAccountPerInvite
<1> QED  BY <1>4, <1>6, <1>7, <1>11 DEF IInv

\* Deleting the invite.
LEMMA BurnKeeps ==
    ASSUME IInv, NEW r \in Requests, Burn(r)
    PROVE  IInv'
<1>1. req[r] \in Request /\ Knows(req[r]) /\ req[r].pc = "burn"
  BY DEF IInv, TypeOK, InFlight, Burn
<1>2. PICK t \in Tokens : t = req[r].token
  BY <1>1 DEF Knows
<1>3. /\ tokens' = [tokens EXCEPT ![t] = Gone]
      /\ \A x \in Tokens : tokens'[x] = IF x = t THEN Gone ELSE tokens[x]
      /\ tokens' \in [Tokens -> RoleBasedToken \cup {None, Gone}]
  BY <1>2 DEF Burn, IInv, TypeOK
<1>4. codes' \in [Codes -> Code \cup {None, Gone}]
  BY DEF Burn, IInv, TypeOK
<1>5. CASE req[r].role = None
  BY <1>3, <1>5, ReplyKeeps DEF Burn
<1>6. CASE req[r].role # None
  <2> DEFINE q == [pc |-> "confirm", email |-> req[r].email, token |-> t,
                   role |-> req[r].role, code |-> None]
  <2>1. q \in Request
    BY <1>1 DEF Request
  <2>2. q.token = req[r].token /\ req' = [req EXCEPT ![r] = q]
    BY <1>2, <1>6 DEF Burn, Goto
  <2>3. q.pc = "confirm" /\ q.token = t /\ q.role = "staff" /\ q.email \in Emails
    BY <1>1, <1>6 DEF Knows
  <2> HIDE DEF q
  <2>4. /\ req' \in [Requests -> Request]
        /\ \A x \in Requests : req'[x] = IF x = r THEN q ELSE req[x]
    BY <2>1, <2>2 DEF IInv, TypeOK
  <2>5. InFlight'
    <3> SUFFICES ASSUME NEW x \in Requests PROVE Knows(req[x])'
      BY DEF InFlight
    <3>1. CASE x = r
      BY <3>1, <2>3, <2>4, <1>3 DEF Knows, Later
    <3>2. CASE x # r
      <4>1. req'[x] = req[x] /\ Knows(req[x])
        BY <3>2, <2>4 DEF IInv, InFlight
      <4> QED  BY <4>1, <1>3, ConstantsAssumption DEF Knows
    <3> QED  BY <3>1, <3>2
  <2>6. TypeOK'
    BY <1>3, <1>4, <2>4 DEF Burn, IInv, TypeOK
  <2>7. Membership'
    <3>1. ASSUME NEW e \in Emails, invite[e] # None
          PROVE  tokens'[invite[e]] = Gone
      BY <3>1, <1>3 DEF IInv, TypeOK, Membership
    <3> QED  BY <3>1, <1>3 DEF Burn, IInv, Membership, Stored
  <2>8. Sharing'
    BY <2>2, <2>4 DEF Burn, IInv, Sharing, OneAccountPerInvite
  <2> QED  BY <2>5, <2>6, <2>7, <2>8 DEF IInv
<1> QED  BY <1>5, <1>6

\* Making an account.
LEMMA RegisterKeeps ==
    ASSUME IInv, NEW r \in Requests, Register(r)
    PROVE  IInv'
<1>1. req[r] \in Request /\ Knows(req[r]) /\ req[r].pc = "register"
  BY DEF IInv, TypeOK, InFlight, Register
<1>2. PICK e \in Emails : e = req[r].email
  BY <1>1 DEF Knows
<1>3. PICK t \in Tokens \cup {None}, role \in {"user", "staff"} :
         /\ t = req[r].token /\ role = req[r].role
         /\ role = "user" => t = None
         /\ role = "staff" => t \in Tokens /\ tokens[t] = Gone
  BY <1>1 DEF Knows, Later
<1>4. /\ \A d \in Emails : accounts'[d] = IF d = e THEN role ELSE accounts[d]
      /\ \A d \in Emails : invite'[d] = IF d = e THEN t ELSE invite[d]
      /\ accounts[e] = None /\ UNCHANGED <<tokens, codes, shared>>
  BY <1>2, <1>3 DEF Register, IInv, TypeOK
<1>5. /\ InFlight' /\ req' \in [Requests -> Request]
      /\ \A x \in Requests : req'[x] = IF x = r THEN Idle ELSE req[x]
  <2>1. req' = [req EXCEPT ![r] = Idle]
    BY DEF Register, Reply
  <2> QED  BY <2>1, <1>4, IdleKnows, RequestsKept
<1>6. TypeOK'
  <2>1. accounts' = [accounts EXCEPT ![e] = role] /\ invite' = [invite EXCEPT ![e] = t]
    BY <1>2, <1>3 DEF Register
  <2> QED  BY <2>1, <1>4, <1>5 DEF IInv, TypeOK, Roles
<1>7. Membership'
  <2>1. ASSUME NEW d \in Emails, d # e
        PROVE  /\ accounts'[d] = accounts[d] /\ invite'[d] = invite[d]
               /\ invite[d] # None => tokens[invite[d]] = Gone
    BY <2>1, <1>4 DEF IInv, Membership
  <2>2. /\ accounts'[e] = role /\ invite'[e] = t
        /\ role = "staff" => t # None
        /\ t # None => role = "staff" /\ tokens[t] = Gone
    BY <1>3, <1>4, ConstantsAssumption
  <2> QED  BY <2>1, <2>2, <1>4 DEF IInv, Membership, Stored
<1>8. invite[e] = None
  BY <1>4, ConstantsAssumption DEF IInv, Membership, Roles
<1>9. \A d \in Emails : t # None /\ invite[d] = t => t \in shared
  BY <1>3 DEF IInv, Sharing
<1>10. \A x \in Requests : x # r /\ t # None /\ req[x].token = t => t \in shared
  BY <1>3 DEF IInv, Sharing
<1>11. Sharing'
  <2>1. OneAccountPerInvite'
    BY <1>4, <1>9 DEF IInv, Sharing, OneAccountPerInvite
  <2>2. \A x \in Requests, d \in Emails :
           req'[x].token # None /\ invite'[d] = req'[x].token => req'[x].token \in shared'
    BY <1>4, <1>5, <1>10, IdleKnows DEF IInv, Sharing
  <2>3. \A x, y \in Requests :
           x # y /\ req'[x].token # None /\ req'[x].token = req'[y].token =>
              req'[x].token \in shared'
    BY <1>4, <1>5, IdleKnows DEF IInv, Sharing
  <2> QED  BY <2>1, <2>2, <2>3 DEF Sharing
<1> QED  BY <1>5, <1>6, <1>7, <1>11 DEF IInv

\* Deleting an account.
LEMMA DeleteAccountKeeps ==
    ASSUME IInv, NEW e \in Emails, DeleteAccount(e)
    PROVE  IInv'
<1>1. /\ \A d \in Emails : accounts'[d] = IF d = e THEN None ELSE accounts[d]
      /\ \A d \in Emails : invite'[d] = IF d = e THEN None ELSE invite[d]
      /\ UNCHANGED <<tokens, codes, req, shared>>
  BY DEF DeleteAccount, IInv, TypeOK
<1>2. TypeOK'
  BY DEF DeleteAccount, IInv, TypeOK
<1>3. Membership'
  <2>1. None # "staff"
    BY ConstantsAssumption DEF Roles
  <2> QED  BY <1>1, <2>1 DEF IInv, Membership, Stored
<1>4. Sharing'
  BY <1>1 DEF IInv, Sharing, OneAccountPerInvite
<1>5. InFlight'
  BY <1>1 DEF IInv, InFlight, Knows
<1> QED  BY <1>2, <1>3, <1>4, <1>5 DEF IInv

-----------------------------------------------------------------------------
(***************************************************************************)
(* Theorems.                                                               *)
(***************************************************************************)
\* Every step preserves the invariant.
LEMMA NextIInv == IInv /\ [Next]_vars => IInv'
<1> SUFFICES ASSUME IInv, [Next]_vars PROVE IInv'
  OBVIOUS
<1>0. /\ tokens \in [Tokens -> RoleBasedToken \cup {None, Gone}]
      /\ codes \in [Codes -> Code \cup {None, Gone}]
      /\ \A t \in Tokens : Stored(t) => tokens[t].role = "staff"
  BY DEF IInv, TypeOK, Membership
<1>1. ASSUME NEW t \in Tokens, GenerateInvite(t) \/ ExpireInvite(t)
      PROVE  IInv'
  <2>1. PICK row \in RoleBasedToken :
           /\ row.role = "staff" /\ tokens' = [tokens EXCEPT ![t] = row]
           /\ tokens[t] # Gone
    <3>1. \A b \in BOOLEAN : [role |-> "staff", expired |-> b] \in RoleBasedToken
      BY DEF RoleBasedToken, Roles
    <3>2. CASE GenerateInvite(t)
      BY <3>1, <3>2, ConstantsAssumption DEF GenerateInvite
    <3>3. CASE ExpireInvite(t)
      BY <3>1, <3>3, <1>0 DEF ExpireInvite, Stored
    <3> QED  BY <1>1, <3>2, <3>3
  <2>2. \A x \in Tokens : tokens'[x] = IF x = t THEN row ELSE tokens[x]
    BY <2>1, <1>0
  <2>3. row \notin {None, Gone}
    BY ConstantsAssumption
  <2>4. UNCHANGED <<codes, accounts, req, invite, shared>>
    BY <1>1 DEF GenerateInvite, ExpireInvite
  <2>5. \A x \in Tokens :
           /\ tokens[x] = Gone => tokens'[x] = Gone
           /\ tokens[x] # None => tokens'[x] # None
           /\ tokens'[x] \notin {None, Gone} => tokens'[x].role = "staff"
    BY <2>1, <2>2, <2>3, <1>0 DEF Stored
  <2>6. tokens' \in [Tokens -> RoleBasedToken \cup {None, Gone}]
    BY <2>1, <1>0
  <2> QED  BY <2>4, <2>5, <2>6, <1>0, StillStep
<1>2. ASSUME NEW c \in Codes,
             (\E e \in Emails : RequestCode(c, e)) \/ ExpireCode(c) \/ CleanUp(c)
      PROVE  IInv'
  <2>1. codes' \in [Codes -> Code \cup {None, Gone}]
    <3>1. CASE \E e \in Emails : RequestCode(c, e)
      BY <3>1, <1>0 DEF RequestCode, Code
    <3>2. CASE ExpireCode(c)
      <4>1. codes[c] \in Code
        BY <3>2, <1>0 DEF ExpireCode, Pending
      <4> QED  BY <3>2, <4>1, <1>0 DEF ExpireCode, Code
    <3>3. CASE CleanUp(c)
      BY <3>3, <1>0 DEF CleanUp
    <3> QED  BY <1>2, <3>1, <3>2, <3>3
  <2>2. UNCHANGED <<tokens, accounts, req, invite, shared>>
    BY <1>2 DEF RequestCode, ExpireCode, CleanUp
  <2> QED  BY <2>1, <2>2, <1>0, StillStep DEF Stored
<1>3. ASSUME NEW r \in Requests, NEW c \in Codes, FindCode(r, c)
      PROVE  IInv'
  BY <1>3, <1>0, GotoKeeps DEF FindCode, Later
<1>4. ASSUME NEW r \in Requests, SpendCode(r)
      PROVE  IInv'
  <2>1. codes' \in [Codes -> Code \cup {None, Gone}]
    BY <1>4, <1>0 DEF SpendCode
  <2>2. req[r].code \in Codes \cup {None}
    BY DEF IInv, TypeOK, Request
  <2> QED  BY <1>4, <2>1, <2>2, GotoKeeps DEF SpendCode, Later
<1>5. ASSUME NEW r \in Requests, Fail(r)
      PROVE  IInv'
  BY <1>5, <1>0, ReplyKeeps DEF Fail
<1>6. CASE UNCHANGED vars
  BY <1>6, <1>0, StillStep DEF vars, Stored
<1> QED
  BY <1>1, <1>2, <1>3, <1>4, <1>5, <1>6, SignUpKeeps, ValidateKeeps, BurnKeeps,
     RegisterKeeps, DeleteAccountKeeps DEF Next

\* The invariant of the invites, the accounts they made and the requests in flight.
THEOREM InvitesInvariant == Spec => []IInv
  BY InitIInv, NextIInv, PTL DEF Spec

\* Every variable keeps its type.
THEOREM InvitesTypeCorrect == Spec => []TypeOK
<1>1. IInv => TypeOK
  BY DEF IInv
<1> QED  BY <1>1, InvitesInvariant, PTL

\* The staff were invited, and with an invite that is used up.
THEOREM StaffAreInvited == Spec => []StaffInvited
<1>1. IInv => StaffInvited
  <2> SUFFICES ASSUME IInv, NEW e \in Emails
               PROVE  /\ accounts[e] = "staff" =>
                            invite[e] # None /\ tokens[invite[e]] = Gone
                      /\ accounts[e] = "user" => invite[e] = None
                      /\ accounts[e] # "admin"
    BY DEF StaffInvited
  <2>1. None # "admin"
    BY ConstantsAssumption DEF Roles
  <2> QED  BY <2>1 DEF IInv, Membership
<1> QED  BY <1>1, InvitesInvariant, PTL

\* An invite makes one account unless two requests had read it.
THEOREM InvitesMakeOneAccount == Spec => []OneAccountPerInvite
<1>1. IInv => OneAccountPerInvite
  BY DEF IInv, Sharing
<1> QED  BY <1>1, InvitesInvariant, PTL

-----------------------------------------------------------------------------
(***************************************************************************)
(* Without races.  When no two requests hold one invite between reading    *)
(* and deleting it, as they could not if validate_role_token selected it   *)
(* FOR UPDATE, an invite makes one account at most.                        *)
(***************************************************************************)
InvitesApart ==
    \A r, s \in Requests :
       r # s /\ req[r].pc = "burn" /\ req[s].pc = "burn" => req[r].token # req[s].token

OneAccount ==
    \A e, f \in Emails : e # f /\ invite[e] # None => invite[e] # invite[f]

NothingShared == shared = {}

\* A step after which nobody holds an invite with another shares none.
LEMMA NextNothingShared ==
    IInv /\ NothingShared /\ [Next]_vars /\ InvitesApart' => NothingShared'
<1> SUFFICES ASSUME IInv, shared = {}, [Next]_vars, InvitesApart' PROVE shared' = {}
  BY DEF NothingShared
<1>1. ASSUME NEW r \in Requests, NEW e \in Emails, NEW t \in Tokens, Validate(r, e, t)
      PROVE  shared' = {}
  <2>1. PICK q : /\ req' = [req EXCEPT ![r] = q] /\ q.pc = "burn" /\ q.token = t
    <3> DEFINE q == [pc |-> "burn", email |-> e, token |-> t,
                     role |-> IF tokens[t].expired THEN None ELSE tokens[t].role,
                     code |-> None]
    <3>1. req' = [req EXCEPT ![r] = q] /\ q.pc = "burn" /\ q.token = t
      BY <1>1 DEF Validate
    <3> HIDE DEF q
    <3> QED  BY <3>1
  <2>2. \A x \in Requests : req'[x] = IF x = r THEN q ELSE req[x]
    BY <2>1 DEF IInv, TypeOK
  <2>3. ~\E x \in Requests \ {r} : req[x].pc = "burn" /\ req[x].token = t
    BY <2>1, <2>2 DEF InvitesApart
  <2> QED  BY <1>1, <2>3 DEF Validate, Share
<1>2. ASSUME ~\E r \in Requests, e \in Emails, t \in Tokens : Validate(r, e, t)
      PROVE  UNCHANGED shared
  BY <1>2 DEF Next, vars, GenerateInvite, ExpireInvite, RequestCode, ExpireCode, CleanUp,
              SignUp, Burn, FindCode, SpendCode, Register, Fail, DeleteAccount
<1> QED  BY <1>1, <1>2

\* Invites that are read and deleted by one request at a time make one account each.
THEOREM LockedInvitesMakeOneAccount == Spec /\ []InvitesApart => []OneAccount
<1>1. Init => NothingShared
  BY DEF Init, NothingShared
<1>2. IInv /\ NothingShared => OneAccount
  BY DEF IInv, Sharing, OneAccountPerInvite, OneAccount, NothingShared
<1> QED  BY <1>1, <1>2, NextNothingShared, InvitesInvariant, PTL DEF Spec
=============================================================================
