----------------------------- MODULE SessionsProofs -----------------------------
(***************************************************************************)
(* Proofs about Sessions, for any number of addresses, accounts, sessions  *)
(* and requests.  A request in flight stays right about its session        *)
(* because a session never changes hands and a deleted one never returns   *)
(* (Persist); the administrators stay in order because no account is made  *)
(* while the server is starting (Administration).                          *)
(***************************************************************************)
EXTENDS Sessions, TLAPS

\* No session outlives its account
Owned == \A s \in Sessions : Open(s) => Exists(sessions[s].user_id)

Administration ==
    /\ \A u, v \in Users :
          Exists(u) /\ Exists(v) =>
             /\ users[u].email = users[v].email => u = v
             /\ users[u].admin /\ users[v].admin => u = v
    /\ \A u \in Users : Exists(u) =>
          /\ server = "up" /\ users[u].admin => users[u].email = superAdmin
          /\ server = "cleared" => ~users[u].admin /\ users[u].email # superAdmin

AdmittedPCs == {"handle", "leave", "erase", "log"}

\* What a request in flight knows of its account and its session
Knows(q) ==
    /\ q.pc # "idle" => q.user \in Users
    /\ q.pc \notin {"idle", "signin"} =>
          q.session \in Sessions /\ sessions[q.session] # None
    /\ q.late => q.session \in Sessions /\ sessions[q.session] = Gone
    /\ q.pc \in AdmittedPCs =>
          /\ ~q.late
          /\ Open(q.session) => sessions[q.session].user_id = q.user
    /\ q.pc = "erase" => ~q.owing

InFlight == \A r \in Requests : Knows(req[r])

IInv == TypeOK /\ Owned /\ Administration /\ InFlight

\* A step that lets no session change hands or return
Persist ==
    \A s \in Sessions :
       /\ sessions[s] = Gone => sessions'[s] = Gone
       /\ sessions[s] # None => sessions'[s] # None
       /\ sessions[s] # None /\ sessions'[s] \notin {None, Gone} =>
             sessions[s] # Gone /\ sessions'[s].user_id = sessions[s].user_id

\* The request that Goto leaves
Moved(r, pc) ==
    [pc |-> pc, endpoint |-> req[r].endpoint, user |-> req[r].user,
     session |-> req[r].session, late |-> req[r].late, owing |-> req[r].owing]

-----------------------------------------------------------------------------
\* An idle request knows nothing.
LEMMA IdleKnows == Idle \in Request /\ Knows(Idle)
  BY DEF Idle, Request, Knows, AdmittedPCs

\* The invariant holds initially.
LEMMA InitIInv == Init => IInv
  BY IdleKnows DEF Init, IInv, TypeOK, Owned, Administration, InFlight, Open, Exists

\* What a request knows outlasts a step that persists.
LEMMA KnowsPersists ==
    ASSUME TypeOK, Persist, NEW q \in Request, Knows(q)
    PROVE  Knows(q)'
<1>1. q.session \in Sessions =>
         /\ sessions[q.session] = Gone => sessions'[q.session] = Gone
         /\ sessions[q.session] # None => sessions'[q.session] # None
         /\ sessions[q.session] # None /\ sessions'[q.session] \notin {None, Gone} =>
              /\ sessions[q.session] # Gone
              /\ sessions'[q.session].user_id = sessions[q.session].user_id
  BY DEF Persist
<1>2. q.pc \in AdmittedPCs => q.pc \notin {"idle", "signin"}
  BY DEF AdmittedPCs
<1> QED  BY <1>1, <1>2, ConstantsAssumption DEF Knows, Open

\* One request moves on, to what it knows already; the others stay.
LEMMA RequestsKept ==
    ASSUME TypeOK, InFlight, Persist, NEW r \in Requests, NEW q \in Request, Knows(q),
           req' = [req EXCEPT ![r] = q]
    PROVE  InFlight' /\ req' \in [Requests -> Request]
<1>1. req' \in [Requests -> Request]
  BY DEF TypeOK
<1>2. ASSUME NEW x \in Requests
      PROVE  \E k \in Request : k = req'[x] /\ Knows(k)
  BY <1>1 DEF TypeOK, InFlight
<1>3. ASSUME NEW x \in Requests
      PROVE  Knows(req[x])'
  <2>1. PICK k \in Request : k = req'[x] /\ Knows(k)
    BY <1>2
  <2>2. Knows(k)'
    BY <2>1, KnowsPersists
  <2> QED  BY <2>1, <2>2 DEF Knows, Open
<1> QED  BY <1>1, <1>3 DEF InFlight

\* A step without a request keeps what they know.
LEMMA RequestsStay ==
    ASSUME TypeOK, InFlight, Persist, UNCHANGED req
    PROVE  InFlight'
<1> SUFFICES ASSUME NEW x \in Requests PROVE Knows(req[x])'
  BY DEF InFlight
<1>1. PICK k \in Request : k = req[x] /\ Knows(k)
  BY DEF TypeOK, InFlight
<1>2. Knows(k)'
  BY <1>1, KnowsPersists
<1> QED  BY <1>1, <1>2 DEF Knows, Open

\* A step that commits neither an account nor a session.
LEMMA QuietStep ==
    ASSUME IInv, NEW r \in Requests, NEW q \in Request, Knows(q),
           req' = [req EXCEPT ![r] = q],
           access' \in SUBSET Emails, tied' \in SUBSET Users,
           UNCHANGED <<users, sessions, server, superAdmin>>
    PROVE  IInv'
<1>1. Persist
  BY ConstantsAssumption DEF Persist
<1>2. InFlight' /\ req' \in [Requests -> Request]
  BY <1>1, RequestsKept DEF IInv
<1>3. TypeOK'
  BY <1>2 DEF IInv, TypeOK
<1>4. Owned' /\ Administration'
  BY DEF IInv, Owned, Administration, Open, Exists
<1> QED  BY <1>2, <1>3, <1>4 DEF IInv

\* Looking an account up.
LEMMA FindKeeps ==
    ASSUME IInv, NEW r \in Requests, NEW u \in Users, NEW s \in Sessions \cup {None},
           NEW e \in Endpoints \cup {None}, NEW pc \in {"signin", "auth", "renew"},
           s # None => sessions[s] # None, s = None => pc = "signin",
           Find(r, u, pc, e, s)
    PROVE  IInv'
<1> DEFINE q == [pc |-> pc, endpoint |-> e, user |-> u, session |-> s,
                 late |-> s # None /\ sessions[s] = Gone, owing |-> FALSE]
<1>1. q \in Request
  BY DEF Request
<1>2. Knows(q)
  BY DEF Knows, AdmittedPCs
<1>3. req' = [req EXCEPT ![r] = q]
  BY DEF Find
<1>4. /\ access' \in SUBSET Emails /\ tied' \in SUBSET Users
      /\ UNCHANGED <<users, sessions, server, superAdmin>>
  BY DEF Find, IInv, TypeOK
<1> HIDE DEF q
<1> QED  BY <1>1, <1>2, <1>3, <1>4, QuietStep

\* Moving on without a commit.
LEMMA GotoKeeps ==
    ASSUME IInv, NEW r \in Requests, NEW pc \in {"handle", "leave", "log", "discard"},
           req[r].pc \notin {"idle", "signin"}, Goto(r, pc),
           \/ pc = "discard" \/ req[r].pc \in AdmittedPCs
           \/ req[r].pc = "auth" /\ Valid(req[r].user, req[r].session),
           access' \in SUBSET Emails, tied' \in SUBSET Users,
           UNCHANGED <<users, sessions, server, superAdmin>>
    PROVE  IInv'
<1>1. req[r] \in Request /\ Knows(req[r])
  BY DEF IInv, TypeOK, InFlight
<1>2. Moved(r, pc) \in Request
  BY <1>1 DEF Moved, Request
<1>3. Knows(Moved(r, pc))
  BY <1>1, ConstantsAssumption DEF Moved, Knows, AdmittedPCs, Valid, Open
<1>4. req' = [req EXCEPT ![r] = Moved(r, pc)]
  BY DEF Goto, Moved
<1> QED  BY <1>2, <1>3, <1>4, QuietStep

\* Answering without a commit of accounts or sessions.
LEMMA ReplyKeeps ==
    ASSUME IInv, NEW r \in Requests, Reply(r),
           access' \in SUBSET Emails, tied' \in SUBSET Users,
           UNCHANGED <<users, sessions, server, superAdmin>>
    PROVE  IInv'
  BY IdleKnows, QuietStep DEF Reply

\* Looking at what refers to the account.
LEMMA BeginEraseKeeps ==
    ASSUME IInv, NEW r \in Requests, BeginErase(r)
    PROVE  IInv'
<1> DEFINE q == [pc |-> "erase", endpoint |-> req[r].endpoint, user |-> req[r].user,
                 session |-> req[r].session, late |-> req[r].late,
                 owing |-> req[r].user \in tied]
<1>1. req[r] \in Request /\ Knows(req[r])
  BY DEF IInv, TypeOK, InFlight
<1>2. q \in Request
  BY <1>1 DEF Request
<1>3. Knows(q)
  BY <1>1 DEF BeginErase, Knows, AdmittedPCs
<1>4. req' = [req EXCEPT ![r] = q]
  BY DEF BeginErase
<1>5. /\ access' \in SUBSET Emails /\ tied' \in SUBSET Users
      /\ UNCHANGED <<users, sessions, server, superAdmin>>
  BY DEF BeginErase, IInv, TypeOK
<1> HIDE DEF q
<1> QED  BY <1>2, <1>3, <1>4, <1>5, QuietStep

-----------------------------------------------------------------------------
(***************************************************************************)
(* Steps that commit.                                                      *)
(***************************************************************************)
\* A session more, of an account that exists.
LEMMA CommitSignInKeeps ==
    ASSUME IInv, NEW r \in Requests, CommitSignIn(r)
    PROVE  IInv'
<1> DEFINE u == req[r].user
<1>1. u \in Users /\ users[u] \in Account
  BY DEF CommitSignIn, IInv, TypeOK, InFlight, Knows, Exists
<1>2. PICK s \in Sessions :
         /\ sessions[s] = None
         /\ sessions' = [sessions EXCEPT ![s] = [user_id |-> u, expired |-> FALSE]]
  BY DEF CommitSignIn
<1>3. [user_id |-> u, expired |-> FALSE] \in RefreshSession
  BY <1>1 DEF RefreshSession
<1>4. \A t \in Sessions :
         sessions'[t] = IF t = s THEN [user_id |-> u, expired |-> FALSE] ELSE sessions[t]
  BY <1>2 DEF IInv, TypeOK
<1>5. Persist
  BY <1>2, <1>4, ConstantsAssumption DEF Persist
<1>6. InFlight' /\ req' \in [Requests -> Request]
  BY <1>5, IdleKnows, RequestsKept DEF CommitSignIn, Reply, IInv
<1>7. TypeOK'
  <2>1. access' \subseteq Emails
    BY <1>1 DEF CommitSignIn, IInv, TypeOK, Account
  <2>2. sessions' \in [Sessions -> RefreshSession \cup {None, Gone}]
    BY <1>2, <1>3 DEF IInv, TypeOK
  <2> QED  BY <1>6, <2>1, <2>2 DEF CommitSignIn, IInv, TypeOK
<1>8. Owned'
  BY <1>4 DEF IInv, Owned, Open, Exists, CommitSignIn
<1>9. Administration'
  BY DEF IInv, Administration, Exists, CommitSignIn
<1> QED  BY <1>6, <1>7, <1>8, <1>9 DEF IInv

\* A session less.
LEMMA SessionGone ==
    ASSUME IInv, NEW r \in Requests, NEW s \in Sessions, NEW q \in Request, Knows(q),
           sessions[s] # None, sessions' = [sessions EXCEPT ![s] = Gone],
           req' = [req EXCEPT ![r] = q],
           UNCHANGED <<users, access, tied, server, superAdmin>>
    PROVE  IInv'
<1>1. \A t \in Sessions : sessions'[t] = IF t = s THEN Gone ELSE sessions[t]
  BY DEF IInv, TypeOK
<1>2. Persist
  BY <1>1, ConstantsAssumption DEF Persist
<1>3. InFlight' /\ req' \in [Requests -> Request]
  BY <1>2, RequestsKept DEF IInv
<1>4. TypeOK'
  BY <1>3 DEF IInv, TypeOK
<1>5. Owned'
  BY <1>1 DEF IInv, Owned, Open, Exists
<1>6. Administration'
  BY DEF IInv, Administration, Exists
<1> QED  BY <1>3, <1>4, <1>5, <1>6 DEF IInv

\* Logging out.
LEMMA CommitLogoutKeeps ==
    ASSUME IInv, NEW r \in Requests, CommitLogout(r)
    PROVE  IInv'
<1>1. req[r] \in Request /\ Knows(req[r])
  BY DEF IInv, TypeOK, InFlight
<1>2. req[r].session \in Sessions /\ sessions[req[r].session] # None
  BY <1>1 DEF CommitLogout, Knows
<1>3. Moved(r, "log") \in Request /\ Knows(Moved(r, "log"))
  BY <1>1 DEF CommitLogout, Moved, Request, Knows, AdmittedPCs
<1>4. req' = [req EXCEPT ![r] = Moved(r, "log")]
  BY DEF CommitLogout, Goto, Moved
<1> QED  BY <1>2, <1>3, <1>4, SessionGone DEF CommitLogout

\* Discarding an expired session.
LEMMA CommitDiscardKeeps ==
    ASSUME IInv, NEW r \in Requests, CommitDiscard(r)
    PROVE  IInv'
<1>1. req[r] \in Request /\ Knows(req[r])
  BY DEF IInv, TypeOK, InFlight
<1>2. req[r].session \in Sessions /\ sessions[req[r].session] # None
  BY <1>1 DEF CommitDiscard, Knows
<1> QED  BY <1>2, IdleKnows, SessionGone DEF CommitDiscard, Reply

\* What the deletion of the accounts us leaves: theirs and nothing else goes.
LEMMA Removed ==
    ASSUME IInv, NEW us \in SUBSET Users, Remove(us)
    PROVE  /\ Persist
           /\ users' \in [Users -> Account \cup {None, Gone}]
           /\ sessions' \in [Sessions -> RefreshSession \cup {None, Gone}]
           /\ tied' \subseteq Users
           /\ Owned'
           /\ \A u \in Users : Exists(u)' <=> Exists(u) /\ u \notin us
           /\ \A u \in Users : Exists(u)' => users'[u] = users[u]
<1>1. \A u \in Users : users'[u] = IF u \in us THEN Gone ELSE users[u]
  BY DEF Remove
<1>2. \A s \in Sessions :
         sessions'[s] = IF Open(s) /\ sessions[s].user_id \in us THEN Gone ELSE sessions[s]
  BY DEF Remove
<1>3. Persist
  BY <1>2, ConstantsAssumption DEF Persist, Open
<1>4. /\ users' \in [Users -> Account \cup {None, Gone}]
      /\ sessions' \in [Sessions -> RefreshSession \cup {None, Gone}]
      /\ tied' \subseteq Users
  BY DEF Remove, IInv, TypeOK
<1>5. \A u \in Users : Exists(u)' <=> Exists(u) /\ u \notin us
  BY <1>1 DEF Exists
<1>6. \A u \in Users : Exists(u)' => users'[u] = users[u]
  BY <1>1 DEF Exists
<1>7. Owned'
  <2> SUFFICES ASSUME NEW s \in Sessions, Open(s)'
               PROVE  Exists(sessions[s].user_id)'
    BY DEF Owned
  <2>1. /\ Open(s) /\ sessions[s].user_id \notin us /\ sessions'[s] = sessions[s]
    BY <1>2 DEF Open
  <2>2. Exists(sessions[s].user_id) /\ sessions[s].user_id \in Users
    BY <2>1 DEF IInv, Owned, TypeOK, Open, RefreshSession
  <2>3. PICK u \in Users : u = sessions[s].user_id
    BY <2>2
  <2>4. Exists(u)'
    BY <1>5, <2>1, <2>2, <2>3
  <2> QED  BY <2>1, <2>3, <2>4 DEF Exists
<1> QED  BY <1>3, <1>4, <1>5, <1>6, <1>7

\* Deleting an account.
LEMMA CommitEraseKeeps ==
    ASSUME IInv, NEW r \in Requests, CommitErase(r)
    PROVE  IInv'
<1>1. req[r].user \in Users
  BY DEF CommitErase, IInv, TypeOK, InFlight, Knows
<1>2. PICK us \in SUBSET Users : us = {req[r].user} /\ Remove(us)
  BY <1>1 DEF CommitErase
<1>3. InFlight' /\ req' \in [Requests -> Request]
  BY <1>2, Removed, IdleKnows, RequestsKept DEF CommitErase, Reply, IInv
<1>4. TypeOK'
  BY <1>2, <1>3, Removed DEF CommitErase, IInv, TypeOK
<1>5. Administration'
  BY <1>2, Removed DEF CommitErase, IInv, Administration
<1> QED  BY <1>2, <1>3, <1>4, <1>5, Removed DEF IInv

\* Making way for the administrator.
LEMMA ClearAdminsKeeps ==
    ASSUME IInv, ClearAdmins
    PROVE  IInv'
<1>1. PICK us \in SUBSET Users :
         /\ us = {u \in Users :
                     Exists(u) /\ (users[u].admin \/ users[u].email = superAdmin)}
         /\ Remove(us)
  BY DEF ClearAdmins
<1>2. InFlight'
  BY <1>1, Removed, RequestsStay DEF ClearAdmins, IInv
<1>3. TypeOK'
  BY <1>1, Removed DEF ClearAdmins, IInv, TypeOK
<1>4. Administration'
  BY <1>1, Removed DEF ClearAdmins, IInv, Administration
<1> QED  BY <1>1, <1>2, <1>3, <1>4, Removed DEF IInv

\* An account more.
LEMMA UserAdded ==
    ASSUME IInv, NEW u \in Users, NEW a \in Account, users[u] = None,
           users' = [users EXCEPT ![u] = a], server' = "up",
           \A v \in Users : Exists(v) =>
              /\ users[v].email # a.email
              /\ users[v].admin => ~a.admin /\ users[v].email = superAdmin,
           a.admin => a.email = superAdmin,
           UNCHANGED <<sessions, access, tied, req, superAdmin>>
    PROVE  IInv'
<1>1. \A v \in Users : users'[v] = IF v = u THEN a ELSE users[v]
  BY DEF IInv, TypeOK
<1>2. \A v \in Users : Exists(v)' <=> (v = u \/ Exists(v))
  BY <1>1, ConstantsAssumption DEF Exists
<1>3. TypeOK'
  BY DEF IInv, TypeOK
<1>4. InFlight'
  BY DEF IInv, InFlight, Knows, Open
<1>5. Owned'
  <2> SUFFICES ASSUME NEW s \in Sessions, Open(s) PROVE Exists(sessions[s].user_id)'
    BY DEF Owned, Open, Exists
  <2>1. PICK v \in Users : v = sessions[s].user_id /\ Exists(v)
    BY DEF IInv, Owned, TypeOK, Open, RefreshSession
  <2>2. Exists(v)'
    BY <1>2, <2>1
  <2> QED  BY <2>1, <2>2 DEF Exists
<1>6. Administration'
  BY <1>1, <1>2 DEF IInv, Administration
<1> QED  BY <1>3, <1>4, <1>5, <1>6 DEF IInv

\* Registering.
LEMMA RegisterKeeps ==
    ASSUME IInv, NEW u \in Users, NEW e \in Emails, Register(u, e)
    PROVE  IInv'
<1> DEFINE a == [email |-> e, admin |-> FALSE]
<1>1. a \in Account
  BY DEF Account
<1>2. \A v \in Users : Exists(v) =>
         /\ users[v].email # a.email
         /\ users[v].admin => ~a.admin /\ users[v].email = superAdmin
  BY DEF Register, IInv, Administration
<1>3. a.admin => a.email = superAdmin
  OBVIOUS
<1>4. /\ users[u] = None /\ users' = [users EXCEPT ![u] = a] /\ server' = "up"
      /\ UNCHANGED <<sessions, access, tied, req, superAdmin>>
  BY DEF Register
<1> HIDE DEF a
<1> QED  BY <1>1, <1>2, <1>3, <1>4, UserAdded

\* Putting the administrator in place.
LEMMA InsertAdminKeeps ==
    ASSUME IInv, NEW u \in Users, InsertAdmin(u)
    PROVE  IInv'
<1> DEFINE a == [email |-> superAdmin, admin |-> TRUE]
<1>1. a \in Account
  BY DEF Account, IInv, TypeOK
<1>2. \A v \in Users : Exists(v) =>
         /\ users[v].email # a.email
         /\ users[v].admin => ~a.admin /\ users[v].email = superAdmin
  BY DEF InsertAdmin, IInv, Administration
<1>3. a.admin => a.email = superAdmin
  OBVIOUS
<1>4. /\ users[u] = None /\ users' = [users EXCEPT ![u] = a] /\ server' = "up"
      /\ UNCHANGED <<sessions, access, tied, req, superAdmin>>
  BY DEF InsertAdmin
<1> HIDE DEF a
<1> QED  BY <1>1, <1>2, <1>3, <1>4, UserAdded

\* The administrator is in place already.
LEMMA KeepAdminKeeps ==
    ASSUME IInv, KeepAdmin
    PROVE  IInv'
<1>1. TypeOK' /\ Owned' /\ InFlight'
  BY DEF KeepAdmin, IInv, TypeOK, Owned, InFlight, Knows, Open, Exists
<1>2. PICK u \in Users : SuperAdmin(u)
  BY DEF KeepAdmin
<1>3. Administration'
  BY <1>2 DEF KeepAdmin, IInv, Administration, Exists, SuperAdmin
<1> QED  BY <1>1, <1>3 DEF IInv

\* A restart.
LEMMA RestartKeeps ==
    ASSUME IInv, NEW e \in Emails, Restart(e)
    PROVE  IInv'
<1>1. TypeOK'
  BY IdleKnows DEF Restart, IInv, TypeOK
<1>2. Owned' /\ Administration'
  BY DEF Restart, IInv, Owned, Administration, Open, Exists
<1>3. InFlight'
  <2>1. \A r \in Requests : req'[r] = Idle
    BY DEF Restart
  <2> QED  BY <2>1 DEF InFlight, Knows, Idle, AdmittedPCs
<1> QED  BY <1>1, <1>2, <1>3 DEF IInv

\* A session that expires stays its account's.
LEMMA ExpirePersists ==
    ASSUME IInv, NEW s \in Sessions, ExpireSession(s)
    PROVE  Persist
<1> DEFINE row == [user_id |-> sessions[s].user_id, expired |-> TRUE]
<1>1. /\ sessions[s] \in RefreshSession /\ Open(s)
      /\ \A t \in Sessions : sessions'[t] = IF t = s THEN row ELSE sessions[t]
  BY DEF IInv, TypeOK, ExpireSession, Open
<1>2. row \in RefreshSession /\ row.user_id = sessions[s].user_id
  BY <1>1 DEF RefreshSession
<1>3. row \notin {None, Gone} /\ sessions[s] \notin {None, Gone}
  BY <1>1, <1>2, ConstantsAssumption DEF Open
<1> HIDE DEF row
<1> QED  BY <1>1, <1>2, <1>3 DEF Persist

\* A session expires.
LEMMA ExpireSessionKeeps ==
    ASSUME IInv, NEW s \in Sessions, ExpireSession(s)
    PROVE  IInv'
<1> DEFINE row == [user_id |-> sessions[s].user_id, expired |-> TRUE]
<1>1. /\ sessions[s] \in RefreshSession /\ Open(s)
      /\ \A t \in Sessions : sessions'[t] =
            IF t = s THEN row ELSE sessions[t]
  BY DEF IInv, TypeOK, ExpireSession, Open
<1>2. Persist
  BY ExpirePersists
<1>3. InFlight'
  BY <1>2, RequestsStay DEF IInv, ExpireSession
<1>4. TypeOK'
  BY <1>1 DEF IInv, TypeOK, ExpireSession, RefreshSession
<1>5. Owned' /\ Administration'
  BY <1>1 DEF IInv, Owned, Administration, Open, Exists, ExpireSession
<1> QED  BY <1>3, <1>4, <1>5 DEF IInv

-----------------------------------------------------------------------------
(***************************************************************************)
(* Theorems.                                                               *)
(***************************************************************************)
\* Every step preserves the invariant.
LEMMA NextIInv == IInv /\ [Next]_vars => IInv'
<1> SUFFICES ASSUME IInv, [Next]_vars PROVE IInv'
  OBVIOUS
<1>0. access \in SUBSET Emails /\ tied \in SUBSET Users
  BY DEF IInv, TypeOK
<1>1. ASSUME NEW u \in Users, NEW e \in Emails, Register(u, e)
      PROVE  IInv'
  BY <1>1, RegisterKeeps
<1>2. ASSUME NEW r \in Requests, NEW u \in Users, BeginSignIn(r, u)
      PROVE  IInv'
  BY <1>2, FindKeeps DEF BeginSignIn
<1>3. ASSUME NEW r \in Requests, CommitSignIn(r)
      PROVE  IInv'
  BY <1>3, CommitSignInKeeps
<1>4. ASSUME NEW r \in Requests, NEW u \in Users, NEW s \in Sessions, NEW p \in Endpoints,
             BeginRequest(r, u, s, p)
      PROVE  IInv'
  <2>1. s # None
    BY ConstantsAssumption
  <2> QED  BY <1>4, <2>1, FindKeeps DEF BeginRequest
<1>5. ASSUME NEW r \in Requests, Authenticate(r)
      PROVE  IInv'
  BY <1>5, <1>0, GotoKeeps DEF Authenticate
<1>6. ASSUME NEW r \in Requests, Handle(r)
      PROVE  IInv'
  <2>1. req[r].user \in Users
    BY <1>6 DEF Handle, IInv, InFlight, Knows
  <2>2. tied' \in SUBSET Users
    BY <1>6, <1>0, <2>1 DEF Handle
  <2>3. req[r].pc \in AdmittedPCs
    BY <1>6 DEF Handle, AdmittedPCs
  <2> QED  BY <1>6, <1>0, <2>2, <2>3, GotoKeeps DEF Handle
<1>7. ASSUME NEW r \in Requests, BeginLogout(r)
      PROVE  IInv'
  <2>1. req[r].pc \in AdmittedPCs
    BY <1>7 DEF BeginLogout, AdmittedPCs
  <2>2. PICK pc \in {"leave", "log"} : Goto(r, pc)
    BY <1>7 DEF BeginLogout
  <2> QED  BY <1>7, <1>0, <2>1, <2>2, GotoKeeps DEF BeginLogout
<1>8. ASSUME NEW r \in Requests, CommitLogout(r)
      PROVE  IInv'
  BY <1>8, CommitLogoutKeeps
<1>9. ASSUME NEW r \in Requests, BeginErase(r)
      PROVE  IInv'
  BY <1>9, BeginEraseKeeps
<1>10. ASSUME NEW r \in Requests, CommitErase(r)
       PROVE  IInv'
  BY <1>10, CommitEraseKeeps
<1>11. ASSUME NEW r \in Requests, Log(r)
       PROVE  IInv'
  <2>1. req[r].user \in Users
    BY <1>11 DEF Log, IInv, InFlight, Knows
  <2> QED  BY <1>11, <1>0, <2>1, ReplyKeeps DEF Log
<1>12. ASSUME NEW r \in Requests, NEW u \in Users, NEW s \in Sessions,
              BeginRefresh(r, u, s)
       PROVE  IInv'
  <2>1. s # None
    BY ConstantsAssumption
  <2> QED  BY <1>12, <2>1, FindKeeps DEF BeginRefresh
<1>13. ASSUME NEW r \in Requests, Renew(r)
       PROVE  IInv'
  <2>1. users[req[r].user] \in Account
    BY <1>13 DEF Renew, Exists, IInv, TypeOK, InFlight, Knows
  <2>2. access' \in SUBSET Emails
    BY <1>13, <1>0, <2>1 DEF Renew, Account
  <2> QED  BY <1>13, <1>0, <2>2, ReplyKeeps DEF Renew
<1>14. ASSUME NEW r \in Requests, BeginDiscard(r)
       PROVE  IInv'
  BY <1>14, <1>0, GotoKeeps DEF BeginDiscard
<1>15. ASSUME NEW r \in Requests, CommitDiscard(r)
       PROVE  IInv'
  BY <1>15, CommitDiscardKeeps
<1>16. ASSUME NEW r \in Requests, Fail(r)
       PROVE  IInv'
  BY <1>16, <1>0, ReplyKeeps DEF Fail
<1>17. ASSUME NEW s \in Sessions, ExpireSession(s)
       PROVE  IInv'
  BY <1>17, ExpireSessionKeeps
<1>18. ASSUME NEW e \in Emails, ExpireAccess(e)
       PROVE  IInv'
  BY <1>18 DEF ExpireAccess, IInv, TypeOK, Owned, Administration, InFlight, Knows,
               Open, Exists
<1>19. ASSUME NEW e \in Emails, Restart(e)
       PROVE  IInv'
  BY <1>19, RestartKeeps
<1>20. ASSUME NEW u \in Users, InsertAdmin(u)
       PROVE  IInv'
  BY <1>20, InsertAdminKeeps
<1>21. CASE UNCHANGED vars
  BY <1>21 DEF vars, IInv, TypeOK, Owned, Administration, InFlight, Knows, Open, Exists
<1> QED
  BY <1>1, <1>2, <1>3, <1>4, <1>5, <1>6, <1>7, <1>8, <1>9, <1>10, <1>11, <1>12, <1>13,
     <1>14, <1>15, <1>16, <1>17, <1>18, <1>19, <1>20, <1>21, KeepAdminKeeps,
     ClearAdminsKeeps DEF Next

\* The invariant of the sessions, the administrators and the requests in flight.
THEOREM SessionsInvariant == Spec => []IInv
  BY InitIInv, NextIInv, PTL DEF Spec

\* Every variable keeps its type.
THEOREM SessionsTypeCorrect == Spec => []TypeOK
<1>1. IInv => TypeOK
  BY DEF IInv
<1> QED  BY <1>1, SessionsInvariant, PTL

\* No token of one account gets in with the session of another, and no session
\* outlives its account.
THEOREM SessionsStayApart == Spec => []SessionsServeTheirAccount
<1>1. IInv => SessionsServeTheirAccount
  BY DEF IInv, Owned, InFlight, Knows, AdmittedPCs, SessionsServeTheirAccount, Admitted
<1> QED  BY <1>1, SessionsInvariant, PTL

\* A request that comes after its session was deleted is never let in.
THEOREM RevokedNeverAdmitted == Spec => []RevokedStaysOut
<1>1. IInv => RevokedStaysOut
  BY DEF IInv, InFlight, Knows, AdmittedPCs, RevokedStaysOut, Admitted
<1> QED  BY <1>1, SessionsInvariant, PTL

\* One administrator at most while requests are served, at the configured address,
\* wherever initialize_admin was interrupted.
THEOREM OneAdministrator == Spec => []OneAdmin
<1>1. IInv => OneAdmin
  BY DEF IInv, Administration, OneAdmin
<1> QED  BY <1>1, SessionsInvariant, PTL

\* Accounts go only as OnlyUnusedAccountsErased says.
LEMMA ErasedKeeps ==
    ASSUME IInv, [Next]_vars, NEW u \in Users, Exists(u), ~Exists(u)'
    PROVE  \/ server = "seeding"
           \/ \E r \in Requests : /\ req[r].pc = "erase" /\ req[r].user = u
                                  /\ ~req[r].owing
<1>0. users' # users
  BY DEF Exists
<1>1. ASSUME NEW v \in Users, NEW e \in Emails, Register(v, e)
      PROVE  FALSE
  <2>1. v # u /\ users'[u] = users[u]
    BY <1>1, ConstantsAssumption DEF Register, Exists, IInv, TypeOK
  <2> QED  BY <2>1 DEF Exists
<1>2. ASSUME NEW v \in Users, InsertAdmin(v)
      PROVE  FALSE
  <2>1. v # u /\ users'[u] = users[u]
    BY <1>2, ConstantsAssumption DEF InsertAdmin, Exists, IInv, TypeOK
  <2> QED  BY <2>1 DEF Exists
<1>3. ASSUME NEW r \in Requests, CommitErase(r)
      PROVE  /\ req[r].pc = "erase" /\ req[r].user = u
             /\ ~req[r].owing
  <2>1. users'[u] = IF u = req[r].user THEN Gone ELSE users[u]
    BY <1>3 DEF CommitErase, Remove
  <2>2. req[r].user = u
    BY <2>1 DEF Exists
  <2> QED  BY <1>3, <2>2 DEF CommitErase, IInv, InFlight, Knows
<1>4. ASSUME ClearAdmins
      PROVE  server = "seeding"
  BY <1>4 DEF ClearAdmins
<1>5. ASSUME NEW r \in Requests,
             \/ \E v \in Users : BeginSignIn(r, v)
             \/ CommitSignIn(r)
             \/ \E v \in Users, s \in Sessions, p \in Endpoints : BeginRequest(r, v, s, p)
             \/ Authenticate(r) \/ Handle(r) \/ BeginLogout(r) \/ CommitLogout(r)
             \/ BeginErase(r) \/ Log(r)
             \/ \E v \in Users, s \in Sessions : BeginRefresh(r, v, s)
             \/ Renew(r) \/ BeginDiscard(r) \/ CommitDiscard(r) \/ Fail(r)
      PROVE  users' = users
  BY <1>5 DEF BeginSignIn, CommitSignIn, BeginRequest, Authenticate, Handle, BeginLogout,
              CommitLogout, BeginErase, Log, BeginRefresh, Renew, BeginDiscard,
              CommitDiscard, Fail, Find
<1>6. ASSUME \/ \E s \in Sessions : ExpireSession(s)
             \/ \E e \in Emails : ExpireAccess(e) \/ Restart(e)
             \/ KeepAdmin \/ UNCHANGED vars
      PROVE  users' = users
  BY <1>6 DEF ExpireSession, ExpireAccess, Restart, KeepAdmin, vars
<1> QED  BY <1>0, <1>1, <1>2, <1>3, <1>4, <1>5, <1>6 DEF Next

\* An account is deleted only by a start of the server or by a request that found
\* nothing recorded of it.
THEOREM AccountsStay == Spec => OnlyUnusedAccountsErased
<1> DEFINE Step == \A u \in Users : Exists(u) /\ ~Exists(u)' =>
                      \/ server = "seeding"
                      \/ \E r \in Requests :
                            /\ req[r].pc = "erase" /\ req[r].user = u
                            /\ ~req[r].owing
<1>1. IInv /\ [Next]_vars => [Step]_vars
  BY ErasedKeeps
<1>2. [][Step]_vars <=> OnlyUnusedAccountsErased
  BY DEF OnlyUnusedAccountsErased
<1> HIDE DEF Step
<1> QED  BY <1>1, <1>2, SessionsInvariant, PTL DEF Spec

-----------------------------------------------------------------------------
(***************************************************************************)
(* What becomes of one session, and the insert that initialize_admin makes *)
(* with no test of the address.                                            *)
(***************************************************************************)
\* A step that puts a deleted row in the place of one session.
LEMMA GonePersists ==
    ASSUME IInv, NEW s \in Sessions, sessions[s] # None,
           sessions' = [sessions EXCEPT ![s] = Gone]
    PROVE  Persist
<1>1. \A t \in Sessions : sessions'[t] = IF t = s THEN Gone ELSE sessions[t]
  BY DEF IInv, TypeOK
<1> QED  BY <1>1, ConstantsAssumption DEF Persist

\* Every step lets sessions persist.
LEMMA NextPersist ==
    ASSUME IInv, [Next]_vars
    PROVE  Persist
<1>1. ASSUME UNCHANGED sessions
      PROVE  Persist
  BY <1>1, ConstantsAssumption DEF Persist
<1>2. ASSUME NEW r \in Requests, CommitSignIn(r)
      PROVE  Persist
  <2>1. PICK s \in Sessions :
           /\ sessions[s] = None
           /\ sessions' = [sessions EXCEPT ![s] =
                              [user_id |-> req[r].user, expired |-> FALSE]]
    BY <1>2 DEF CommitSignIn
  <2>2. \A t \in Sessions : t # s => sessions'[t] = sessions[t]
    BY <2>1 DEF IInv, TypeOK
  <2> QED  BY <2>1, <2>2, ConstantsAssumption DEF Persist
<1>3. ASSUME NEW r \in Requests, CommitLogout(r) \/ CommitDiscard(r)
      PROVE  Persist
  <2>1. req[r].session \in Sessions /\ sessions[req[r].session] # None
    BY <1>3 DEF CommitLogout, CommitDiscard, IInv, InFlight, Knows
  <2>2. sessions' = [sessions EXCEPT ![req[r].session] = Gone]
    BY <1>3 DEF CommitLogout, CommitDiscard
  <2> QED  BY <2>1, <2>2, GonePersists
<1>4. ASSUME NEW r \in Requests, CommitErase(r)
      PROVE  Persist
  <2>1. PICK us \in SUBSET Users : Remove(us)
    BY <1>4 DEF CommitErase, IInv, InFlight, Knows
  <2> QED  BY <2>1, Removed
<1>5. ASSUME ClearAdmins
      PROVE  Persist
  <2>1. PICK us \in SUBSET Users : Remove(us)
    BY <1>5 DEF ClearAdmins
  <2> QED  BY <2>1, Removed
<1>6. ASSUME NEW s \in Sessions, ExpireSession(s)
      PROVE  Persist
  BY <1>6, ExpirePersists
<1>7. ASSUME NEW r \in Requests,
             \/ \E u \in Users : BeginSignIn(r, u)
             \/ \E u \in Users, s \in Sessions, p \in Endpoints : BeginRequest(r, u, s, p)
             \/ Authenticate(r) \/ Handle(r) \/ BeginLogout(r) \/ BeginErase(r) \/ Log(r)
             \/ \E u \in Users, s \in Sessions : BeginRefresh(r, u, s)
             \/ Renew(r) \/ BeginDiscard(r) \/ Fail(r)
      PROVE  UNCHANGED sessions
  BY <1>7 DEF BeginSignIn, BeginRequest, Authenticate, Handle, BeginLogout, BeginErase,
              Log, BeginRefresh, Renew, BeginDiscard, Fail, Find
<1>8. ASSUME \/ \E u \in Users, e \in Emails : Register(u, e)
             \/ \E e \in Emails : ExpireAccess(e) \/ Restart(e)
             \/ \E u \in Users : InsertAdmin(u)
             \/ KeepAdmin \/ UNCHANGED vars
      PROVE  UNCHANGED sessions
  BY <1>8 DEF Register, ExpireAccess, Restart, InsertAdmin, KeepAdmin, vars
<1> QED  BY <1>1, <1>2, <1>3, <1>4, <1>5, <1>6, <1>7, <1>8 DEF Next

\* A session never passes to another account, and a deleted one never returns, under
\* logouts, refreshes, deletions of accounts and restarts in any order.
THEOREM SessionsPersist == Spec => [][Persist]_vars
<1>1. IInv /\ [Next]_vars => [Persist]_vars
  BY NextPersist
<1> QED  BY <1>1, SessionsInvariant, PTL DEF Spec

\* Between the two commits of initialize_admin no account is an administrator's or
\* holds the configured address.
ReadyToSeed ==
    server = "cleared" =>
       \A u \in Users : Exists(u) => ~users[u].admin /\ users[u].email # superAdmin

\* No two accounts have one address.
AddressesDiffer ==
    \A u, v \in Users :
       Exists(u) /\ Exists(v) /\ users[u].email = users[v].email => u = v

\* initialize_admin inserts the administrator without a look at the address, and still
\* never meets the UNIQUE constraint, whichever administrators former starts left.
THEOREM SeedingNeverCollides == Spec => [](AddressesDiffer /\ ReadyToSeed)
<1>1. IInv => AddressesDiffer /\ ReadyToSeed
  BY DEF IInv, Administration, AddressesDiffer, ReadyToSeed
<1> QED  BY <1>1, SessionsInvariant, PTL
=============================================================================
