--------------------------- MODULE EmailCodesProofs ---------------------------
(***************************************************************************)
(* Theorems about EmailCodes, for any number of addresses, codes, clients, *)
(* rows and restarts.  The properties are not inductive: the cleanup loop  *)
(* deletes by primary key two steps after its select, and a handler acts   *)
(* several commits after the code it was given was seen.  The              *)
(* strengthening says what a loop and a request in flight still know.      *)
(***************************************************************************)
EXTENDS EmailCodes, TLAPS

\* email_address and the primary key are UNIQUE; keys are handed out in order
Keys ==
    /\ \A w1, w2 \in rows : w1.email = w2.email \/ w1.id = w2.id => w1 = w2
    /\ \A w \in rows : 0 < w.id /\ w.id < nextId /\ w.boot <= boot
    /\ \A t \in tasks : t.found < nextId
    /\ \A c \in Clients : req[c].id < nextId

\* A loop about to delete holds the key of a row that is expired or gone
FoundExpired == \A t \in tasks, w \in rows : t.found = w.id => w.expired

\* A request on its way to store a code: no row it may overwrite has expired, and
\* the row it loaded, if still there, is of its address and reason
Asking(q) ==
    /\ q.pc \in {"taken", "lookup", "reselect", "store"} =>
          q.email \in Emails /\ q.reason \in CodeReasons
    /\ q.pc \in {"taken", "lookup", "reselect"} => q.id = 0
    /\ q.pc \in {"reselect", "store"} =>
          /\ q.code \in Codes
          /\ \A w \in rows : w.email = q.email /\ w.reason = q.reason => ~w.expired
    /\ q.pc = "store" =>
          \A w \in rows : w.id = q.id => w.email = q.email /\ w.reason = q.reason

\* A request past the decorator, or past the confirmation row: what it acts on
\* has been proved, and the row it read, if still there, is of that purpose
Acting(q) ==
    /\ q.pc \in {"spend", "register", "recover", "granting", "grant",
                 "auth", "apply", "discard"} => q.email \in Emails
    /\ q.pc = "spend" =>
          /\ q.reason \in CodeReasons /\ <<q.email, q.reason>> \in proved
          /\ \A w \in rows : w.id = q.id => w.email = q.email /\ w.reason = q.reason
    /\ q.pc = "register" => <<q.email, "email_verification">> \in proved
    /\ q.pc = "recover" => <<q.email, "recovery_email_verification">> \in proved
    /\ q.pc \in {"granting", "grant", "auth", "apply", "discard"} =>
          <<q.email, "password_change">> \in proved
    /\ q.pc \in {"auth", "apply", "discard"} =>
          \A w \in rows : w.id = q.id =>
              w.email = q.email /\ w.reason = "password_change_confirmation"

InFlight == \A c \in Clients : Asking(req[c]) /\ Acting(req[c])

IInv ==
    /\ TypeOK
    /\ Keys
    /\ FoundExpired
    /\ InFlight
    /\ CodesWatched
    /\ EffectsProved

-----------------------------------------------------------------------------
\* No codes, no requests, no tasks: the invariant holds at the first start.
THEOREM InitIInv == Init => IInv
<1> SUFFICES ASSUME Init PROVE IInv
  OBVIOUS
<1>1. Idle \in Request /\ Idle.pc = "idle" /\ Idle.id = 0
  BY DEF Idle, Request, Positions
<1>2. \A c \in Clients : req[c] = Idle
  BY DEF Init
<1>3. TypeOK
  BY <1>1, ConstantsAssumption DEF Init, TypeOK
<1>4. Keys
  BY <1>1, <1>2 DEF Init, Keys
<1>5. FoundExpired /\ CodesWatched
  BY DEF Init, FoundExpired, CodesWatched
<1>6. InFlight
  <2>1. ASSUME NEW c \in Clients PROVE Asking(req[c]) /\ Acting(req[c])
    <3>1. req[c].pc = "idle"
      BY <1>1, <1>2
    <3> QED
      BY <3>1 DEF Asking, Acting
  <2> QED
    BY <2>1 DEF InFlight
<1>7. EffectsProved
  BY DEF Init, EffectsProved
<1> QED
  BY <1>3, <1>4, <1>5, <1>6, <1>7 DEF IInv

-----------------------------------------------------------------------------
(***************************************************************************)
(* Steps of a request that write no code: they may delete rows, prove a    *)
(* code, or leave an effect, and one request changes.                      *)
(***************************************************************************)
LEMMA ClientStep ==
    ASSUME IInv, NEW c \in Clients, NEW q \in Request, q.id < nextId,
           req' = [req EXCEPT ![c] = q],
           rows' \subseteq rows, proved \subseteq proved',
           proved' \subseteq Emails \X CodeReasons,
           users' \subseteq Emails, changed' \subseteq Emails,
           recovery' \in [Emails -> Emails \cup {None}],
           UNCHANGED <<nextId, tasks, boot>>,
           Asking(req[c])', Acting(req[c])', EffectsProved'
    PROVE  IInv'
<1>1. TypeOK'
  BY DEF IInv, TypeOK
<1>2. req'[c] = q /\ \A d \in Clients \ {c} : req'[d] = req[d]
  BY DEF IInv, TypeOK
<1>3. Keys'
  BY <1>2 DEF IInv, Keys
<1>4. FoundExpired'
  BY DEF IInv, FoundExpired
<1>5. InFlight'
  <2>1. SUFFICES ASSUME NEW d \in Clients \ {c} PROVE Asking(req[d])' /\ Acting(req[d])'
    BY DEF InFlight
  <2>2. Asking(req[d]) /\ Acting(req[d])
    BY DEF IInv, InFlight
  <2>3. Asking(req[d])'
    BY <1>2, <2>2 DEF Asking
  <2>4. Acting(req[d])'
    BY <1>2, <2>2 DEF Acting
  <2> QED
    BY <2>3, <2>4
<1>6. CodesWatched'
  BY DEF IInv, CodesWatched
<1> QED
  BY <1>1, <1>3, <1>4, <1>5, <1>6 DEF IInv

\* The request ends
LEMMA ReplyStep ==
    ASSUME IInv, NEW c \in Clients, Reply(c),
           rows' \subseteq rows, UNCHANGED <<nextId, tasks, boot, proved>>,
           users' \subseteq Emails, changed' \subseteq Emails,
           recovery' \in [Emails -> Emails \cup {None}], EffectsProved'
    PROVE  IInv'
<1>1. Idle \in Request /\ Idle.pc = "idle" /\ Idle.id = 0
  BY DEF Idle, Request, Positions
<1>2. req' = [req EXCEPT ![c] = Idle] /\ req'[c] = Idle
  BY DEF Reply, IInv, TypeOK
<1>3. Asking(req[c])' /\ Acting(req[c])'
  BY <1>1, <1>2 DEF Asking, Acting
<1>4. Idle.id < nextId
  BY <1>1 DEF IInv, TypeOK
<1>5. proved' \subseteq Emails \X CodeReasons
  BY DEF IInv, TypeOK
<1> QED
  BY <1>1, <1>2, <1>3, <1>4, <1>5, ClientStep

\* The request moves to position p and keeps what it holds
LEMMA GotoStep ==
    ASSUME IInv, NEW c \in Clients, NEW p \in Positions, Goto(c, p),
           rows' \subseteq rows,
           UNCHANGED <<nextId, tasks, boot, proved, users, changed, recovery>>,
           Asking(req[c])', Acting(req[c])'
    PROVE  IInv'
<1> DEFINE q == [req[c] EXCEPT !.pc = p]
<1>1. req[c] \in Request
  BY DEF IInv, TypeOK
<1>2. q \in Request /\ q.id = req[c].id
  BY <1>1 DEF Request
<1>3. req' = [req EXCEPT ![c] = q]
  BY DEF Goto
<1>4. q.id < nextId
  BY <1>2 DEF IInv, Keys
<1>5. EffectsProved'
  BY DEF IInv, EffectsProved
<1> HIDE DEF q
<1> QED
  BY <1>2, <1>3, <1>4, <1>5, ClientStep DEF IInv, TypeOK

\* What Goto leaves of the request
LEMMA GotoKeeps ==
    ASSUME TypeOK, NEW c \in Clients, NEW p \in Positions, Goto(c, p)
    PROVE  /\ req'[c].pc = p
           /\ req'[c].email = req[c].email
           /\ req'[c].reason = req[c].reason
           /\ req'[c].who = req[c].who
           /\ req'[c].code = req[c].code
           /\ req'[c].id = req[c].id
<1>1. req[c] \in Request
  BY DEF TypeOK
<1>2. req'[c] = [req[c] EXCEPT !.pc = p]
  BY DEF Goto, TypeOK
<1> QED
  BY <1>1, <1>2 DEF Request

\* A new request for a code
LEMMA StartStep ==
    ASSUME IInv, NEW c \in Clients, NEW p \in {"taken", "lookup"}, NEW e \in Emails,
           NEW r \in CodeReasons, Start(c, p, e, r),
           UNCHANGED <<rows, nextId, users, recovery, tasks, boot, proved, changed>>
    PROVE  IInv'
<1> DEFINE q == [Idle EXCEPT !.pc = p, !.email = e, !.reason = r]
<1>1. q \in Request /\ q.pc = p /\ q.email = e /\ q.reason = r /\ q.id = 0
  BY DEF Idle, Request, Positions
<1>2. req' = [req EXCEPT ![c] = q] /\ req'[c] = q
  BY DEF Start, IInv, TypeOK
<1>3. q.id < nextId
  BY <1>1 DEF IInv, TypeOK
<1> HIDE DEF q
<1>4. Asking(req[c])' /\ Acting(req[c])'
  BY <1>1, <1>2 DEF Asking, Acting
<1>5. EffectsProved'
  BY DEF IInv, EffectsProved
<1> QED
  BY <1>1, <1>2, <1>3, <1>4, <1>5, ClientStep DEF IInv, TypeOK

-----------------------------------------------------------------------------
\* A request for a code has checked the accounts only.
LEMMA AskKeeps ==
    ASSUME IInv, NEW c \in Clients, NEW e \in Emails,
           \/ AskSignup(c, e)
           \/ AskReset(c, e)
           \/ \E who \in Emails : AskRecovery(c, who, e)
    PROVE  IInv'
<1>1. CASE AskSignup(c, e)
  BY <1>1, StartStep DEF AskSignup, CodeReasons
<1>2. CASE AskReset(c, e)
  BY <1>2, StartStep DEF AskReset, CodeReasons
<1>3. ASSUME NEW who \in Emails, AskRecovery(c, who, e) PROVE IInv'
  BY <1>3, StartStep DEF AskRecovery, CodeReasons
<1> QED
  BY <1>1, <1>2, <1>3

\* The steps that end a request and leave everything else alone.
LEMMA PlainReply ==
    ASSUME IInv, NEW c \in Clients, Reply(c),
           UNCHANGED <<rows, nextId, users, recovery, tasks, boot, proved, changed>>
    PROVE  IInv'
<1>1. EffectsProved'
  BY DEF IInv, EffectsProved
<1> QED
  BY <1>1, ReplyStep DEF IInv, TypeOK

\* The 302 answer to a second request for a live code.
LEMMA RefusedKeeps ==
    ASSUME IInv, NEW c \in Clients, AskRefused(c) \/ StoreFails(c)
    PROVE  IInv'
BY PlainReply DEF AskRefused, StoreFails

\* initiate_recovery_email's check of the two addresses.
LEMMA CheckRecoveryKeeps ==
    ASSUME IInv, NEW c \in Clients, CheckRecovery(c)
    PROVE  IInv'
<1>1. CASE Reply(c)
  BY <1>1, PlainReply DEF CheckRecovery
<1>2. CASE Goto(c, "lookup")
  <2>1. Asking(req[c])
    BY DEF IInv, InFlight
  <2>2. /\ req'[c].pc = "lookup" /\ "lookup" \in Positions
        /\ req'[c].email = req[c].email /\ req'[c].reason = req[c].reason
        /\ req'[c].id = req[c].id
    BY <1>2, GotoKeeps DEF IInv, Positions
  <2>3. Asking(req[c])' /\ Acting(req[c])'
    BY <2>1, <2>2 DEF CheckRecovery, Asking, Acting
  <2> QED
    BY <1>2, <2>2, <2>3, GotoStep DEF CheckRecovery
<1> QED
  BY <1>1, <1>2 DEF CheckRecovery

\* A fresh code is generated and mailed.
LEMMA MailCodeKeeps ==
    ASSUME IInv, NEW c \in Clients, NEW k \in Codes, MailCode(c, k)
    PROVE  IInv'
<1> DEFINE q == [req[c] EXCEPT !.pc = "reselect", !.code = k]
<1>1. req[c] \in Request /\ Asking(req[c])
  BY DEF IInv, TypeOK, InFlight
<1>2. /\ q \in Request /\ q.pc = "reselect" /\ q.code = k
      /\ q.email = req[c].email /\ q.reason = req[c].reason /\ q.id = req[c].id
  BY <1>1 DEF Request, Positions
<1>3. req' = [req EXCEPT ![c] = q] /\ req'[c] = q
  BY DEF MailCode, IInv, TypeOK
<1>4. q.id < nextId
  BY <1>2 DEF IInv, Keys
<1> HIDE DEF q
<1>5. \A w \in rows : ~(w.email = req[c].email /\ w.reason = req[c].reason)
  BY DEF MailCode, Pending, RowsFor
<1>6. Asking(req[c])' /\ Acting(req[c])'
  BY <1>1, <1>2, <1>3, <1>5 DEF MailCode, Asking, Acting
<1>7. EffectsProved'
  BY DEF IInv, EffectsProved, MailCode
<1> QED
  BY <1>2, <1>3, <1>4, <1>6, <1>7, ClientStep DEF MailCode, IInv, TypeOK

\* The second select, after the mail was sent.
LEMMA ReselectKeeps ==
    ASSUME IInv, NEW c \in Clients, Reselect(c)
    PROVE  IInv'
<1>1. /\ req[c] \in Request /\ Asking(req[c]) /\ req[c].pc = "reselect"
      /\ UNCHANGED <<rows, nextId, users, recovery, tasks, boot, proved, changed>>
  BY DEF IInv, TypeOK, InFlight, Reselect
<1>2. CASE RowsFor(req[c].email, req[c].reason) = {} /\ Goto(c, "store")
  <2>1. /\ req'[c].pc = "store" /\ "store" \in Positions
        /\ req'[c].email = req[c].email /\ req'[c].reason = req[c].reason
        /\ req'[c].code = req[c].code /\ req'[c].id = req[c].id
    BY <1>2, GotoKeeps DEF IInv, Positions
  <2>2. req[c].id = 0
    BY <1>1 DEF Asking
  <2>3. \A w \in rows : w.id # 0
    BY DEF IInv, Keys
  <2>4. Asking(req[c])' /\ Acting(req[c])'
    BY <1>1, <2>1, <2>2, <2>3 DEF Asking, Acting
  <2> QED
    BY <1>1, <1>2, <2>1, <2>4, GotoStep
<1>3. ASSUME NEW w \in RowsFor(req[c].email, req[c].reason),
             req' = [req EXCEPT ![c].pc = "store", ![c].id = w.id, ![c].old = w.code]
      PROVE  IInv'
  <2> DEFINE q == [req[c] EXCEPT !.pc = "store", !.id = w.id, !.old = w.code]
  <2>1. w \in rows /\ w \in Row /\ w.email = req[c].email /\ w.reason = req[c].reason
    BY <1>3 DEF RowsFor, IInv, TypeOK
  <2>2. /\ q \in Request /\ q.pc = "store" /\ q.id = w.id /\ q.code = req[c].code
        /\ q.email = req[c].email /\ q.reason = req[c].reason
    BY <1>1, <2>1 DEF Request, Row, Positions
  <2>3. req' = [req EXCEPT ![c] = q] /\ req'[c] = q
    BY <1>3 DEF IInv, TypeOK
  <2>4. q.id < nextId
    BY <2>1, <2>2 DEF IInv, Keys
  <2> HIDE DEF q
  <2>5. \A w2 \in rows : w2.id = w.id => w2 = w
    BY <2>1 DEF IInv, Keys
  <2>6. Asking(req[c])' /\ Acting(req[c])'
    BY <1>1, <2>1, <2>2, <2>3, <2>5 DEF Asking, Acting
  <2>7. EffectsProved'
    BY <1>1 DEF IInv, EffectsProved
  <2> QED
    BY <1>1, <2>2, <2>3, <2>4, <2>6, <2>7, ClientStep DEF IInv, TypeOK
<1> QED
  BY <1>2, <1>3 DEF Reselect

\* get_verification_code finds the row of a presented code.
LEMMA PresentKeeps ==
    ASSUME IInv, NEW c \in Clients, NEW e \in Emails, NEW k \in Codes, NEW r \in CodeReasons,
           NEW who \in Emails \cup {None}, Present(c, e, k, r, who)
    PROVE  IInv'
<1>1. PICK w \in Matching(e, k, r) :
         /\ req' = [req EXCEPT ![c] = [Idle EXCEPT !.pc = "spend", !.email = e, !.reason = r,
                                                   !.who = who, !.id = w.id]]
         /\ proved' = proved \cup {<<e, w.reason>>}
  BY DEF Present
<1> DEFINE q == [Idle EXCEPT !.pc = "spend", !.email = e, !.reason = r, !.who = who, !.id = w.id]
<1>2. w \in rows /\ w \in Row /\ w.reason = r
  BY DEF Matching, RowsFor, IInv, TypeOK
<1>3. /\ q \in Request /\ q.pc = "spend" /\ q.email = e /\ q.reason = r
      /\ q.who = who /\ q.id = w.id
  BY <1>2 DEF Idle, Request, Row, Positions
<1>4. req' = [req EXCEPT ![c] = q] /\ req'[c] = q
  BY <1>1 DEF IInv, TypeOK
<1>5. q.id < nextId
  BY <1>2, <1>3 DEF IInv, Keys
<1> HIDE DEF q
<1>6. r = "recovery_email_verification" => who \in Emails
  BY DEF Present, IInv, TypeOK
<1>7. /\ UNCHANGED <<rows, nextId, users, recovery, tasks, boot, changed>>
      /\ proved \subseteq proved' /\ <<e, r>> \in proved'
      /\ proved' \subseteq Emails \X CodeReasons
  BY <1>1, <1>2 DEF Present, IInv, TypeOK
<1>8. \A v \in rows : v.id = w.id => v.email = e /\ v.reason = r
  <2>1. w.email = e
    BY DEF Matching, RowsFor
  <2> QED
    BY <1>2, <2>1 DEF IInv, Keys
<1>9. Asking(req[c])' /\ Acting(req[c])'
  BY <1>3, <1>4, <1>6, <1>7, <1>8 DEF Asking, Acting
<1>10. EffectsProved'
  BY <1>7 DEF IInv, EffectsProved
<1> QED
  BY <1>3, <1>4, <1>5, <1>7, <1>9, <1>10, ClientStep DEF IInv, TypeOK

\* The row of a presented code is deleted; the request acts on its authority.
LEMMA SpendKeeps ==
    ASSUME IInv, NEW c \in Clients, Spend(c)
    PROVE  IInv'
<1>1. Asking(req[c]) /\ Acting(req[c]) /\ req[c].pc = "spend"
  BY DEF IInv, InFlight, Spend
<1>2. /\ rows' \subseteq rows
      /\ UNCHANGED <<nextId, users, recovery, tasks, boot, proved, changed>>
  BY DEF Spend, Without
<1>3. EffectsProved'
  BY <1>2 DEF IInv, EffectsProved
<1>4. PICK p \in {"register", "recover", "granting"} :
         /\ Goto(c, p)
         /\ req[c].reason = CASE p = "register" -> "email_verification"
                              [] p = "recover" -> "recovery_email_verification"
                              [] p = "granting" -> "password_change"
  BY DEF Spend
<1>5. /\ p \in Positions /\ req'[c].pc = p
      /\ req'[c].email = req[c].email /\ req'[c].who = req[c].who
  BY <1>4, GotoKeeps DEF IInv, Positions
<1>6. Asking(req[c])' /\ Acting(req[c])'
  BY <1>1, <1>2, <1>4, <1>5 DEF Asking, Acting
<1> QED
  BY <1>2, <1>4, <1>5, <1>6, GotoStep

\* A signup code creates the account.
LEMMA RegisterKeeps ==
    ASSUME IInv, NEW c \in Clients, Register(c)
    PROVE  IInv'
<1>1. Acting(req[c]) /\ req[c].pc = "register"
  BY DEF IInv, InFlight, Register
<1>2. req[c].email \in Emails /\ <<req[c].email, "email_verification">> \in proved
  BY <1>1 DEF Acting
<1>3. EffectsProved'
  BY <1>2 DEF Register, IInv, EffectsProved
<1> QED
  BY <1>2, <1>3, ReplyStep DEF Register, IInv, TypeOK

\* A recovery code sets the recovery address.
LEMMA RecoverKeeps ==
    ASSUME IInv, NEW c \in Clients, Recover(c)
    PROVE  IInv'
<1>1. Acting(req[c]) /\ req[c].pc = "recover"
  BY DEF IInv, InFlight, Recover
<1>2. /\ req[c].email \in Emails /\ req[c].who \in Emails \cup {None}
      /\ <<req[c].email, "recovery_email_verification">> \in proved
  BY <1>1 DEF Acting, IInv, TypeOK, Request
<1>3. /\ recovery' \in [Emails -> Emails \cup {None}]
      /\ \A e \in Emails : recovery'[e] \in {recovery[e], req[c].email}
  BY <1>2 DEF Recover, IInv, TypeOK
<1>4. UNCHANGED <<rows, users, proved, changed>>
  BY DEF Recover
<1>5. EffectsProved'
  BY <1>2, <1>3, <1>4 DEF IInv, EffectsProved
<1> QED
  BY <1>3, <1>5, ReplyStep DEF Recover, IInv, TypeOK

\* confirm_password_reset selects a confirmation already there.
LEMMA LookForGrantKeeps ==
    ASSUME IInv, NEW c \in Clients, LookForGrant(c)
    PROVE  IInv'
<1>1. CASE Reply(c)
  BY <1>1, PlainReply DEF LookForGrant
<1>2. CASE Goto(c, "grant")
  <2>1. Acting(req[c])
    BY DEF IInv, InFlight
  <2>2. /\ req'[c].pc = "grant" /\ "grant" \in Positions
        /\ req'[c].email = req[c].email
    BY <1>2, GotoKeeps DEF IInv, Positions
  <2>3. Asking(req[c])' /\ Acting(req[c])'
    BY <2>1, <2>2 DEF LookForGrant, Asking, Acting
  <2> QED
    BY <1>2, <2>2, <2>3, GotoStep DEF LookForGrant
<1> QED
  BY <1>1, <1>2 DEF LookForGrant

\* initiate_password_change finds the confirmation row.
LEMMA BeginChangeKeeps ==
    ASSUME IInv, NEW c \in Clients, NEW e \in Emails, BeginChange(c, e)
    PROVE  IInv'
<1>1. PICK w \in RowsFor(e, "password_change_confirmation") :
         req' = [req EXCEPT ![c] = [Idle EXCEPT !.pc = IF w.expired THEN "discard" ELSE "auth",
                                                !.email = e, !.id = w.id]]
  BY DEF BeginChange
<1> DEFINE q == [Idle EXCEPT !.pc = IF w.expired THEN "discard" ELSE "auth",
                             !.email = e, !.id = w.id]
<1>2. w \in rows /\ w \in Row /\ w.email = e /\ w.reason = "password_change_confirmation"
  BY DEF RowsFor, IInv, TypeOK
<1>3. q \in Request /\ q.pc \in {"auth", "discard"} /\ q.email = e /\ q.id = w.id
  BY <1>2 DEF Idle, Request, Row, Positions
<1>4. req' = [req EXCEPT ![c] = q] /\ req'[c] = q
  BY <1>1 DEF IInv, TypeOK
<1>5. q.id < nextId
  BY <1>2, <1>3 DEF IInv, Keys
<1> HIDE DEF q
<1>6. <<e, "password_change">> \in proved
  BY <1>2 DEF IInv, EffectsProved
<1>7. UNCHANGED <<rows, nextId, users, recovery, tasks, boot, proved, changed>>
  BY DEF BeginChange
<1>8. \A v \in rows : v.id = w.id => v = w
  BY <1>2 DEF IInv, Keys
<1>9. Asking(req[c])' /\ Acting(req[c])'
  BY <1>2, <1>3, <1>4, <1>6, <1>7, <1>8 DEF Asking, Acting
<1>10. EffectsProved'
  BY <1>7 DEF IInv, EffectsProved
<1> QED
  BY <1>3, <1>4, <1>5, <1>7, <1>9, <1>10, ClientStep DEF IInv, TypeOK

\* initiate_password_change loads the account.
LEMMA AuthenticateKeeps ==
    ASSUME IInv, NEW c \in Clients, Authenticate(c)
    PROVE  IInv'
<1>1. Acting(req[c]) /\ req[c].pc = "auth"
  BY DEF IInv, InFlight, Authenticate
<1>2. CASE req[c].email \in users
           /\ req' = [req EXCEPT ![c].pc = "apply", ![c].who = req[c].email]
  <2> DEFINE q == [req[c] EXCEPT !.pc = "apply", !.who = req[c].email]
  <2>1. req[c] \in Request /\ req[c].email \in Emails
    BY <1>1 DEF IInv, TypeOK, Acting
  <2>2. /\ q \in Request /\ q.pc = "apply"
        /\ q.email = req[c].email /\ q.id = req[c].id
    BY <2>1 DEF Request, Positions
  <2>3. req' = [req EXCEPT ![c] = q] /\ req'[c] = q
    BY <1>2 DEF IInv, TypeOK
  <2>4. q.id < nextId
    BY <2>2 DEF IInv, Keys
  <2> HIDE DEF q
  <2>5. UNCHANGED <<rows, nextId, users, recovery, tasks, boot, proved, changed>>
    BY DEF Authenticate
  <2>6. Asking(req[c])' /\ Acting(req[c])'
    BY <1>1, <2>2, <2>3, <2>5 DEF Asking, Acting
  <2>7. EffectsProved'
    BY <2>5 DEF IInv, EffectsProved
  <2> QED
    BY <2>2, <2>3, <2>4, <2>5, <2>6, <2>7, ClientStep DEF IInv, TypeOK
<1>3. CASE Goto(c, "discard")
  <2>1. /\ "discard" \in Positions /\ req'[c].pc = "discard"
        /\ req'[c].email = req[c].email /\ req'[c].id = req[c].id
    BY <1>3, GotoKeeps DEF IInv, Positions
  <2>2. Asking(req[c])' /\ Acting(req[c])'
    BY <1>1, <2>1 DEF Authenticate, Asking, Acting
  <2> QED
    BY <1>3, <2>1, <2>2, GotoStep DEF Authenticate
<1> QED
  BY <1>2, <1>3 DEF Authenticate

\* The password changes and the confirmation row goes, or both stay.
LEMMA FinishChangeKeeps ==
    ASSUME IInv, NEW c \in Clients, FinishChange(c)
    PROVE  IInv'
<1>1. Acting(req[c]) /\ rows' \subseteq rows
  BY DEF IInv, InFlight, FinishChange, Without
<1>2. \A e \in changed' \ changed : e \in Emails /\ <<e, "password_change">> \in proved
  BY <1>1 DEF FinishChange, Acting
<1>3. UNCHANGED <<users, recovery, proved>>
  BY DEF FinishChange
<1>4. EffectsProved'
  BY <1>1, <1>2, <1>3 DEF IInv, EffectsProved
<1>5. changed' \subseteq Emails
  BY <1>2 DEF IInv, TypeOK
<1> QED
  BY <1>1, <1>4, <1>5, ReplyStep DEF FinishChange, IInv, TypeOK

-----------------------------------------------------------------------------
(***************************************************************************)
(* Steps that write a row.                                                 *)
(***************************************************************************)
\* What a reply leaves of the requests in flight, whatever else the step does.
LEMMA ReplyFrees ==
    ASSUME IInv, NEW c \in Clients, Reply(c)
    PROVE  /\ req' \in [Clients -> Request]
           /\ req'[c].pc = "idle" /\ req'[c].id = 0
           /\ \A d \in Clients \ {c} : req'[d] = req[d]
<1>1. Idle \in Request /\ Idle.pc = "idle" /\ Idle.id = 0
  BY DEF Idle, Request, Positions
<1> QED
  BY <1>1 DEF Reply, IInv, TypeOK

\* A cleanup task's entry has the type of one.
LEMMA WatchTypes ==
    ASSUME IInv, NEW c \in Clients, req[c].pc = "store", Watch(c)
    PROVE  /\ tasks' \subseteq Task
           /\ tasks \subseteq tasks'
           /\ \A t \in tasks' \ tasks : t.found = 0
           /\ \E t \in tasks' : /\ t.email = req[c].email /\ t.code = req[c].code
                              /\ t.reason = req[c].reason /\ t.found = 0
<1>1. /\ req[c].email \in Emails /\ req[c].reason \in CodeReasons /\ req[c].code \in Codes
  BY DEF IInv, InFlight, Asking
<1> DEFINE new == [email |-> req[c].email, code |-> req[c].code, reason |-> req[c].reason,
                   found |-> 0]
<1>2. new \in Task
  BY <1>1 DEF Task
<1>3. tasks' = tasks \cup {new}
  BY DEF Watch
<1> QED
  BY <1>2, <1>3 DEF IInv, TypeOK

\* The insert of a row for an address that has none.
LEMMA InsertStep ==
    ASSUME IInv, NEW c \in Clients, NEW e \in Emails, NEW r \in Reasons,
           NEW k \in Codes \cup {None}, ~Taken(e), Insert(e, r, k), Reply(c),
           UNCHANGED <<users, recovery, boot, proved, changed>>,
           tasks' \subseteq Task, tasks \subseteq tasks',
           \A t \in tasks' \ tasks : t.found = 0,
           k # None => \E t \in tasks' : t.email = e /\ t.code = k /\ t.reason = r /\ t.found = 0,
           r = "password_change_confirmation" => <<e, "password_change">> \in proved
    PROVE  IInv'
<1> DEFINE new == [id |-> nextId, email |-> e, reason |-> r, code |-> k,
                   expired |-> FALSE, boot |-> boot]
<1>1. /\ rows' = rows \cup {new}
      /\ nextId' = nextId + 1
      /\ nextId \in Nat \ {0}
  BY DEF Insert, IInv, TypeOK
<1>2. /\ new \in Row /\ new.id = nextId /\ new.email = e /\ new.reason = r
      /\ new.code = k /\ new.expired = FALSE /\ new.boot = boot
  BY DEF Row, IInv, TypeOK
<1> HIDE DEF new
<1>3. \A w \in rows : w.email # e
  BY DEF Taken
<1>4. /\ req' \in [Clients -> Request]
      /\ req'[c].pc = "idle" /\ req'[c].id = 0
      /\ \A d \in Clients \ {c} : req'[d] = req[d]
  BY ReplyFrees
<1>5. TypeOK'
  BY <1>1, <1>2, <1>4 DEF IInv, TypeOK
<1>6. \A w \in rows : w.id \in Nat /\ w.id < nextId
  BY DEF IInv, TypeOK, Keys, Row
<1>7. \A t \in tasks' : t.found \in Nat /\ t.found < nextId
  BY <1>1 DEF IInv, TypeOK, Keys, Task
<1>8. \A d \in Clients : req'[d].id \in Nat /\ req'[d].id < nextId
  BY <1>1, <1>4 DEF IInv, TypeOK, Keys, Request
<1>9. Keys'
  <2>1. \A w1, w2 \in rows' : w1.email = w2.email \/ w1.id = w2.id => w1 = w2
    BY <1>1, <1>2, <1>3, <1>6 DEF IInv, Keys
  <2>2. \A w \in rows' : 0 < w.id /\ w.id < nextId' /\ w.boot <= boot'
    BY <1>1, <1>2, <1>6 DEF IInv, Keys, TypeOK
  <2> QED
    BY <1>1, <1>7, <1>8, <2>1, <2>2 DEF Keys
<1>10. FoundExpired'
  <2>1. SUFFICES ASSUME NEW t \in tasks', NEW w \in rows', t.found = w.id
                 PROVE  w.expired
    BY DEF FoundExpired
  <2>2. w # new
    BY <1>1, <1>2, <1>7, <2>1
  <2>3. w \in rows /\ w.id # 0
    BY <1>1, <2>1, <2>2 DEF IInv, Keys
  <2>4. t \in tasks
    BY <2>1, <2>3
  <2> QED
    BY <2>1, <2>3, <2>4 DEF IInv, FoundExpired
<1>11. InFlight'
  <2>1. Asking(req[c])' /\ Acting(req[c])'
    BY <1>4 DEF Asking, Acting
  <2>2. ASSUME NEW d \in Clients \ {c} PROVE Asking(req[d])' /\ Acting(req[d])'
    <3>1. Asking(req[d]) /\ Acting(req[d]) /\ req'[d] = req[d] /\ req[d].id < nextId
      BY <1>4 DEF IInv, InFlight, Keys
    <3>2. Asking(req[d])'
      BY <1>1, <1>2, <1>8, <3>1 DEF Asking
    <3>3. Acting(req[d])'
      BY <1>1, <1>2, <1>8, <3>1 DEF Acting
    <3> QED
      BY <3>2, <3>3
  <2> QED
    BY <2>1, <2>2 DEF InFlight
<1>12. CodesWatched'
  <2>1. SUFFICES ASSUME NEW w \in rows', w.code # None, w.boot = boot
                 PROVE  \E t \in tasks' : /\ t.email = w.email /\ t.code = w.code
                                       /\ t.reason = w.reason /\ t.found \in {0, w.id}
    BY DEF CodesWatched
  <2>2. CASE w \in rows
    BY <2>1, <2>2 DEF IInv, CodesWatched
  <2>3. CASE w = new
    BY <1>2, <2>1, <2>3
  <2> QED
    BY <1>1, <2>2, <2>3
<1>13. EffectsProved'
  BY <1>1, <1>2 DEF IInv, EffectsProved
<1> QED
  BY <1>5, <1>9, <1>10, <1>11, <1>12, <1>13 DEF IInv

\* The row of a new code is inserted and gets a cleanup task.
LEMMA StoreNewKeeps ==
    ASSUME IInv, NEW c \in Clients, StoreNew(c)
    PROVE  IInv'
<1>1. req[c].pc = "store" /\ Asking(req[c])
  BY DEF StoreNew, IInv, InFlight
<1>2. /\ req[c].email \in Emails /\ req[c].reason \in CodeReasons /\ req[c].code \in Codes
  BY <1>1 DEF Asking
<1>3. req[c].reason \in Reasons /\ req[c].reason # "password_change_confirmation"
  BY <1>2 DEF Reasons, CodeReasons
<1> DEFINE e == req[c].email
           r == req[c].reason
           k == req[c].code
<1>4. /\ ~Taken(e) /\ Insert(e, r, k) /\ Reply(c)
      /\ UNCHANGED <<users, recovery, boot, proved, changed>>
  BY DEF StoreNew
<1>5. /\ tasks' \subseteq Task /\ tasks \subseteq tasks'
      /\ \A t \in tasks' \ tasks : t.found = 0
      /\ \E t \in tasks' : t.email = e /\ t.code = k /\ t.reason = r /\ t.found = 0
  BY <1>1, WatchTypes DEF StoreNew
<1> HIDE DEF e, r, k
<1>6. e \in Emails /\ r \in Reasons /\ k \in Codes \cup {None} /\ r # "password_change_confirmation"
  BY <1>2, <1>3 DEF e, r, k
<1> QED
  BY <1>4, <1>5, <1>6, InsertStep

\* The confirmation row is inserted, without a cleanup task.
LEMMA GrantKeeps ==
    ASSUME IInv, NEW c \in Clients, Grant(c)
    PROVE  IInv'
<1>1. Acting(req[c]) /\ req[c].pc = "grant"
  BY DEF IInv, InFlight, Grant
<1>2. req[c].email \in Emails /\ <<req[c].email, "password_change">> \in proved
  BY <1>1 DEF Acting
<1>3. CASE ~Taken(req[c].email) /\ Insert(req[c].email, "password_change_confirmation", None)
  <2>1. tasks' \subseteq Task /\ tasks' = tasks
    BY DEF Grant, IInv, TypeOK
  <2>2. "password_change_confirmation" \in Reasons
    BY DEF Reasons
  <2> QED
    BY <1>2, <1>3, <2>1, <2>2, InsertStep DEF Grant
<1>4. CASE UNCHANGED <<rows, nextId>>
  BY <1>4, PlainReply DEF Grant
<1> QED
  BY <1>3, <1>4 DEF Grant

\* The row found by the second select gets the new code and a new task.
LEMMA StoreAgainKeeps ==
    ASSUME IInv, NEW c \in Clients, StoreAgain(c)
    PROVE  IInv'
<1> DEFINE q    == req[c]
           kept == q.code = q.old
<1>1. PICK w \in rows :
         /\ w.id = q.id
         /\ rows' = (rows \ {w}) \cup
               {[w EXCEPT !.code = IF kept THEN w.code ELSE q.code,
                          !.boot = IF kept /\ w.code # q.code THEN w.boot ELSE boot,
                          !.expired = FALSE]}
  BY DEF StoreAgain
<1> DEFINE new == [w EXCEPT !.code = IF kept THEN w.code ELSE q.code,
                            !.boot = IF kept /\ w.code # q.code THEN w.boot ELSE boot,
                            !.expired = FALSE]
<1>2. /\ q.pc = "store" /\ Asking(q) /\ Reply(c) /\ Watch(c)
      /\ UNCHANGED <<nextId, users, recovery, boot, proved, changed>>
  BY DEF IInv, InFlight, StoreAgain
<1>3. /\ q.email \in Emails /\ q.reason \in CodeReasons /\ q.code \in Codes
      /\ w.email = q.email /\ w.reason = q.reason
  BY <1>1, <1>2 DEF Asking
<1>4. w \in Row /\ ~w.expired /\ boot \in Nat
  BY <1>1, <1>2, <1>3 DEF Asking, IInv, TypeOK
<1>5. /\ new \in Row /\ new.id = w.id /\ new.email = w.email /\ new.reason = w.reason
      /\ new.expired = FALSE
      /\ new.code = IF kept THEN w.code ELSE q.code
      /\ new.boot = IF kept /\ w.code # q.code THEN w.boot ELSE boot
  BY <1>3, <1>4 DEF Row
<1>6. rows' = (rows \ {w}) \cup {new}
  BY <1>1
<1> HIDE DEF new
<1>7. /\ req' \in [Clients -> Request]
      /\ req'[c].pc = "idle" /\ req'[c].id = 0
      /\ \A d \in Clients \ {c} : req'[d] = req[d]
  BY <1>2, ReplyFrees
<1>8. /\ tasks' \subseteq Task /\ tasks \subseteq tasks'
      /\ \A t \in tasks' \ tasks : t.found = 0
      /\ \E t \in tasks' : /\ t.email = q.email /\ t.code = q.code
                         /\ t.reason = q.reason /\ t.found = 0
  BY <1>2, WatchTypes
<1>9. TypeOK'
  BY <1>2, <1>5, <1>6, <1>7, <1>8 DEF IInv, TypeOK
<1>10. nextId \in Nat \ {0} /\ w.boot <= boot /\ w.boot \in Nat
  BY <1>1, <1>4 DEF IInv, TypeOK, Keys, Row
<1>11. Keys'
  <2>1. \A w1, w2 \in rows' : w1.email = w2.email \/ w1.id = w2.id => w1 = w2
    BY <1>1, <1>5, <1>6 DEF IInv, Keys
  <2>2. \A v \in rows' : 0 < v.id /\ v.id < nextId' /\ v.boot <= boot'
    <3>1. new.boot <= boot
      BY <1>4, <1>5, <1>10
    <3> QED
      BY <1>1, <1>2, <1>5, <1>6, <3>1 DEF IInv, Keys
  <2>3. \A t \in tasks' : t.found < nextId'
    BY <1>2, <1>8, <1>10 DEF IInv, Keys
  <2>4. \A d \in Clients : req'[d].id < nextId'
    BY <1>2, <1>7, <1>10 DEF IInv, Keys
  <2> QED
    BY <2>1, <2>2, <2>3, <2>4 DEF Keys
<1>12. FoundExpired'
  <2>1. SUFFICES ASSUME NEW t \in tasks', NEW v \in rows', t.found = v.id
                 PROVE  v.expired
    BY DEF FoundExpired
  <2>2. v.id # 0
    BY <1>1, <1>5, <1>6, <2>1 DEF IInv, Keys
  <2>3. t \in tasks
    BY <1>8, <2>1, <2>2
  <2>4. v # new
    BY <1>1, <1>4, <1>5, <2>1, <2>3 DEF IInv, FoundExpired
  <2> QED
    BY <1>6, <2>1, <2>3, <2>4 DEF IInv, FoundExpired
<1>13. InFlight'
  <2>1. Asking(req[c])' /\ Acting(req[c])'
    BY <1>7 DEF Asking, Acting
  <2>2. ASSUME NEW d \in Clients \ {c} PROVE Asking(req[d])' /\ Acting(req[d])'
    <3>1. Asking(req[d]) /\ Acting(req[d]) /\ req'[d] = req[d]
      BY <1>7 DEF IInv, InFlight
    <3>2. Asking(req[d])'
      BY <1>1, <1>5, <1>6, <3>1 DEF Asking
    <3>3. Acting(req[d])'
      BY <1>1, <1>2, <1>5, <1>6, <3>1 DEF Acting
    <3> QED
      BY <3>2, <3>3
  <2> QED
    BY <2>1, <2>2 DEF InFlight
<1>14. CodesWatched'
  <2>1. SUFFICES ASSUME NEW v \in rows', v.code # None, v.boot = boot
                 PROVE  \E t \in tasks' : /\ t.email = v.email /\ t.code = v.code
                                       /\ t.reason = v.reason /\ t.found \in {0, v.id}
    BY <1>2 DEF CodesWatched
  <2>2. CASE v \in rows
    BY <1>8, <2>1, <2>2 DEF IInv, CodesWatched
  <2>3. CASE v = new /\ new.code = q.code
    BY <1>3, <1>5, <1>8, <2>3
  <2>4. CASE v = new /\ new.code # q.code
    <3>1. new.code = w.code /\ new.boot = w.boot
      BY <1>5, <2>4
    <3>2. \E t \in tasks : /\ t.email = w.email /\ t.code = w.code
                        /\ t.reason = w.reason /\ t.found \in {0, w.id}
      BY <1>1, <2>1, <2>4, <3>1 DEF IInv, CodesWatched
    <3> QED
      BY <1>5, <1>8, <2>4, <3>1, <3>2
  <2> QED
    BY <1>6, <2>1, <2>2, <2>3, <2>4
<1>15. EffectsProved'
  BY <1>1, <1>2, <1>5, <1>6 DEF IInv, EffectsProved
<1> QED
  BY <1>9, <1>11, <1>12, <1>13, <1>14, <1>15 DEF IInv

-----------------------------------------------------------------------------
(***************************************************************************)
(* The cleanup loop.                                                       *)
(***************************************************************************)
\* A loop step deletes at most rows and keeps the requests; it preserves IInv when
\* it leaves every remaining row its watcher and finds expired rows only.
LEMMA LoopStep ==
    ASSUME IInv, rows' \subseteq rows, tasks' \subseteq Task,
           \A t \in tasks' : t.found < nextId,
           FoundExpired', CodesWatched',
           UNCHANGED <<nextId, users, recovery, req, boot, proved, changed>>
    PROVE  IInv'
<1>1. TypeOK' /\ Keys'
  BY DEF IInv, TypeOK, Keys
<1>2. EffectsProved'
  BY DEF IInv, EffectsProved
<1>3. InFlight'
  <2>1. SUFFICES ASSUME NEW c \in Clients PROVE Asking(req[c])' /\ Acting(req[c])'
    BY DEF InFlight
  <2>2. Asking(req[c]) /\ Acting(req[c])
    BY DEF IInv, InFlight
  <2> QED
    BY <2>2 DEF Asking, Acting
<1> QED
  BY <1>1, <1>2, <1>3 DEF IInv

\* One round of a cleanup task, whatever it finds.
LEMMA CleanupKeeps ==
    ASSUME IInv, NEW t \in tasks, Cleanup(t)
    PROVE  IInv'
<1>1. /\ t \in Task /\ tasks \subseteq Task /\ nextId \in Nat \ {0}
      /\ \A s \in tasks : s.found < nextId
      /\ \A w \in rows : w.id \in Nat /\ 0 < w.id /\ w.id < nextId
  BY DEF IInv, TypeOK, Keys, Row
<1>2. CASE LoopEnds(t)
  <2>1. \A w \in rows : ~(t.email = w.email /\ t.code = w.code /\ t.reason = w.reason)
    BY <1>2 DEF LoopEnds, Watched, Matching, RowsFor
  <2>2. CodesWatched'
    BY <1>2, <2>1 DEF LoopEnds, IInv, CodesWatched
  <2>3. FoundExpired'
    BY <1>2 DEF LoopEnds, IInv, FoundExpired
  <2> QED
    BY <1>1, <1>2, <2>2, <2>3, LoopStep DEF LoopEnds
<1>3. CASE LoopFindsExpired(t)
  <2>1. PICK w \in rows : /\ w.email = t.email /\ w.expired
                          /\ tasks' = (tasks \ {t}) \cup {[t EXCEPT !.found = w.id]}
    BY <1>3 DEF LoopFindsExpired, Watched, Matching, RowsFor
  <2> DEFINE s == [t EXCEPT !.found = w.id]
  <2>2. /\ s \in Task /\ s.email = t.email /\ s.code = t.code /\ s.reason = t.reason
        /\ s.found = w.id
    BY <1>1 DEF Task
  <2>3. tasks' = (tasks \ {t}) \cup {s}
    BY <2>1
  <2> HIDE DEF s
  <2>4. \A v \in rows : v.email = t.email \/ v.id = w.id => v = w
    BY <2>1 DEF IInv, Keys
  <2>5. UNCHANGED <<rows, nextId, users, recovery, req, boot, proved, changed>>
    BY <1>3 DEF LoopFindsExpired
  <2>6. CodesWatched'
    <3>1. SUFFICES ASSUME NEW v \in rows, v.code # None, v.boot = boot
                   PROVE  \E x \in tasks' : /\ x.email = v.email /\ x.code = v.code
                                         /\ x.reason = v.reason /\ x.found \in {0, v.id}
      BY <2>5 DEF CodesWatched
    <3>2. PICK x \in tasks : /\ x.email = v.email /\ x.code = v.code
                             /\ x.reason = v.reason /\ x.found \in {0, v.id}
      BY <3>1 DEF IInv, CodesWatched
    <3>3. CASE x # t
      BY <2>3, <3>2, <3>3
    <3>4. CASE x = t
      BY <2>2, <2>3, <2>4, <3>2, <3>4
    <3> QED
      BY <3>3, <3>4
  <2>7. FoundExpired'
    BY <2>1, <2>2, <2>3, <2>4, <2>5 DEF IInv, FoundExpired
  <2> QED
    BY <1>1, <2>2, <2>3, <2>5, <2>6, <2>7, LoopStep
<1>4. CASE LoopDeletes(t)
  <2>1. /\ rows' = {w \in rows : w.id # t.found} /\ tasks' = tasks \ {t} /\ t.found # 0
        /\ UNCHANGED <<nextId, users, recovery, req, boot, proved, changed>>
    BY <1>4 DEF LoopDeletes, Without
  <2>2. CodesWatched'
    BY <2>1 DEF IInv, CodesWatched
  <2>3. FoundExpired'
    BY <2>1 DEF IInv, FoundExpired
  <2> QED
    BY <1>1, <2>1, <2>2, <2>3, LoopStep
<1>5. CASE LoopFails(t)
  <2> DEFINE s == [t EXCEPT !.found = 0]
  <2>1. /\ s \in Task /\ s.email = t.email /\ s.code = t.code /\ s.reason = t.reason
        /\ s.found = 0
    BY <1>1 DEF Task
  <2>2. /\ tasks' = (tasks \ {t}) \cup {s}
        /\ UNCHANGED <<rows, nextId, users, recovery, req, boot, proved, changed>>
    BY <1>5 DEF LoopFails
  <2> HIDE DEF s
  <2>3. CodesWatched'
    BY <2>1, <2>2 DEF IInv, CodesWatched
  <2>4. FoundExpired'
    BY <1>1, <2>1, <2>2 DEF IInv, FoundExpired
  <2> QED
    BY <1>1, <2>1, <2>2, <2>3, <2>4, LoopStep
<1> QED
  BY <1>2, <1>3, <1>4, <1>5 DEF Cleanup

-----------------------------------------------------------------------------
(***************************************************************************)
(* The environment.                                                        *)
(***************************************************************************)
LEMMA ExpireKeeps ==
    ASSUME IInv, NEW w \in rows, Expire(w)
    PROVE  IInv'
<1> DEFINE new == [w EXCEPT !.expired = TRUE]
<1>1. w \in Row
  BY DEF IInv, TypeOK
<1>2. /\ new \in Row /\ new.id = w.id /\ new.email = w.email /\ new.reason = w.reason
      /\ new.code = w.code /\ new.boot = w.boot /\ new.expired
  BY <1>1 DEF Row
<1>3. /\ rows' = (rows \ {w}) \cup {new}
      /\ UNCHANGED <<nextId, users, recovery, req, tasks, boot, proved, changed>>
  BY DEF Expire
<1> HIDE DEF new
<1>4. TypeOK'
  BY <1>2, <1>3 DEF IInv, TypeOK
<1>5. Keys'
  BY <1>2, <1>3 DEF IInv, Keys
<1>6. FoundExpired'
  BY <1>2, <1>3 DEF IInv, FoundExpired
<1>7. InFlight'
  <2>1. SUFFICES ASSUME NEW c \in Clients PROVE Asking(req[c])' /\ Acting(req[c])'
    BY DEF InFlight
  <2>2. Asking(req[c]) /\ Acting(req[c])
    BY DEF IInv, InFlight
  <2>3. Asking(req[c])'
    BY <1>2, <1>3, <2>2 DEF Asking, Expire, NoRequestSpansLifetime
  <2>4. Acting(req[c])'
    BY <1>2, <1>3, <2>2 DEF Acting
  <2> QED
    BY <2>3, <2>4
<1>8. CodesWatched'
  BY <1>2, <1>3 DEF IInv, CodesWatched
<1>9. EffectsProved'
  BY <1>2, <1>3 DEF IInv, EffectsProved
<1> QED
  BY <1>4, <1>5, <1>6, <1>7, <1>8, <1>9 DEF IInv

\* An account is deleted under the requests that have not loaded it yet.
LEMMA DeleteAccountKeeps ==
    ASSUME IInv, NEW u \in users, DeleteAccount(u)
    PROVE  IInv'
<1>1. /\ users' = users \ {u} /\ recovery' = [recovery EXCEPT ![u] = None]
      /\ UNCHANGED <<rows, nextId, tasks, boot, proved, changed>>
  BY DEF DeleteAccount
<1>2. ASSUME NEW c \in Clients
      PROVE  /\ req'[c] \in Request
             /\ req'[c].pc = req[c].pc /\ req'[c].email = req[c].email
             /\ req'[c].reason = req[c].reason /\ req'[c].code = req[c].code
             /\ req'[c].id = req[c].id
  <2>1. req[c] \in Request
    BY DEF IInv, TypeOK
  <2>2. req'[c] \in {req[c], [req[c] EXCEPT !.who = None]}
    BY DEF DeleteAccount
  <2> QED
    BY <2>1, <2>2 DEF Request
<1>3. TypeOK'
  <2>1. req' \in [Clients -> Request]
    BY <1>2 DEF DeleteAccount
  <2> QED
    BY <1>1, <2>1 DEF IInv, TypeOK
<1>4. Keys'
  BY <1>1, <1>2 DEF IInv, Keys
<1>5. FoundExpired' /\ CodesWatched'
  BY <1>1 DEF IInv, FoundExpired, CodesWatched
<1>6. InFlight'
  <2>1. ASSUME NEW c \in Clients PROVE Asking(req[c])' /\ Acting(req[c])'
    <3>1. Asking(req[c]) /\ Acting(req[c])
      BY DEF IInv, InFlight
    <3> QED
      BY <1>1, <1>2, <3>1 DEF Asking, Acting
  <2> QED
    BY <2>1 DEF InFlight
<1>7. EffectsProved'
  BY <1>1 DEF IInv, TypeOK, EffectsProved
<1> QED
  BY <1>3, <1>4, <1>5, <1>6, <1>7 DEF IInv

\* A restart loses requests and tasks, and seeds the administrator.
LEMMA RestartKeeps ==
    ASSUME IInv, Restart
    PROVE  IInv'
<1>1. /\ boot' = boot + 1 /\ boot \in Nat
      /\ req' = [c \in Clients |-> Idle] /\ tasks' = {}
      /\ UNCHANGED <<rows, nextId, proved, changed>>
  BY DEF Restart, IInv, TypeOK
<1>1a. /\ users' \subseteq Emails /\ users' \ Registered \subseteq users \ Registered
      /\ recovery' \in [Emails -> Emails \cup {None}]
      /\ \A e \in Emails : recovery'[e] \in {recovery[e], None}
  BY ConstantsAssumption DEF Restart, SeedAdmin, IInv, TypeOK
<1>2. Idle \in Request /\ Idle.pc = "idle" /\ Idle.id = 0
  BY DEF Idle, Request, Positions
<1>3. \A c \in Clients : req'[c].pc = "idle" /\ req'[c].id = 0
  BY <1>1, <1>2
<1>4. TypeOK'
  BY <1>1, <1>2, <1>1a DEF IInv, TypeOK
<1>5. \A w \in rows : w.boot \in Nat /\ w.boot <= boot
  BY DEF IInv, TypeOK, Keys, Row
<1>6. Keys'
  <2>1. \A w \in rows : w.boot <= boot'
    BY <1>1, <1>5
  <2> QED
    BY <1>1, <1>3, <2>1 DEF IInv, TypeOK, Keys
<1>7. FoundExpired'
  BY <1>1 DEF FoundExpired
<1>8. InFlight'
  BY <1>3 DEF InFlight, Asking, Acting
<1>9. CodesWatched'
  <2>1. \A w \in rows : w.boot # boot'
    BY <1>1, <1>5
  <2> QED
    BY <1>1, <2>1 DEF CodesWatched
<1>10. EffectsProved'
  BY <1>1, <1>1a DEF IInv, EffectsProved
<1> QED
  BY <1>4, <1>6, <1>7, <1>8, <1>9, <1>10 DEF IInv

-----------------------------------------------------------------------------
(***************************************************************************)
(* Theorems.                                                               *)
(***************************************************************************)
\* Every step of a client, the server, a closed account, the loop, time and a
\* restart keeps IInv.
THEOREM StepKeepsIInv == IInv /\ [Next]_vars => IInv'
<1> SUFFICES ASSUME IInv, [Next]_vars PROVE IInv'
  OBVIOUS
<1>1. ASSUME NEW c \in Clients, Arrive(c) PROVE IInv'
  <2>1. PICK e \in Emails :
           \/ AskSignup(c, e) \/ AskReset(c, e) \/ BeginChange(c, e)
           \/ \E who \in Emails : AskRecovery(c, who, e)
           \/ \E k \in Codes, r \in CodeReasons, who \in Emails \cup {None} :
                 Present(c, e, k, r, who)
    BY <1>1 DEF Arrive
  <2>2. CASE AskSignup(c, e) \/ AskReset(c, e) \/ \E who \in Emails : AskRecovery(c, who, e)
    BY <2>2, AskKeeps
  <2>3. CASE BeginChange(c, e)
    BY <2>3, BeginChangeKeeps
  <2>4. CASE \E k \in Codes, r \in CodeReasons, who \in Emails \cup {None} :
                Present(c, e, k, r, who)
    BY <2>4, PresentKeeps
  <2> QED
    BY <2>1, <2>2, <2>3, <2>4
<1>2. ASSUME NEW c \in Clients, Serve(c) PROVE IInv'
  <2>1. CASE CheckRecovery(c)
    BY <2>1, CheckRecoveryKeeps
  <2>2. CASE \E k \in Codes : MailCode(c, k)
    BY <2>2, MailCodeKeeps
  <2>3. CASE AskRefused(c) \/ StoreFails(c)
    BY <2>3, RefusedKeeps
  <2>4. CASE Reselect(c)
    BY <2>4, ReselectKeeps
  <2>5. CASE StoreNew(c)
    BY <2>5, StoreNewKeeps
  <2>6. CASE StoreAgain(c)
    BY <2>6, StoreAgainKeeps
  <2>7. CASE Spend(c)
    BY <2>7, SpendKeeps
  <2>8. CASE Register(c)
    BY <2>8, RegisterKeeps
  <2>9. CASE Recover(c)
    BY <2>9, RecoverKeeps
  <2>10. CASE LookForGrant(c)
    BY <2>10, LookForGrantKeeps
  <2>11. CASE Grant(c)
    BY <2>11, GrantKeeps
  <2>12. CASE Authenticate(c)
    BY <2>12, AuthenticateKeeps
  <2>13. CASE FinishChange(c)
    BY <2>13, FinishChangeKeeps
  <2> QED
    BY <1>2, <2>1, <2>2, <2>3, <2>4, <2>5, <2>6, <2>7, <2>8, <2>9, <2>10, <2>11, <2>12,
       <2>13 DEF Serve
<1>3. ASSUME NEW t \in tasks, Cleanup(t) PROVE IInv'
  BY <1>3, CleanupKeeps
<1>4. ASSUME NEW w \in rows, Expire(w) PROVE IInv'
  BY <1>4, ExpireKeeps
<1>5. CASE Restart
  BY <1>5, RestartKeeps
<1>6. ASSUME NEW u \in users, DeleteAccount(u) PROVE IInv'
  BY <1>6, DeleteAccountKeeps
<1>7. CASE UNCHANGED vars
  <2>1. UNCHANGED <<rows, nextId, users, recovery, req, tasks, boot, proved, changed>>
    BY <1>7 DEF vars
  <2>2. FoundExpired' /\ CodesWatched'
    BY <2>1 DEF IInv, FoundExpired, CodesWatched
  <2>3. tasks' \subseteq Task /\ \A t \in tasks' : t.found < nextId
    BY <2>1 DEF IInv, TypeOK, Keys
  <2> QED
    BY <2>1, <2>2, <2>3, LoopStep
<1> QED
  BY <1>1, <1>2, <1>3, <1>4, <1>5, <1>6, <1>7 DEF Next

\* The inductive invariant holds in every state of the service.
THEOREM IInvAlways == Spec => []IInv
<1>1. Init => IInv
  BY InitIInv
<1>2. IInv /\ [Next]_vars => IInv'
  BY StepKeepsIInv
<1> QED
  BY <1>1, <1>2, PTL DEF Spec

\* The store, the accounts, the requests in flight and the cleanup tasks keep their
\* types: a code kept by an update is still a code, a reset applies to an address.
THEOREM CodesTypeCorrect == Spec => []TypeOK
<1>1. IInv => TypeOK
  BY DEF IInv
<1> QED
  BY <1>1, IInvAlways, PTL

\* Every code row of this boot has a cleanup task polling for exactly that row.
THEOREM EveryCodeWatched == Spec => []CodesWatched
<1>1. IInv => CodesWatched
  BY DEF IInv
<1> QED
  BY <1>1, IInvAlways, PTL

\* Accounts, recovery addresses, reset confirmations and changed passwords come
\* only from an unexpired code for that address and purpose.
THEOREM EveryEffectProved == Spec => []EffectsProved
<1>1. IInv => EffectsProved
  BY DEF IInv
<1> QED
  BY <1>1, IInvAlways, PTL

\* The cleanup loop deletes by a key it read a step earlier, and yet only expired rows.
THEOREM CleanupDeletesExpired == Spec => CleanupSparesLive
<1>1. ASSUME IInv, NEW t \in tasks, LoopDeletes(t), NEW w \in rows \ rows'
      PROVE  w.expired
  <2>1. w.id = t.found
    BY <1>1 DEF LoopDeletes, Without
  <2> QED
    BY <1>1, <2>1 DEF IInv, FoundExpired
<1>2. IInv /\ [Next]_vars =>
        [\A t \in tasks : LoopDeletes(t) => \A w \in rows \ rows' : w.expired]_vars
  BY <1>1
<1> QED
  BY <1>2, IInvAlways, PTL DEF Spec, CleanupSparesLive

-----------------------------------------------------------------------------
(***************************************************************************)
(* Confirmations.  A loop never holds the key of one, since it found its   *)
(* row by the reason of a code, and keys do not come back.                 *)
(***************************************************************************)
FoundCode == \A t \in tasks, w \in rows : t.found = w.id => w.reason \in CodeReasons

\* The rows are old ones, of the same reason, or have a new key, and the loops hold the
\* keys they held, or none.
LEMMA FoundCodeKept ==
    ASSUME IInv, FoundCode,
           \A v \in rows' : \/ v.id >= nextId
                            \/ \E w \in rows : w.id = v.id /\ w.reason = v.reason,
           \A s \in tasks' : s.found = 0 \/ \E t \in tasks : t.found = s.found
    PROVE  FoundCode'
<1> SUFFICES ASSUME NEW s \in tasks', NEW v \in rows', s.found = v.id
             PROVE  v.reason \in CodeReasons
  BY DEF FoundCode
<1>1. /\ nextId \in Nat \ {0} /\ \A w \in rows : w.id \in Nat /\ 0 < w.id
      /\ \A t \in tasks : t.found \in Nat /\ t.found < nextId
  BY DEF IInv, TypeOK, Keys, Row, Task
<1>2. PICK t \in tasks : t.found = s.found
  BY <1>1
<1>3. PICK w \in rows : w.id = v.id /\ w.reason = v.reason
  BY <1>1, <1>2
<1> QED  BY <1>2, <1>3 DEF FoundCode

\* A step that changes the row w and neither its key nor its address nor its reason
Rewrites(w) ==
    \E v : /\ rows' = (rows \ {w}) \cup {v}
          /\ v.id = w.id /\ v.email = w.email /\ v.reason = w.reason

\* Storing a code adds a row with a new key or rewrites one of the same reason.
LEMMA StoredRows ==
    ASSUME IInv, NEW c \in Clients
    PROVE  /\ StoreNew(c) \/ Grant(c) =>
                 /\ rows \subseteq rows'
                 /\ \A v \in rows' : v \in rows \/ v.id >= nextId
           /\ StoreAgain(c) =>
                 \E w \in rows : Rewrites(w)
<1>1. nextId \in Nat
  BY DEF IInv, TypeOK
<1>2. ASSUME NEW e, NEW r, NEW k, Insert(e, r, k)
      PROVE  rows \subseteq rows' /\ \A v \in rows' : v \in rows \/ v.id >= nextId
  BY <1>1, <1>2 DEF Insert
<1>3. StoreNew(c) \/ Grant(c) =>
         rows \subseteq rows' /\ \A v \in rows' : v \in rows \/ v.id >= nextId
  BY <1>2 DEF StoreNew, Grant
<1>4. ASSUME StoreAgain(c)
      PROVE  \E w \in rows : Rewrites(w)
  <2>1. PICK w \in rows : \E code, b :
           rows' = (rows \ {w}) \cup {[w EXCEPT !.code = code, !.boot = b, !.expired = FALSE]}
    <3>1. PICK w \in rows :
             LET kept == req[c].code = req[c].old
             IN rows' = (rows \ {w}) \cup
                  {[w EXCEPT !.code = IF kept THEN w.code ELSE req[c].code,
                             !.boot = IF kept /\ w.code # req[c].code THEN w.boot ELSE boot,
                             !.expired = FALSE]}
      BY <1>4 DEF StoreAgain
    <3> QED  BY <3>1
  <2>2. PICK code, b :
           rows' = (rows \ {w}) \cup {[w EXCEPT !.code = code, !.boot = b, !.expired = FALSE]}
    BY <2>1
  <2> DEFINE v == [w EXCEPT !.code = code, !.boot = b, !.expired = FALSE]
  <2>3. w \in Row
    BY DEF IInv, TypeOK
  <2>4. v.id = w.id /\ v.email = w.email /\ v.reason = w.reason
    BY <2>3 DEF Row
  <2>5. rows' = (rows \ {w}) \cup {v}
    BY <2>2
  <2> HIDE DEF v
  <2> QED  BY <2>4, <2>5 DEF Rewrites
<1> QED  BY <1>3, <1>4

\* The passing of a lifetime rewrites a row of the same reason.
LEMMA ExpiredRow ==
    ASSUME IInv, NEW w \in rows, Expire(w)
    PROVE  Rewrites(w)
<1> DEFINE v == [w EXCEPT !.expired = TRUE]
<1>1. w \in Row
  BY DEF IInv, TypeOK
<1>2. v.id = w.id /\ v.email = w.email /\ v.reason = w.reason
  BY <1>1 DEF Row
<1>3. rows' = (rows \ {w}) \cup {v}
  BY DEF Expire
<1> HIDE DEF v
<1> QED  BY <1>2, <1>3 DEF Rewrites

\* The steps that leave the rows alone, and the tasks.
LEMMA RowsAlone ==
    ASSUME NEW c \in Clients
    PROVE  /\ Arrive(c) => UNCHANGED <<rows, tasks>>
           /\ \/ CheckRecovery(c) \/ (\E k \in Codes : MailCode(c, k)) \/ AskRefused(c)
              \/ Reselect(c) \/ StoreFails(c) \/ Register(c) \/ Recover(c)
              \/ LookForGrant(c) \/ Authenticate(c)
              => UNCHANGED <<rows, tasks>>
           /\ Spend(c) \/ FinishChange(c) => rows' \subseteq rows /\ UNCHANGED tasks
           /\ StoreNew(c) \/ StoreAgain(c) \/ Grant(c) =>
                 \A s \in tasks' : s \in tasks \/ s.found = 0
<1>1. Arrive(c) => UNCHANGED <<rows, tasks>>
  BY DEF Arrive, AskSignup, AskReset, BeginChange, AskRecovery, Present
<1>2. \/ CheckRecovery(c) \/ (\E k \in Codes : MailCode(c, k)) \/ AskRefused(c)
      \/ Reselect(c) \/ StoreFails(c) \/ Register(c) \/ Recover(c)
      \/ LookForGrant(c) \/ Authenticate(c)
      => UNCHANGED <<rows, tasks>>
  BY DEF CheckRecovery, MailCode, AskRefused, Reselect, StoreFails, Register, Recover,
         LookForGrant, Authenticate
<1>3. Spend(c) \/ FinishChange(c) => rows' \subseteq rows /\ UNCHANGED tasks
  BY DEF Spend, FinishChange, Without
<1>4. StoreNew(c) \/ StoreAgain(c) \/ Grant(c) =>
         \A s \in tasks' : s \in tasks \/ s.found = 0
  <2> DEFINE t == [email |-> req[c].email, code |-> req[c].code,
                   reason |-> req[c].reason, found |-> 0]
  <2>1. t.found = 0
    OBVIOUS
  <2>2. Watch(c) => tasks' = tasks \cup {t}
    BY DEF Watch
  <2> HIDE DEF t
  <2> QED  BY <2>1, <2>2 DEF StoreNew, StoreAgain, Grant
<1> QED  BY <1>1, <1>2, <1>3, <1>4

\* No step makes a loop hold the key of a confirmation.
LEMMA NextFoundCode == IInv /\ FoundCode /\ [Next]_vars => FoundCode'
<1> SUFFICES ASSUME IInv, FoundCode, [Next]_vars PROVE FoundCode'
  OBVIOUS
<1>1. ASSUME NEW c \in Clients, Arrive(c) \/ Serve(c) PROVE FoundCode'
  <2>1. CASE StoreNew(c) \/ Grant(c)
    BY <2>1, StoredRows, RowsAlone, FoundCodeKept
  <2>2. CASE StoreAgain(c)
    <3>1. PICK w \in rows : Rewrites(w)
      BY <2>2, StoredRows
    <3>2. \A s \in tasks' : s \in tasks \/ s.found = 0
      BY <2>2, RowsAlone
    <3> QED  BY <3>1, <3>2, FoundCodeKept DEF Rewrites
  <2>3. CASE rows' \subseteq rows /\ UNCHANGED tasks
    BY <2>3, FoundCodeKept
  <2> QED  BY <1>1, <2>1, <2>2, <2>3, RowsAlone DEF Serve
<1>2. ASSUME NEW t \in tasks, Cleanup(t) PROVE FoundCode'
  <2>1. t \in Task
    BY DEF IInv, TypeOK
  <2>2. CASE LoopEnds(t) \/ LoopDeletes(t)
    BY <2>2, FoundCodeKept DEF LoopEnds, LoopDeletes, Without
  <2>3. CASE LoopFails(t)
    <3>1. [t EXCEPT !.found = 0].found = 0
      BY <2>1 DEF Task
    <3> QED  BY <2>3, <3>1, FoundCodeKept DEF LoopFails
  <2>4. CASE LoopFindsExpired(t)
    <3>1. PICK w \in rows : /\ w.reason = t.reason
                            /\ tasks' = (tasks \ {t}) \cup {[t EXCEPT !.found = w.id]}
      BY <2>4 DEF LoopFindsExpired, Watched, Matching, RowsFor
    <3>2. [t EXCEPT !.found = w.id].found = w.id
      BY <2>1 DEF Task
    <3>3. w.reason \in CodeReasons /\ \A v \in rows : v.id = w.id => v = w
      BY <2>1, <3>1 DEF Task, IInv, Keys
    <3> DEFINE s == [t EXCEPT !.found = w.id]
    <3>4. s.found = w.id /\ tasks' = (tasks \ {t}) \cup {s} /\ UNCHANGED rows
      BY <2>4, <3>1, <3>2 DEF LoopFindsExpired
    <3> HIDE DEF s
    <3> QED  BY <3>3, <3>4 DEF FoundCode
  <2> QED  BY <1>2, <2>2, <2>3, <2>4 DEF Cleanup
<1>3. ASSUME NEW w \in rows, Expire(w) PROVE FoundCode'
  <2>1. Rewrites(w) /\ UNCHANGED tasks
    BY <1>3, ExpiredRow DEF Expire
  <2> QED  BY <2>1, FoundCodeKept DEF Rewrites
<1>4. ASSUME NEW u \in users, DeleteAccount(u) PROVE FoundCode'
  BY <1>4 DEF DeleteAccount, FoundCode
<1>5. CASE Restart
  BY <1>5 DEF Restart, FoundCode
<1>6. CASE UNCHANGED vars
  BY <1>6 DEF vars, FoundCode
<1> QED  BY <1>1, <1>2, <1>3, <1>4, <1>5, <1>6 DEF Next

\* Where a confirmation goes, a password change ends.
LEMMA ConfirmationGoes ==
    ASSUME IInv, FoundCode, Next, NEW e \in Emails,
           RowsFor(e, "password_change_confirmation") # {},
           RowsFor(e, "password_change_confirmation")' = {}
    PROVE  \E c \in Clients : /\ req[c].pc \in {"apply", "discard"}
                              /\ req[c].email = e
                              /\ req'[c] = Idle
<1>1. PICK x \in rows : x.email = e /\ x.reason = "password_change_confirmation"
  BY DEF RowsFor
<1>2. \A v \in rows' : ~(v.email = e /\ v.reason = "password_change_confirmation")
  BY DEF RowsFor
<1>3. x.reason \notin CodeReasons
  BY <1>1 DEF CodeReasons
<1>4. ~(rows \subseteq rows')
  BY <1>1, <1>2
<1>5. ASSUME NEW w \in rows, Rewrites(w) PROVE FALSE
  BY <1>1, <1>2, <1>5 DEF Rewrites
<1>6. ASSUME NEW c \in Clients, Serve(c)
      PROVE  /\ req[c].pc \in {"apply", "discard"} /\ req[c].email = e
             /\ req'[c] = Idle
  <2>1. ~(StoreNew(c) \/ Grant(c)) /\ ~StoreAgain(c)
    BY <1>4, <1>5, StoredRows
  <2>2. CASE Spend(c)
    <3>1. x.id = req[c].id /\ req[c].pc = "spend"
      BY <1>1, <1>2, <2>2 DEF Spend, Without
    <3>2. x.reason \in CodeReasons
      BY <3>1 DEF IInv, InFlight, Acting
    <3> QED  BY <1>3, <3>2
  <2>3. CASE FinishChange(c)
    <3>1. x.id = req[c].id /\ req[c].pc \in {"apply", "discard"}
      BY <1>1, <1>2, <2>3 DEF FinishChange, Without
    <3>2. x.email = req[c].email
      BY <3>1 DEF IInv, InFlight, Acting
    <3>3. req'[c] = Idle
      BY <2>3 DEF FinishChange, Reply, IInv, TypeOK
    <3> QED  BY <1>1, <3>1, <3>2, <3>3
  <2>4. CASE UNCHANGED <<rows, tasks>>
    BY <1>4, <2>4
  <2> QED  BY <1>6, <2>1, <2>2, <2>3, <2>4, RowsAlone DEF Serve
<1>7. ASSUME NEW c \in Clients, Arrive(c) PROVE FALSE
  BY <1>4, <1>7, RowsAlone
<1>8. ASSUME NEW t \in tasks, Cleanup(t) PROVE FALSE
  <2>1. LoopDeletes(t)
    BY <1>4, <1>8 DEF Cleanup, LoopEnds, LoopFindsExpired, LoopFails
  <2>2. x.id = t.found
    BY <1>1, <1>2, <2>1 DEF LoopDeletes, Without
  <2> QED  BY <1>3, <2>2 DEF FoundCode
<1>9. ASSUME NEW w \in rows, Expire(w) PROVE FALSE
  BY <1>5, <1>9, ExpiredRow
<1>10. ASSUME Restart \/ \E u \in users : DeleteAccount(u) PROVE FALSE
  BY <1>4, <1>10 DEF Restart, DeleteAccount
<1> QED  BY <1>6, <1>7, <1>8, <1>9, <1>10 DEF Next

\* A confirmation waits for the password change it was given for, however long.
THEOREM ConfirmationsAwaitChange == Spec => ConfirmationsWait
<1> DEFINE Step == \A e \in Emails :
                      /\ RowsFor(e, "password_change_confirmation") # {}
                      /\ RowsFor(e, "password_change_confirmation")' = {}
                      => \E c \in Clients : /\ req[c].pc \in {"apply", "discard"}
                                            /\ req[c].email = e
                                            /\ req'[c] = Idle
<1>1. Init => FoundCode
  BY DEF Init, FoundCode
<1>2. IInv /\ FoundCode /\ [Next]_vars => [Step]_vars
  BY ConfirmationGoes
<1>3. [][Step]_vars <=> ConfirmationsWait
  BY DEF ConfirmationsWait
<1> HIDE DEF Step
<1> QED  BY <1>1, <1>2, <1>3, NextFoundCode, IInvAlways, PTL DEF Spec

-----------------------------------------------------------------------------
(***************************************************************************)
(* EmailCodes implements AddressSlots: every step of a handler, of the     *)
(* cleanup loop, of time and of a restart is a step of the address's slot  *)
(* or leaves all slots as they are.  The invariant above says why a        *)
(* deletion by primary key, made after other requests have committed,      *)
(* still vacates a slot only when the promise allows it.                   *)
(***************************************************************************)

\* Slot, of the rows R
SlotIn(R, e) ==
    IF \E w \in R : w.email = e
    THEN LET w == CHOOSE w \in R : w.email = e
         IN [reason |-> w.reason, expired |-> w.expired]
    ELSE None

SlotsIn(R) == [e \in Emails |-> SlotIn(R, e)]

OneRowEach(R) == \A w1, w2 \in R : w1.email = w2.email => w1 = w2

\* The slot of an address with a row holds the row's purpose and code.
LEMMA SlotTaken ==
    ASSUME NEW R, OneRowEach(R), NEW w \in R
    PROVE  SlotIn(R, w.email) = [reason |-> w.reason, expired |-> w.expired]
<1> DEFINE v == CHOOSE v \in R : v.email = w.email
<1>1. v \in R /\ v.email = w.email
  OBVIOUS
<1>2. v = w
  BY <1>1 DEF OneRowEach
<1> QED
  BY <1>2 DEF SlotIn

\* An address without a row has a free slot.
LEMMA SlotFree ==
    ASSUME NEW R, NEW e, \A w \in R : w.email # e
    PROVE  SlotIn(R, e) = None
BY DEF SlotIn

\* Rows that agree on an address leave its slot alone.
LEMMA SlotSame ==
    ASSUME NEW R1, NEW R2, OneRowEach(R1), OneRowEach(R2), NEW e,
           \A w1 \in R1 : w1.email = e =>
              \E w2 \in R2 : w2.email = e /\ w2.reason = w1.reason /\ w2.expired = w1.expired,
           \A w2 \in R2 : w2.email = e => \E w1 \in R1 : w1.email = e
    PROVE  SlotIn(R1, e) = SlotIn(R2, e)
<1>1. CASE \E w1 \in R1 : w1.email = e
  <2>1. PICK w1 \in R1 : w1.email = e
    BY <1>1
  <2>2. PICK w2 \in R2 : w2.email = e /\ w2.reason = w1.reason /\ w2.expired = w1.expired
    BY <2>1
  <2>3. SlotIn(R1, e) = [reason |-> w1.reason, expired |-> w1.expired]
    BY <2>1, SlotTaken
  <2>4. SlotIn(R2, e) = [reason |-> w2.reason, expired |-> w2.expired]
    BY <2>2, SlotTaken
  <2> QED
    BY <2>2, <2>3, <2>4
<1>2. CASE \A w1 \in R1 : w1.email # e
  BY <1>2, SlotFree
<1> QED
  BY <1>1, <1>2

\* The slot of an address whose row goes.
LEMMA SlotVacated ==
    ASSUME NEW R, OneRowEach(R), NEW w \in R, w.email \in Emails
    PROVE  SlotsIn(R \ {w}) = [SlotsIn(R) EXCEPT ![w.email] = None]
<1>1. OneRowEach(R \ {w})
  BY DEF OneRowEach
<1>2. SlotIn(R \ {w}, w.email) = None
  BY SlotFree DEF OneRowEach
<1>3. ASSUME NEW e \in Emails, e # w.email PROVE SlotIn(R \ {w}, e) = SlotIn(R, e)
  BY <1>1, <1>3, SlotSame
<1> QED
  BY <1>2, <1>3 DEF SlotsIn

\* The slot of an address whose row comes.
LEMMA SlotFilled ==
    ASSUME NEW R, OneRowEach(R), NEW w, w.email \in Emails, \A v \in R : v.email # w.email
    PROVE  SlotsIn(R \cup {w})
              = [SlotsIn(R) EXCEPT ![w.email] = [reason |-> w.reason, expired |-> w.expired]]
<1>1. OneRowEach(R \cup {w})
  BY DEF OneRowEach
<1>2. SlotIn(R \cup {w}, w.email) = [reason |-> w.reason, expired |-> w.expired]
  BY <1>1, SlotTaken
<1>3. ASSUME NEW e \in Emails, e # w.email PROVE SlotIn(R \cup {w}, e) = SlotIn(R, e)
  BY <1>1, <1>3, SlotSame
<1> QED
  BY <1>2, <1>3 DEF SlotsIn

\* The slot of an address whose row is rewritten.
LEMMA SlotRewritten ==
    ASSUME NEW R, OneRowEach(R), NEW w \in R, w.email \in Emails, NEW new, new.email = w.email
    PROVE  SlotsIn((R \ {w}) \cup {new})
              = [SlotsIn(R) EXCEPT ![w.email] = [reason |-> new.reason, expired |-> new.expired]]
<1>1. OneRowEach(R \ {w}) /\ \A v \in R \ {w} : v.email # w.email
  BY DEF OneRowEach
<1>2. SlotsIn((R \ {w}) \cup {new})
        = [SlotsIn(R \ {w}) EXCEPT ![w.email] = [reason |-> new.reason, expired |-> new.expired]]
  BY <1>1, SlotFilled
<1>3. SlotsIn(R \ {w}) = [SlotsIn(R) EXCEPT ![w.email] = None]
  BY SlotVacated
<1> QED
  BY <1>2, <1>3 DEF SlotsIn

\* The mapped slots, in this state and in the next.
LEMMA SlotsNow == slotOf = SlotsIn(rows) /\ slotOf' = SlotsIn(rows')
BY DEF slotOf, Slot, Taken, SlotIn, SlotsIn

\* The slot of an address is read off its one row.
LEMMA SlotOfRow ==
    ASSUME IInv, NEW w \in rows
    PROVE  /\ w.email \in Emails
           /\ slotOf[w.email] = [reason |-> w.reason, expired |-> w.expired]
           /\ slotOf[w.email] # None
           /\ slotOf[w.email].reason = w.reason
           /\ slotOf[w.email].expired = w.expired
<1>1. OneRowEach(rows) /\ w \in Row /\ w.email \in Emails
  BY DEF IInv, Keys, OneRowEach, TypeOK, Row
<1>2. slotOf[w.email] = [reason |-> w.reason, expired |-> w.expired]
  BY <1>1, SlotsNow, SlotTaken DEF SlotsIn
<1>3. [reason |-> w.reason, expired |-> w.expired] \in SlotValue
  BY <1>1 DEF Row, SlotValue
<1>4. slotOf[w.email] # None
  BY <1>2, <1>3, ConstantsAssumption
<1>5. slotOf[w.email].reason = w.reason /\ slotOf[w.email].expired = w.expired
  BY <1>2
<1> QED
  BY <1>1, <1>2, <1>4, <1>5

\* Without a row of the address the slot is free.
LEMMA SlotOfNone ==
    ASSUME NEW e \in Emails, ~Taken(e)
    PROVE  slotOf[e] = None
BY SlotsNow, SlotFree DEF SlotsIn, Taken

-----------------------------------------------------------------------------
(***************************************************************************)
(* Steps.                                                                  *)
(***************************************************************************)
THEOREM InitPromise == Init => Slots!Init
<1> SUFFICES ASSUME Init PROVE Slots!Init
  OBVIOUS
<1>1. \A e \in Emails : SlotIn(rows, e) = None
  BY SlotFree DEF Init
<1>2. slotOf = [e \in Emails |-> None]
  BY <1>1, SlotsNow DEF SlotsIn
<1> QED
  BY <1>2 DEF Init, Slots!Init

\* A step that leaves rows and effects alone is a stutter of the promise.
LEMMA Stutter ==
    ASSUME UNCHANGED <<rows, users, recovery, proved, changed>>
    PROVE  UNCHANGED Slots!vars
BY SlotsNow DEF Slots!vars

\* The insert of a row for a code.
LEMMA StoreNewPromise ==
    ASSUME IInv, NEW c \in Clients, StoreNew(c)
    PROVE  Slots!Next
<1> DEFINE e   == req[c].email
           r   == req[c].reason
           new == [id |-> nextId, email |-> e, reason |-> r, code |-> req[c].code,
                   expired |-> FALSE, boot |-> boot]
<1>1. e \in Emails /\ r \in CodeReasons /\ ~Taken(e)
  BY DEF StoreNew, IInv, InFlight, Asking
<1>2. /\ rows' = rows \cup {new}
      /\ UNCHANGED <<users, recovery, proved, changed>>
  BY DEF StoreNew, Insert
<1>3. new.email = e /\ new.reason = r /\ new.expired = FALSE
  OBVIOUS
<1> HIDE DEF new, e, r
<1>4. OneRowEach(rows) /\ \A v \in rows : v.email # e
  BY <1>1 DEF IInv, Keys, OneRowEach, Taken
<1>5. slotOf' = [slotOf EXCEPT ![e] = [reason |-> r, expired |-> FALSE]]
  <2>1. SlotsIn(rows \cup {new})
          = [SlotsIn(rows) EXCEPT ![new.email] = [reason |-> new.reason, expired |-> new.expired]]
    BY <1>1, <1>3, <1>4, SlotFilled
  <2> QED
    BY <1>2, <1>3, <2>1, SlotsNow
<1>6. Slots!Issue(e, r)
  BY <1>1, <1>2, <1>5, SlotOfNone DEF Slots!Issue, Slots!Free
<1> QED
  BY <1>1, <1>6 DEF Slots!Next, Slots!CodeReasons, CodeReasons

\* The insert of a reset confirmation.
LEMMA GrantPromise ==
    ASSUME IInv, NEW c \in Clients, Grant(c)
    PROVE  Slots!Next \/ UNCHANGED Slots!vars
<1>1. UNCHANGED <<users, recovery, proved, changed>>
  BY DEF Grant
<1>2. CASE UNCHANGED <<rows, nextId>>
  BY <1>1, <1>2, Stutter
<1>3. CASE ~Taken(req[c].email) /\ Insert(req[c].email, "password_change_confirmation", None)
  <2> DEFINE e   == req[c].email
             new == [id |-> nextId, email |-> e, reason |-> "password_change_confirmation",
                     code |-> None, expired |-> FALSE, boot |-> boot]
  <2>1. e \in Emails /\ <<e, "password_change">> \in proved
    BY DEF Grant, IInv, InFlight, Acting
  <2>2. ~Taken(e) /\ rows' = rows \cup {new}
    BY <1>3 DEF Insert
  <2>3. new.email = e /\ new.reason = "password_change_confirmation" /\ new.expired = FALSE
    OBVIOUS
  <2> HIDE DEF new, e
  <2>4. OneRowEach(rows) /\ \A v \in rows : v.email # e
    BY <2>2 DEF IInv, Keys, OneRowEach, Taken
  <2>5. slotOf' = [slotOf EXCEPT ![e] = [reason |-> "password_change_confirmation",
                                         expired |-> FALSE]]
    <3>1. SlotsIn(rows \cup {new})
            = [SlotsIn(rows) EXCEPT ![new.email] = [reason |-> new.reason, expired |-> new.expired]]
      BY <2>1, <2>3, <2>4, SlotFilled
    <3> QED
      BY <2>2, <2>3, <3>1, SlotsNow
  <2>6. Slots!Confirm(e)
    BY <1>1, <2>1, <2>2, <2>5, SlotOfNone DEF Slots!Confirm, Slots!Free
  <2> QED
    BY <2>1, <2>6 DEF Slots!Next
<1> QED
  BY <1>2, <1>3 DEF Grant

\* An update that keeps the row's purpose, and that it has not expired.
LEMMA StoreAgainPromise ==
    ASSUME IInv, NEW c \in Clients, StoreAgain(c)
    PROVE  UNCHANGED Slots!vars
<1>1. PICK w \in rows, k \in Codes \cup {None}, b \in Nat :
         /\ w.id = req[c].id
         /\ rows' = (rows \ {w}) \cup {[w EXCEPT !.code = k, !.boot = b, !.expired = FALSE]}
  <2>1. PICK w \in rows :
           /\ w.id = req[c].id
           /\ rows' = (rows \ {w}) \cup
                 {[w EXCEPT !.code = IF req[c].code = req[c].old THEN w.code ELSE req[c].code,
                            !.boot = IF req[c].code = req[c].old /\ w.code # req[c].code
                                     THEN w.boot ELSE boot,
                            !.expired = FALSE]}
    BY DEF StoreAgain
  <2>2. w.code \in Codes \cup {None} /\ w.boot \in Nat /\ boot \in Nat
        /\ req[c].code \in Codes \cup {None}
    BY DEF IInv, TypeOK, Row, Request
  <2> QED
    BY <2>1, <2>2
<1> DEFINE new == [w EXCEPT !.code = k, !.boot = b, !.expired = FALSE]
<1>2. w \in Row /\ ~w.expired /\ w.expired \in BOOLEAN /\ w.email \in Emails
  BY <1>1 DEF StoreAgain, IInv, TypeOK, Row, InFlight, Asking
<1>3. new.email = w.email /\ new.reason = w.reason /\ new.expired = FALSE
  BY <1>2 DEF Row
<1>4. rows' = (rows \ {w}) \cup {new}
  BY <1>1
<1> HIDE DEF new
<1>5. OneRowEach(rows)
  BY DEF IInv, Keys, OneRowEach
<1>6. SlotsIn(rows') = [SlotsIn(rows) EXCEPT ![w.email] = [reason |-> new.reason,
                                                         expired |-> new.expired]]
  BY <1>2, <1>3, <1>4, <1>5, SlotRewritten
<1>7. SlotsIn(rows)[w.email] = [reason |-> w.reason, expired |-> w.expired]
  BY SlotOfRow, SlotsNow
<1>8. SlotsIn(rows') = SlotsIn(rows)
  <2>1. w.expired = FALSE
    BY <1>2
  <2>2. SlotsIn(rows') = [SlotsIn(rows) EXCEPT ![w.email] = SlotsIn(rows)[w.email]]
    BY <2>1, <1>3, <1>6, <1>7
  <2> QED  BY <2>2 DEF SlotsIn
<1>9. UNCHANGED <<users, recovery, proved, changed>>
  BY DEF StoreAgain
<1> QED
  BY <1>8, <1>9, SlotsNow DEF Slots!vars

\* Presenting a code changes nothing the specification of the slots sees.
LEMMA PresentPromise ==
    ASSUME IInv, NEW c \in Clients, NEW e \in Emails, NEW k \in Codes, NEW r \in CodeReasons,
           NEW who \in Emails \cup {None}, Present(c, e, k, r, who)
    PROVE  Slots!Next
<1>1. PICK w \in rows : /\ w.email = e /\ w.reason = r /\ ~w.expired
                        /\ proved' = proved \cup {<<e, w.reason>>}
  BY DEF Present, Matching, RowsFor
<1>2. w.expired = FALSE
  BY <1>1 DEF IInv, TypeOK, Row
<1>3. slotOf[e] = [reason |-> r, expired |-> FALSE] /\ slotOf[e] # None
  BY <1>1, <1>2, SlotOfRow
<1>4. UNCHANGED <<slotOf, users, recovery, changed>>
  BY SlotsNow DEF Present
<1>5. Slots!Prove(e, r)
  BY <1>1, <1>3, <1>4 DEF Slots!Prove, Slots!Free
<1> QED
  BY <1>5 DEF Slots!Next, Slots!CodeReasons, CodeReasons

\* A deletion by primary key: the row is gone already, or its slot is vacated.
LEMMA WithoutPromise ==
    ASSUME IInv, NEW i \in Nat, rows' = Without(i)
    PROVE  \/ UNCHANGED slotOf
           \/ \E w \in rows : w.id = i /\ slotOf' = [slotOf EXCEPT ![w.email] = None]
<1>1. CASE \A w \in rows : w.id # i
  <2>1. rows' = rows
    BY <1>1 DEF Without
  <2> QED
    BY <2>1, SlotsNow
<1>2. ASSUME NEW w \in rows, w.id = i PROVE slotOf' = [slotOf EXCEPT ![w.email] = None]
  <2>1. OneRowEach(rows) /\ w.email \in Emails /\ rows' = rows \ {w}
    BY <1>2 DEF IInv, Keys, OneRowEach, Without, TypeOK, Row
  <2> QED
    BY <2>1, SlotVacated, SlotsNow
<1> QED
  BY <1>1, <1>2

\* Spending a code is the slot being used for what it was sent for.
LEMMA SpendPromise ==
    ASSUME IInv, NEW c \in Clients, Spend(c)
    PROVE  Slots!Next \/ UNCHANGED Slots!vars
<1>1. /\ req[c].id \in Nat /\ rows' = Without(req[c].id)
      /\ <<req[c].email, req[c].reason>> \in proved
      /\ \A w \in rows : w.id = req[c].id => w.email = req[c].email /\ w.reason = req[c].reason
      /\ UNCHANGED <<users, recovery, proved, changed>>
  BY DEF Spend, IInv, TypeOK, Request, InFlight, Acting
<1>2. CASE UNCHANGED slotOf
  BY <1>1, <1>2 DEF Slots!vars
<1>3. ASSUME NEW w \in rows, w.id = req[c].id, slotOf' = [slotOf EXCEPT ![w.email] = None]
      PROVE  Slots!Next
  <2>1. w.email \in Emails /\ slotOf[w.email].reason = w.reason /\ slotOf[w.email] # None
    BY SlotOfRow
  <2>2. Slots!Spend(w.email)
    BY <1>1, <1>3, <2>1 DEF Slots!Spend, Slots!Free, Slots!Vacate
  <2> QED
    BY <2>1, <2>2 DEF Slots!Next
<1> QED
  BY <1>1, <1>2, <1>3, WithoutPromise

\* A password change uses up a confirmation, or keeps it.
LEMMA FinishChangePromise ==
    ASSUME IInv, NEW c \in Clients, FinishChange(c)
    PROVE  Slots!Next
<1> DEFINE e == req[c].email
<1>1. /\ req[c].id \in Nat /\ rows' \in {rows, Without(req[c].id)}
      /\ e \in Emails /\ <<e, "password_change">> \in proved
      /\ \A w \in rows : w.id = req[c].id =>
            w.email = e /\ w.reason = "password_change_confirmation"
      /\ changed' \in {changed, changed \cup {e}}
      /\ UNCHANGED <<users, recovery, proved>>
  BY DEF FinishChange, IInv, TypeOK, Request, InFlight, Acting
<1> HIDE DEF e
<1>2. CASE rows' = rows
  <2>1. UNCHANGED slotOf
    BY <1>2, SlotsNow
  <2>2. Slots!Change(e)
    BY <1>1, <2>1 DEF Slots!Change
  <2> QED
    BY <1>1, <2>2 DEF Slots!Next
<1>3. CASE UNCHANGED slotOf
  <2>1. Slots!Change(e)
    BY <1>1, <1>3 DEF Slots!Change
  <2> QED
    BY <1>1, <2>1 DEF Slots!Next
<1>4. ASSUME NEW w \in rows, w.id = req[c].id, slotOf' = [slotOf EXCEPT ![w.email] = None]
      PROVE  Slots!Next
  <2>0. slotOf[w.email].reason = w.reason /\ slotOf[w.email] # None
    BY SlotOfRow
  <2>1. w.email = e /\ slotOf[e].reason = "password_change_confirmation" /\ slotOf[e] # None
    BY <1>1, <1>4, <2>0
  <2>2. Slots!Change(e)
    BY <1>1, <1>4, <2>1 DEF Slots!Change, Slots!Free, Slots!Vacate
  <2> QED
    BY <1>1, <2>2 DEF Slots!Next
<1> QED
  BY <1>1, <1>2, <1>3, <1>4, WithoutPromise

\* The cleanup frees only the slot of a code past its lifetime.
LEMMA LoopDeletesPromise ==
    ASSUME IInv, NEW t \in tasks, LoopDeletes(t)
    PROVE  Slots!Next \/ UNCHANGED Slots!vars
<1>1. /\ t.found \in Nat /\ rows' = Without(t.found)
      /\ \A w \in rows : w.id = t.found => w.expired
      /\ UNCHANGED <<users, recovery, proved, changed>>
  BY DEF LoopDeletes, IInv, TypeOK, Task, FoundExpired
<1>2. CASE UNCHANGED slotOf
  BY <1>1, <1>2 DEF Slots!vars
<1>3. ASSUME NEW w \in rows, w.id = t.found, slotOf' = [slotOf EXCEPT ![w.email] = None]
      PROVE  Slots!Next
  <2>1. /\ w.email \in Emails /\ slotOf[w.email] # None
        /\ slotOf[w.email].expired = w.expired
    BY SlotOfRow
  <2>2. slotOf[w.email].expired
    <3>1. w.expired
      BY <1>1, <1>3
    <3> QED
      BY <2>1, <3>1, Zenon
  <2>3. Slots!Purge(w.email)
    BY <1>1, <1>3, <2>1, <2>2 DEF Slots!Purge, Slots!Free, Slots!Vacate
  <2> QED
    BY <2>1, <2>3 DEF Slots!Next
<1> QED
  BY <1>1, <1>2, <1>3, WithoutPromise

\* The passing of a lifetime.
LEMMA ExpirePromise ==
    ASSUME IInv, NEW w \in rows, Expire(w)
    PROVE  Slots!Next
<1> DEFINE new == [w EXCEPT !.expired = TRUE]
<1>1. w \in Row /\ w.email \in Emails /\ w.expired = FALSE /\ OneRowEach(rows)
  BY DEF Expire, IInv, TypeOK, Row, Keys, OneRowEach
<1>2. new.email = w.email /\ new.reason = w.reason /\ new.expired = TRUE
  BY <1>1 DEF Row
<1>3. /\ rows' = (rows \ {w}) \cup {new}
      /\ UNCHANGED <<users, recovery, proved, changed>>
  BY DEF Expire
<1> HIDE DEF new
<1>4. slotOf' = [slotOf EXCEPT ![w.email] = [reason |-> w.reason, expired |-> TRUE]]
  <2>1. SlotsIn((rows \ {w}) \cup {new})
          = [SlotsIn(rows) EXCEPT ![w.email] = [reason |-> new.reason, expired |-> new.expired]]
    BY <1>1, <1>2, SlotRewritten
  <2> QED
    BY <1>2, <1>3, <2>1, SlotsNow
<1>5. /\ slotOf[w.email] # None
      /\ slotOf[w.email].reason = w.reason
      /\ slotOf[w.email].expired = w.expired
  BY SlotOfRow
<1>6. ~slotOf[w.email].expired
  BY <1>1, <1>5
<1>7. slotOf' = [slotOf EXCEPT ![w.email] = [reason |-> slotOf[w.email].reason, expired |-> TRUE]]
  BY <1>4, <1>5
<1>8. Slots!Expire(w.email)
  BY <1>3, <1>5, <1>6, <1>7 DEF Slots!Expire, Slots!Free
<1> QED
  BY <1>1, <1>8 DEF Slots!Next

\* A registration is backed by a spent signup code.
LEMMA RegisterPromise ==
    ASSUME IInv, NEW c \in Clients, Register(c)
    PROVE  Slots!Next
<1>1. /\ req[c].email \in Emails
      /\ <<req[c].email, "email_verification">> \in proved
      /\ users' = users \cup {req[c].email}
      /\ UNCHANGED <<slotOf, proved, recovery, changed>>
  BY SlotsNow DEF Register, IInv, InFlight, Acting
<1>2. Slots!SignUp(req[c].email)
  BY <1>1 DEF Slots!SignUp
<1> QED
  BY <1>1, <1>2 DEF Slots!Next

\* A recovery address is set, or the UNIQUE column or a closed account refuses it.
LEMMA RecoverPromise ==
    ASSUME IInv, NEW c \in Clients, Recover(c)
    PROVE  Slots!Next \/ UNCHANGED Slots!vars
<1> DEFINE e == req[c].email
           u == req[c].who
<1>1. /\ e \in Emails /\ u \in Emails \cup {None}
      /\ <<e, "recovery_email_verification">> \in proved
      /\ UNCHANGED <<slotOf, proved, users, changed>>
  BY SlotsNow DEF Recover, IInv, TypeOK, Request, InFlight, Acting
<1>2. CASE u = None \/ \E v \in users \ {u} : recovery[v] = e
  BY <1>1, <1>2 DEF Recover, Slots!vars
<1>3. CASE u # None /\ \A v \in users \ {u} : recovery[v] # e
  <2>1. recovery' = [recovery EXCEPT ![u] = e]
    BY <1>3 DEF Recover
  <2>2. u \in Emails /\ Slots!SetRecovery(u, e)
    BY <1>1, <1>3, <2>1 DEF Slots!SetRecovery
  <2> QED
    BY <1>1, <1>3, <2>2 DEF Slots!Next
<1> QED
  BY <1>2, <1>3

\* The steps of a request that only read, or are refused.
LEMMA ReadingPromise ==
    ASSUME NEW c \in Clients,
           \/ \E e \in Emails : \/ AskSignup(c, e) \/ AskReset(c, e) \/ BeginChange(c, e)
                                \/ \E who \in Emails : AskRecovery(c, who, e)
           \/ CheckRecovery(c) \/ (\E k \in Codes : MailCode(c, k)) \/ AskRefused(c)
           \/ Reselect(c) \/ StoreFails(c) \/ LookForGrant(c) \/ Authenticate(c)
    PROVE  UNCHANGED Slots!vars
<1>1. UNCHANGED <<rows, users, recovery, proved, changed>>
  BY DEF AskSignup, AskReset, BeginChange, AskRecovery, CheckRecovery, MailCode, AskRefused,
         Reselect, StoreFails, LookForGrant, Authenticate
<1> QED
  BY <1>1, Stutter

\* Every step of a cleanup task is a step or a stutter of the slots.
LEMMA CleanupPromise ==
    ASSUME IInv, NEW t \in tasks, Cleanup(t)
    PROVE  Slots!Next \/ UNCHANGED Slots!vars
<1>1. CASE LoopDeletes(t)
  BY <1>1, LoopDeletesPromise
<1>2. CASE LoopEnds(t) \/ LoopFindsExpired(t) \/ LoopFails(t)
  <2>1. UNCHANGED <<rows, users, recovery, proved, changed>>
    BY <1>2 DEF LoopEnds, LoopFindsExpired, LoopFails
  <2> QED
    BY <2>1, Stutter
<1> QED
  BY <1>1, <1>2 DEF Cleanup

\* Every arrival of a request is a step or a stutter of the slots.
LEMMA ArrivePromise ==
    ASSUME IInv, NEW c \in Clients, Arrive(c)
    PROVE  Slots!Next \/ UNCHANGED Slots!vars
<1>1. CASE \E e \in Emails, k \in Codes, r \in CodeReasons, who \in Emails \cup {None} :
              Present(c, e, k, r, who)
  BY <1>1, PresentPromise
<1>2. CASE \E e \in Emails : \/ AskSignup(c, e) \/ AskReset(c, e) \/ BeginChange(c, e)
                             \/ \E who \in Emails : AskRecovery(c, who, e)
  BY <1>2, ReadingPromise
<1> QED
  BY <1>1, <1>2 DEF Arrive

\* Every step of a handler is a step or a stutter of the slots.
LEMMA ServePromise ==
    ASSUME IInv, NEW c \in Clients, Serve(c)
    PROVE  Slots!Next \/ UNCHANGED Slots!vars
<1>1. CASE \/ CheckRecovery(c) \/ (\E k \in Codes : MailCode(c, k)) \/ AskRefused(c)
           \/ Reselect(c) \/ StoreFails(c) \/ LookForGrant(c) \/ Authenticate(c)
  BY <1>1, ReadingPromise
<1>2. CASE StoreNew(c)
  BY <1>2, StoreNewPromise
<1>3. CASE StoreAgain(c)
  BY <1>3, StoreAgainPromise
<1>4. CASE Spend(c)
  BY <1>4, SpendPromise
<1>5. CASE Register(c)
  BY <1>5, RegisterPromise
<1>6. CASE Recover(c)
  BY <1>6, RecoverPromise
<1>7. CASE Grant(c)
  BY <1>7, GrantPromise
<1>8. CASE FinishChange(c)
  BY <1>8, FinishChangePromise
<1> QED
  BY <1>1, <1>2, <1>3, <1>4, <1>5, <1>6, <1>7, <1>8 DEF Serve

\* Every step from a state of the invariant is a step of the slots or a stutter.
THEOREM NextPromise == IInv /\ [Next]_vars => [Slots!Next]_(Slots!vars)
<1> SUFFICES ASSUME IInv, [Next]_vars PROVE Slots!Next \/ UNCHANGED Slots!vars
  OBVIOUS
<1>1. ASSUME NEW c \in Clients, Arrive(c) PROVE Slots!Next \/ UNCHANGED Slots!vars
  BY <1>1, ArrivePromise
<1>2. ASSUME NEW c \in Clients, Serve(c) PROVE Slots!Next \/ UNCHANGED Slots!vars
  BY <1>2, ServePromise
<1>3. ASSUME NEW t \in tasks, Cleanup(t) PROVE Slots!Next \/ UNCHANGED Slots!vars
  BY <1>3, CleanupPromise
<1>4. ASSUME NEW w \in rows, Expire(w) PROVE Slots!Next \/ UNCHANGED Slots!vars
  BY <1>4, ExpirePromise
<1>5. CASE Restart
  <2>1. UNCHANGED slotOf
    BY <1>5, SlotsNow DEF Restart
  <2>2. Slots!Restore
    BY <1>5, <2>1 DEF Restart, SeedAdmin, Slots!Restore
  <2> QED
    BY <2>2 DEF Slots!Next
<1>6. ASSUME NEW u \in users, DeleteAccount(u) PROVE Slots!Next \/ UNCHANGED Slots!vars
  <2>1. u \in Emails /\ UNCHANGED slotOf
    BY <1>6, SlotsNow DEF DeleteAccount, IInv, TypeOK
  <2>2. Slots!Leave(u)
    BY <1>6, <2>1 DEF DeleteAccount, Slots!Leave
  <2> QED
    BY <2>1, <2>2 DEF Slots!Next
<1>7. CASE UNCHANGED vars
  <2>1. UNCHANGED <<rows, users, recovery, proved, changed>>
    BY <1>7 DEF vars
  <2> QED
    BY <2>1, Stutter
<1> QED
  BY <1>1, <1>2, <1>3, <1>4, <1>5, <1>6, <1>7 DEF Next

\* The e-mail code service keeps the promise of AddressSlots (KeepsPromise) for
\* any number of addresses, codes, requests in flight, rows and restarts: no
\* interleaving of its handlers and cleanup tasks empties, re-purposes or
\* revives an address's slot, or acts for an address without its proof.
THEOREM ServiceKeepsPromise == Spec => KeepsPromise
<1>1. Init => Slots!Init
  BY InitPromise
<1>2. IInv /\ [Next]_vars => [Slots!Next]_(Slots!vars)
  BY NextPromise
<1>3. Spec => []IInv
  BY IInvAlways
<1> QED
  BY <1>1, <1>2, <1>3, PTL DEF Spec, KeepsPromise, Slots!Spec
=============================================================================
