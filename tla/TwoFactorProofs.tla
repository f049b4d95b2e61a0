---------------------------- MODULE TwoFactorProofs ---------------------------
(***************************************************************************)
(* Proofs about TwoFactor, for any number of clients, rows and generated   *)
(* secrets.  Enabled settings are confirmed because a setup or a first     *)
(* verification that no write of the switch has overtaken still sees, at   *)
(* its commit, the row it decided on (InFlight).  Dead codes stay dead     *)
(* because a list that loses one code is part of the row's list until it   *)
(* is overtaken, because batches are fresh (Unseen) and because no code is *)
(* ever in reach of two rows (Apart).                                      *)
(***************************************************************************)
EXTENDS TwoFactor, TLAPS

Fresh(q) == q.kind \in {"setup", "regenerate"}

\* What a request in flight knows of the row it loaded
Shape(q) ==
    /\ q.kind = "idle" => q.id = None
    /\ q.kind # "idle" => q.copy \in Columns
    /\ q.kind # "idle" /\ q.id = None => q.kind = "setup"
    /\ q.id # None => Exists(q.id)
    /\ q.kind = "setup" =>
          /\ q.copy.enabled = FALSE /\ "enabled" \notin q.dirty
          /\ q.id # None /\ q.raced \cap Switch = {} => ~rows[q.id].is.enabled
    /\ q.kind = "verify" =>
          /\ q.copy.enabled = TRUE /\ q.copy.verified = TRUE
          /\ "verified" \in q.dirty /\ "secret" \notin q.dirty /\ "codes" \notin q.dirty
          /\ q.raced \cap Switch = {} =>
                /\ rows[q.id].is.secret \in confirmed
                /\ "enabled" \in q.dirty \/ rows[q.id].is.enabled
    /\ q.kind = "consume" =>
          /\ q.dirty = {"codes"} /\ q.code \in Code /\ q.code \notin q.copy.codes
          /\ "codes" \notin q.raced => q.copy.codes \subseteq rows[q.id].is.codes
    /\ q.kind = "disable" =>
          q.copy.enabled = FALSE /\ "enabled" \in q.dirty /\ q.copy.codes = {}
    /\ q.kind = "regenerate" => q.dirty \cap Switch = {}

InFlight == \A c \in Clients : Shape(req[c])

\* The codes a request that uses one may bring back, or has in hand
InReach(q, k) == q.kind = "consume" /\ (k \in q.copy.codes \/ k = q.code)

Holds(i, k) ==
    \/ Exists(i) /\ k \in rows[i].is.codes
    \/ \E c \in Clients : req[c].id = i /\ InReach(req[c], k)

\* Codes that exist outside the requests that have just generated some
Known(k) == k \in spent \cup dropped \/ \E i \in Ids : Holds(i, k)

Generated ==
    /\ \A k \in Code : Known(k) => k[1] <= generated
    /\ \A c \in Clients : Fresh(req[c]) => \A k \in req[c].copy.codes : k[1] <= generated

Unseen ==
    \A c \in Clients : Fresh(req[c]) =>
        \A k \in req[c].copy.codes :
            /\ ~Known(k)
            /\ \A d \in Clients \ {c} : Fresh(req[d]) => k \notin req[d].copy.codes

Apart == \A i, j \in Ids, k \in Code : Holds(i, k) /\ Holds(j, k) => i = j

IInv ==
    /\ TypeOK
    /\ InFlight
    /\ Generated
    /\ Unseen
    /\ Apart
    /\ EnabledIsConfirmed
    /\ DeadCodesStayDead

-----------------------------------------------------------------------------
\* An idle slot holds no row, no copy and no code.
LEMMA IdleShape == Idle \in Request /\ Idle.kind = "idle" /\ Shape(Idle) /\ ~Fresh(Idle)
                   /\ Idle.id = None
<1>1. Idle \in Request /\ Idle.kind = "idle" /\ Idle.id = None
  BY DEF Idle, Request, Kinds
<1> QED
  BY <1>1 DEF Shape, Fresh

\* No settings, no requests, nothing generated: the invariant holds.
THEOREM InitIInv == Init => IInv
<1> SUFFICES ASSUME Init PROVE IInv
  OBVIOUS
<1>1. TypeOK
  BY IdleShape DEF Init, TypeOK
<1>2. \A c \in Clients : req[c] = Idle
  BY DEF Init
<1>3. InFlight
  BY <1>2, IdleShape DEF InFlight
<1>4. \A i \in Ids : ~Exists(i)
  BY DEF Init, Exists
<1>5. \A k : ~Known(k)
  BY <1>2, <1>4, IdleShape DEF Init, Known, Holds, InReach
<1>6. Generated /\ Unseen
  BY <1>2, <1>5, IdleShape DEF Generated, Unseen
<1>7. Apart
  BY <1>2, <1>4, IdleShape DEF Apart, Holds, InReach
<1> QED
  BY <1>1, <1>3, <1>4, <1>6, <1>7 DEF IInv, EnabledIsConfirmed, DeadCodesStayDead

-----------------------------------------------------------------------------
(***************************************************************************)
(* Loading the row.                                                        *)
(***************************************************************************)
\* A request begins with copy q.copy, whose codes are of the row or all fresh.
LEMMA BeginStep ==
    ASSUME IInv, NEW c \in Clients, req[c].kind = "idle", NEW q \in Request,
           req' = [req EXCEPT ![c] = q], UNCHANGED <<rows, spent, dropped>>,
           generated' \in {generated, generated + 1},
           confirmed \subseteq confirmed', confirmed' \subseteq Nat,
           Shape(req[c])',
           \A k : InReach(q, k) => q.id \in Ids /\ Exists(q.id) /\ k \in rows[q.id].is.codes,
           Fresh(q) => /\ generated' = generated + 1
                       /\ \A k \in q.copy.codes : k \in Code /\ k[1] = generated + 1
    PROVE  IInv'
<1>1. TypeOK'
  BY DEF IInv, TypeOK
<1>2. req'[c] = q /\ \A d \in Clients \ {c} : req'[d] = req[d]
  BY DEF IInv, TypeOK
<1>3. generated \in Nat /\ \A i : Exists(i)' = Exists(i)
  BY DEF IInv, TypeOK, Exists
<1>4. InFlight'
  <2>1. ASSUME NEW d \in Clients \ {c} PROVE Shape(req[d])'
    <3>1. Shape(req[d]) /\ req'[d] = req[d]
      BY <1>2 DEF IInv, InFlight
    <3> QED
      BY <1>3, <3>1 DEF Shape
  <2> QED
    BY <2>1 DEF InFlight
<1>5. ASSUME NEW i, NEW k, Holds(i, k)' PROVE Holds(i, k)
  <2>1. CASE Exists(i)' /\ k \in rows'[i].is.codes
    BY <1>3, <2>1 DEF Holds
  <2>2. ASSUME NEW d \in Clients, req'[d].id = i, InReach(req'[d], k) PROVE Holds(i, k)
    <3>1. CASE d = c
      BY <1>2, <2>2, <3>1 DEF Holds
    <3>2. CASE d # c
      BY <1>2, <2>2, <3>2 DEF Holds
    <3> QED
      BY <3>1, <3>2
  <2> QED
    BY <1>5, <2>1, <2>2 DEF Holds, InReach
<1>6. \A k : Known(k)' => Known(k)
  BY <1>5 DEF Known
<1>7. \A k \in Code : Known(k) => k[1] <= generated
  BY DEF IInv, Generated
<1>8. \A k \in Code : k[1] \in Nat
  BY DEF Code
<1>9. ASSUME NEW d \in Clients \ {c}, Fresh(req[d])
      PROVE  \A k \in req[d].copy.codes : k \in Code /\ k[1] <= generated /\ ~Known(k)
  <2>1. req[d].copy \in Columns
    BY <1>9 DEF IInv, InFlight, Shape, Fresh
  <2> QED
    BY <1>9, <2>1 DEF IInv, Generated, Unseen, Columns
<1>10. Generated'
  <2>1. \A k \in Code : Known(k)' => k[1] <= generated'
    BY <1>3, <1>6, <1>7, <1>8
  <2>2. ASSUME NEW d \in Clients, Fresh(req'[d]), NEW k \in req'[d].copy.codes
        PROVE  k[1] <= generated'
    <3>1. CASE d = c
      BY <1>2, <1>3, <2>2, <3>1
    <3>2. CASE d # c
      BY <1>2, <1>3, <1>8, <1>9, <2>2, <3>2
    <3> QED
      BY <3>1, <3>2
  <2> QED
    BY <2>1, <2>2 DEF Generated, Fresh
<1>11. Unseen'
  <2>1. ASSUME NEW d \in Clients, Fresh(req'[d]), NEW k \in req'[d].copy.codes
        PROVE  ~Known(k)'
    <3>1. CASE d = c
      BY <1>2, <1>3, <1>6, <1>7, <2>1, <3>1
    <3>2. CASE d # c
      BY <1>2, <1>6, <1>9, <2>1, <3>2
    <3> QED
      BY <3>1, <3>2
  <2>2. ASSUME NEW d \in Clients, Fresh(req'[d]), NEW k \in req'[d].copy.codes,
               NEW e \in Clients \ {d}, Fresh(req'[e])
        PROVE  k \notin req'[e].copy.codes
    <3>1. CASE d = c
      BY <1>2, <1>3, <1>9, <2>2, <3>1
    <3>2. CASE e = c
      BY <1>2, <1>3, <1>9, <2>2, <3>2
    <3>3. CASE d # c /\ e # c
      BY <1>2, <2>2, <3>3 DEF IInv, Unseen
    <3> QED
      BY <3>1, <3>2, <3>3
  <2> QED
    BY <2>1, <2>2 DEF Unseen, Fresh
<1>12. Apart'
  BY <1>5 DEF IInv, Apart
<1>13. EnabledIsConfirmed' /\ DeadCodesStayDead'
  BY <1>3 DEF IInv, EnabledIsConfirmed, DeadCodesStayDead
<1> QED
  BY <1>1, <1>4, <1>10, <1>11, <1>12, <1>13 DEF IInv

-----------------------------------------------------------------------------
\* A column is written exactly when the copy differs from what was loaded.
LEMMA DirtyColumns ==
    ASSUME NEW a, NEW b
    PROVE  /\ Dirty(a, b) \subseteq Switch \cup {"codes"}
           /\ "enabled" \in Dirty(a, b) <=> a.enabled # b.enabled
           /\ "verified" \in Dirty(a, b) <=> a.verified # b.verified
           /\ "secret" \in Dirty(a, b) <=> a.secret # b.secret
           /\ "codes" \in Dirty(a, b) <=> a.codes # b.codes
  BY DEF Dirty, Switch

\* An existing row holds columns of their types.
LEMMA Settings ==
    ASSUME TypeOK, NEW i \in Ids, Exists(i)
    PROVE  rows[i].is \in Columns
  BY DEF TypeOK, Exists, Row

\* A batch's codes carry the number of the batch.
LEMMA BatchCodes ==
    ASSUME NEW n \in Nat
    PROVE  Batch(n) \in SUBSET Code /\ \A k \in Batch(n) : k \in Code /\ k[1] = n
  BY DEF Batch, Code

\* The request a handler that loaded row i goes on with.
LEMMA LoadedRequest ==
    ASSUME IInv, NEW c \in Clients, NEW kind \in Kinds \ {"idle"}, NEW i \in Ids,
           NEW copy \in Columns, NEW code \in Code \cup {None},
           Load(c, kind, i, copy, code), Exists(i)
    PROVE  \E q \in Request :
              /\ req' = [req EXCEPT ![c] = q] /\ req'[c] = q
              /\ q.kind = kind /\ q.id = i /\ q.copy = copy
              /\ q.dirty = Dirty(copy, rows[i].is) /\ q.code = code /\ q.raced = {}
<1> DEFINE q == [kind |-> kind, id |-> i, copy |-> copy,
                 dirty |-> Dirty(copy, rows[i].is), code |-> code, raced |-> {}]
<1>1. Dirty(copy, rows[i].is) \in SUBSET (Switch \cup {"codes"})
  BY DirtyColumns
<1>2. q \in Request
  BY <1>1 DEF Request
<1>3. req' = [req EXCEPT ![c] = q] /\ req'[c] = q
  BY DEF Load, IInv, TypeOK
<1> QED
  BY <1>2, <1>3

\* setup_totp_2fa prepares the account's first row.
LEMMA BeginFirstSetupKeeps ==
    ASSUME IInv, NEW c \in Clients, BeginFirstSetup(c) PROVE IInv'
<1> DEFINE q == [kind |-> "setup", id |-> None, copy |-> NewSettings(generated + 1),
                 dirty |-> {}, code |-> None, raced |-> {}]
<1>1. generated \in Nat /\ generated + 1 \in Nat
  BY DEF IInv, TypeOK
<1>2. /\ NewSettings(generated + 1) \in Columns
      /\ NewSettings(generated + 1).enabled = FALSE
      /\ NewSettings(generated + 1).codes = Batch(generated + 1)
  BY <1>1, BatchCodes DEF NewSettings, Columns
<1>3. q \in Request /\ q.kind = "setup" /\ q.id = None /\ q.dirty = {}
      /\ q.copy = NewSettings(generated + 1)
  BY <1>2 DEF Request, Kinds
<1>4. req' = [req EXCEPT ![c] = q] /\ req[c].kind = "idle" /\ generated' = generated + 1
      /\ UNCHANGED <<rows, confirmed, spent, dropped>>
  BY DEF BeginFirstSetup, Generate
<1>5. req'[c] = q
  BY <1>4 DEF IInv, TypeOK
<1>6. Shape(req[c])'
  BY <1>2, <1>3, <1>5 DEF Shape
<1>7. \A k : ~InReach(q, k)
  BY <1>3 DEF InReach
<1>8. \A k \in q.copy.codes : k \in Code /\ k[1] = generated + 1
  BY <1>1, <1>2, <1>3, BatchCodes
<1>9. confirmed' \subseteq Nat /\ confirmed \subseteq confirmed'
  BY <1>4 DEF IInv, TypeOK
<1> HIDE DEF q
<1> QED
  BY <1>3, <1>4, <1>6, <1>7, <1>8, <1>9, BeginStep

\* What is left to show of a handler that loaded row i, once its copy is known
LEMMA LoadStep ==
    ASSUME IInv, NEW c \in Clients, req[c].kind = "idle", NEW i \in Ids, Exists(i),
           NEW q \in Request, req' = [req EXCEPT ![c] = q], req'[c] = q,
           q.kind # "idle", q.id = i, q.copy \in Columns, q.raced = {},
           UNCHANGED <<rows, spent, dropped>>,
           generated' \in {generated, generated + 1},
           confirmed \subseteq confirmed', confirmed' \subseteq Nat,
           q.kind = "setup" =>
              q.copy.enabled = FALSE /\ "enabled" \notin q.dirty /\ ~rows[i].is.enabled,
           q.kind = "verify" =>
              /\ q.copy.enabled = TRUE /\ q.copy.verified = TRUE
              /\ "verified" \in q.dirty /\ "secret" \notin q.dirty /\ "codes" \notin q.dirty
              /\ rows[i].is.secret \in confirmed'
              /\ "enabled" \in q.dirty \/ rows[i].is.enabled,
           q.kind = "consume" =>
              /\ q.dirty = {"codes"} /\ q.code \in rows[i].is.codes
              /\ q.copy.codes = rows[i].is.codes \ {q.code},
           q.kind = "disable" =>
              q.copy.enabled = FALSE /\ "enabled" \in q.dirty /\ q.copy.codes = {},
           q.kind = "regenerate" => q.dirty \cap Switch = {},
           Fresh(q) => generated' = generated + 1 /\ q.copy.codes = Batch(generated + 1)
    PROVE  IInv'
<1>1. rows[i].is \in Columns
  BY Settings DEF IInv
<1>2. i # None /\ Exists(i)' /\ rows' = rows
  BY ConstantsAssumption DEF Exists
<1>3. q.kind = "consume" => q.code \in Code /\ q.code \notin q.copy.codes
  BY <1>1 DEF Columns
<1>4. Shape(req[c])'
  BY <1>2, <1>3 DEF Shape
<1>5. \A k : InReach(q, k) => k \in rows[i].is.codes
  BY DEF InReach
<1>6. generated + 1 \in Nat
  BY DEF IInv, TypeOK
<1>7. Fresh(q) => \A k \in q.copy.codes : k \in Code /\ k[1] = generated + 1
  BY <1>6, BatchCodes
<1> QED
  BY <1>4, <1>5, <1>7, BeginStep

\* setup_totp_2fa prepares a new secret for settings not enabled.
LEMMA BeginSetupKeeps ==
    ASSUME IInv, NEW c \in Clients, NEW i \in Ids, BeginSetup(c, i) PROVE IInv'
<1> DEFINE copy == SetUp(rows[i].is, generated + 1)
<1>1. rows[i].is \in Columns /\ generated + 1 \in Nat /\ confirmed \subseteq Nat
  BY Settings DEF BeginSetup, IInv, TypeOK
<1>2. copy \in Columns /\ copy.codes = Batch(generated + 1)
      /\ copy.enabled = rows[i].is.enabled
  BY <1>1, BatchCodes DEF Columns, SetUp, NewSettings
<1>3. rows[i].is.enabled = FALSE
  BY <1>1 DEF BeginSetup, Columns
<1>4. PICK q \in Request :
         /\ req' = [req EXCEPT ![c] = q] /\ req'[c] = q
         /\ q.kind = "setup" /\ q.id = i /\ q.copy = copy
         /\ q.dirty = Dirty(copy, rows[i].is) /\ q.code = None /\ q.raced = {}
  <2>1. "setup" \in Kinds \ {"idle"} /\ None \in Code \cup {None}
    BY DEF Kinds
  <2>2. Exists(i) /\ Load(c, "setup", i, copy, None)
    BY DEF BeginSetup
  <2> HIDE DEF copy
  <2> QED
    BY <1>2, <2>1, <2>2, LoadedRequest
<1>5. "enabled" \notin q.dirty
  BY <1>2, <1>4, DirtyColumns
<1>6. req[c].kind = "idle" /\ Exists(i) /\ generated' = generated + 1
      /\ UNCHANGED <<rows, confirmed, spent, dropped>>
  BY DEF BeginSetup, Load, Generate
<1> HIDE DEF copy
<1> QED
  BY <1>1, <1>2, <1>3, <1>4, <1>5, <1>6, LoadStep

\* verify_totp_code saw a valid code of the loaded secret.
LEMMA BeginVerifyKeeps ==
    ASSUME IInv, NEW c \in Clients, NEW i \in Ids, BeginVerify(c, i) PROVE IInv'
<1> DEFINE copy == Verified(rows[i].is)
<1>1. rows[i].is \in Columns
  BY Settings DEF BeginVerify, IInv
<1>2. /\ copy \in Columns /\ copy.codes = rows[i].is.codes
      /\ copy.secret = rows[i].is.secret
      /\ copy.enabled = TRUE /\ copy.verified = TRUE
  BY <1>1 DEF Columns, Verified
<1>3. PICK q \in Request :
         /\ req' = [req EXCEPT ![c] = q] /\ req'[c] = q
         /\ q.kind = "verify" /\ q.id = i /\ q.copy = copy
         /\ q.dirty = Dirty(copy, rows[i].is) /\ q.code = None /\ q.raced = {}
  <2>1. "verify" \in Kinds \ {"idle"} /\ None \in Code \cup {None}
    BY DEF Kinds
  <2>2. Exists(i) /\ Load(c, "verify", i, copy, None)
    BY DEF BeginVerify
  <2> HIDE DEF copy
  <2> QED
    BY <1>2, <2>1, <2>2, LoadedRequest
<1>4. rows[i].is.verified = FALSE /\ rows[i].is.enabled \in BOOLEAN
      /\ rows[i].is.secret \in Nat
  BY <1>1 DEF BeginVerify, Columns
<1>5. /\ "verified" \in q.dirty /\ "secret" \notin q.dirty /\ "codes" \notin q.dirty
      /\ "enabled" \in q.dirty \/ rows[i].is.enabled
  BY <1>2, <1>3, <1>4, DirtyColumns
<1>6. req[c].kind = "idle" /\ Exists(i) /\ confirmed' = confirmed \cup {rows[i].is.secret}
      /\ UNCHANGED <<rows, generated, spent, dropped>>
  BY DEF BeginVerify, Load
<1>7. /\ confirmed \subseteq confirmed' /\ confirmed' \subseteq Nat
      /\ rows[i].is.secret \in confirmed' /\ generated' \in {generated, generated + 1}
  BY <1>4, <1>6 DEF IInv, TypeOK
<1>8. i # None /\ Exists(i)' /\ rows' = rows
  BY <1>6, ConstantsAssumption DEF Exists
<1> HIDE DEF copy
<1>9. Shape(req[c])'
  BY <1>2, <1>3, <1>5, <1>7, <1>8 DEF Shape
<1>10. ~Fresh(q) /\ \A k : ~InReach(q, k)
  BY <1>3 DEF Fresh, InReach
<1> QED
  BY <1>3, <1>6, <1>7, <1>9, <1>10, BeginStep

\* verify_backup_code takes a code out of its copy of the list.
LEMMA BeginConsumeKeeps ==
    ASSUME IInv, NEW c \in Clients, NEW i \in Ids, NEW k \in rows[i].is.codes,
           BeginConsume(c, i, k)
    PROVE  IInv'
<1> DEFINE copy == Consumed(rows[i].is, k)
<1>1. rows[i].is \in Columns /\ k \in Code
  BY Settings DEF BeginConsume, IInv, Columns
<1>2. /\ copy \in Columns /\ copy.codes = rows[i].is.codes \ {k}
      /\ copy.secret = rows[i].is.secret /\ copy.enabled = rows[i].is.enabled
      /\ copy.verified = rows[i].is.verified
  BY <1>1 DEF Columns, Consumed
<1>3. PICK q \in Request :
         /\ req' = [req EXCEPT ![c] = q] /\ req'[c] = q
         /\ q.kind = "consume" /\ q.id = i /\ q.copy = copy
         /\ q.dirty = Dirty(copy, rows[i].is) /\ q.code = k /\ q.raced = {}
  <2>1. "consume" \in Kinds \ {"idle"}
    BY DEF Kinds
  <2>2. Exists(i) /\ Load(c, "consume", i, copy, k)
    BY DEF BeginConsume
  <2> HIDE DEF copy
  <2> QED
    BY <1>1, <1>2, <2>1, <2>2, LoadedRequest
<1>4. copy.codes # rows[i].is.codes
  BY <1>2
<1>5. q.dirty = {"codes"}
  <2> HIDE DEF copy
  <2> QED
    BY <1>2, <1>3, <1>4, DirtyColumns DEF Switch
<1>6. req[c].kind = "idle" /\ Exists(i)
      /\ UNCHANGED <<rows, generated, confirmed, spent, dropped>>
  BY DEF BeginConsume, Load
<1>7. confirmed' \subseteq Nat /\ confirmed \subseteq confirmed'
      /\ generated' \in {generated, generated + 1}
  BY <1>6 DEF IInv, TypeOK
<1>8. q.code \in rows[i].is.codes /\ q.copy.codes = rows[i].is.codes \ {q.code}
  BY <1>2, <1>3
<1>9. q.kind = "consume" /\ q.copy \in Columns /\ q.id = i /\ q.raced = {}
  BY <1>2, <1>3
<1>10. /\ q.kind # "idle" /\ q.kind # "setup" /\ q.kind # "verify"
       /\ q.kind # "disable" /\ q.kind # "regenerate" /\ ~Fresh(q)
  BY <1>9 DEF Fresh
<1>11. req' = [req EXCEPT ![c] = q] /\ req'[c] = q
  BY <1>3
<1>12. Shape(req[c])'
  <2>1. i # None /\ Exists(i)' /\ rows' = rows /\ rows[i].is \in Columns
    BY <1>1, <1>6, ConstantsAssumption DEF Exists
  <2>2. q.code \in Code /\ q.code \notin q.copy.codes /\ q.copy.codes \subseteq rows[i].is.codes
    BY <1>8, <2>1 DEF Columns
  <2> HIDE DEF copy
  <2> QED
    BY <1>5, <1>9, <1>10, <1>11, <2>1, <2>2 DEF Shape
<1>13. \A m : InReach(q, m) => q.id \in Ids /\ Exists(q.id) /\ m \in rows[q.id].is.codes
  <2> HIDE DEF copy
  <2> QED
    BY <1>6, <1>8, <1>9 DEF InReach
<1> HIDE DEF copy
<1> QED
  BY <1>6, <1>7, <1>10, <1>11, <1>12, <1>13, BeginStep

\* disable_2fa clears its copy.
LEMMA BeginDisableKeeps ==
    ASSUME IInv, NEW c \in Clients, NEW i \in Ids, BeginDisable(c, i) PROVE IInv'
<1> DEFINE copy == Disabled(rows[i].is)
<1>1. rows[i].is \in Columns
  BY Settings DEF BeginDisable, IInv
<1>2. copy \in Columns /\ copy.enabled = FALSE /\ copy.codes = {}
  BY DEF Columns, Disabled
<1>3. PICK q \in Request :
         /\ req' = [req EXCEPT ![c] = q] /\ req'[c] = q
         /\ q.kind = "disable" /\ q.id = i /\ q.copy = copy
         /\ q.dirty = Dirty(copy, rows[i].is) /\ q.code = None /\ q.raced = {}
  <2>1. "disable" \in Kinds \ {"idle"} /\ None \in Code \cup {None}
    BY DEF Kinds
  <2>2. Exists(i) /\ Load(c, "disable", i, copy, None)
    BY DEF BeginDisable
  <2> HIDE DEF copy
  <2> QED
    BY <1>2, <2>1, <2>2, LoadedRequest
<1>4. rows[i].is.enabled = TRUE
  BY <1>1 DEF BeginDisable, Columns
<1>5. "enabled" \in q.dirty
  BY <1>2, <1>3, <1>4, DirtyColumns
<1>6. req[c].kind = "idle" /\ Exists(i)
      /\ UNCHANGED <<rows, generated, confirmed, spent, dropped>>
  BY DEF BeginDisable, Load
<1>7. confirmed' \subseteq Nat /\ confirmed \subseteq confirmed'
      /\ generated' \in {generated, generated + 1}
  BY <1>6 DEF IInv, TypeOK
<1> HIDE DEF copy
<1> QED
  BY <1>2, <1>3, <1>5, <1>6, <1>7, LoadStep DEF Fresh

\* regenerate_backup_codes puts a new batch into its copy.
LEMMA BeginRegenerateKeeps ==
    ASSUME IInv, NEW c \in Clients, NEW i \in Ids, BeginRegenerate(c, i) PROVE IInv'
<1> DEFINE copy == Regenerated(rows[i].is, generated + 1)
<1>1. rows[i].is \in Columns /\ generated + 1 \in Nat /\ confirmed \subseteq Nat
  BY Settings DEF BeginRegenerate, IInv, TypeOK
<1>2. /\ copy \in Columns /\ copy.codes = Batch(generated + 1)
      /\ copy.secret = rows[i].is.secret /\ copy.enabled = rows[i].is.enabled
      /\ copy.verified = rows[i].is.verified
  BY <1>1, BatchCodes DEF Columns, Regenerated
<1>3. PICK q \in Request :
         /\ req' = [req EXCEPT ![c] = q] /\ req'[c] = q
         /\ q.kind = "regenerate" /\ q.id = i /\ q.copy = copy
         /\ q.dirty = Dirty(copy, rows[i].is) /\ q.code = None /\ q.raced = {}
  <2>1. "regenerate" \in Kinds \ {"idle"} /\ None \in Code \cup {None}
    BY DEF Kinds
  <2>2. Exists(i) /\ Load(c, "regenerate", i, copy, None)
    BY DEF BeginRegenerate
  <2> HIDE DEF copy
  <2> QED
    BY <1>2, <2>1, <2>2, LoadedRequest
<1>4. q.dirty \cap Switch = {}
  BY <1>2, <1>3, DirtyColumns DEF Switch
<1>5. req[c].kind = "idle" /\ Exists(i) /\ generated' = generated + 1
      /\ UNCHANGED <<rows, confirmed, spent, dropped>>
  BY DEF BeginRegenerate, Load, Generate
<1> HIDE DEF copy
<1> QED
  BY <1>1, <1>2, <1>3, <1>4, <1>5, LoadStep

-----------------------------------------------------------------------------
(***************************************************************************)
(* Writing the row.                                                        *)
(***************************************************************************)
\* c wrote row i: what it holds then was there before, or is a batch c had just
\* generated.
LEMMA WriteStep ==
    ASSUME IInv, NEW c \in Clients, NEW i \in Ids,
           \A d \in Clients : Fresh(req'[d]) =>
               d # c /\ Fresh(req[d]) /\ req'[d].copy = req[d].copy,
           \A j \in Ids : \A k : Holds(j, k)' =>
               Holds(j, k) \/ (j = i /\ Fresh(req[c]) /\ k \in req[c].copy.codes),
           \A k \in (spent \cup dropped)' \ (spent \cup dropped) : Holds(i, k),
           generated' = generated
    PROVE  Generated' /\ Unseen' /\ Apart'
<1> DEFINE Own(k) == Fresh(req[c]) /\ k \in req[c].copy.codes
<1>1. \A k : Known(k)' => Known(k) \/ Own(k)
  BY DEF Known
<1>2. \A d \in Clients : Fresh(req[d]) => \A k \in req[d].copy.codes : k \in Code
  BY DEF IInv, InFlight, Shape, Fresh, Columns
<1>3. \A k : Own(k) => ~Known(k)
  BY DEF IInv, Unseen
<1>4. Generated'
  <2>1. \A k \in Code : Known(k) \/ Own(k) => k[1] <= generated
    BY DEF IInv, Generated
  <2>2. \A d \in Clients : Fresh(req[d]) =>
           \A k \in req[d].copy.codes : k[1] <= generated
    BY DEF IInv, Generated
  <2>3. \A k \in Code : Known(k)' => k[1] <= generated'
    BY <1>1, <2>1
  <2>4. \A d \in Clients : Fresh(req'[d]) =>
           \A k \in req'[d].copy.codes : k[1] <= generated'
    BY <2>2
  <2> QED
    BY <2>3, <2>4 DEF Generated, Fresh
<1>5. Unseen'
  <2>1. ASSUME NEW d \in Clients, Fresh(req'[d]), NEW k \in req'[d].copy.codes
        PROVE  /\ ~Known(k)'
               /\ \A e \in Clients \ {d} : Fresh(req'[e]) => k \notin req'[e].copy.codes
    <3>1. d # c /\ Fresh(req[d]) /\ k \in req[d].copy.codes
      BY <2>1
    <3>2. /\ ~Known(k)
          /\ \A e \in Clients \ {d} : Fresh(req[e]) => k \notin req[e].copy.codes
      BY <3>1 DEF IInv, Unseen
    <3> QED
      BY <1>1, <3>1, <3>2
  <2> QED
    BY <2>1 DEF Unseen, Fresh
<1>6. Apart'
  <2>1. ASSUME NEW j \in Ids, NEW l \in Ids, NEW k \in Code, Holds(j, k)', Holds(l, k)'
        PROVE  j = l
    <3>1. (Holds(j, k) \/ (j = i /\ Own(k))) /\ (Holds(l, k) \/ (l = i /\ Own(k)))
      BY <2>1
    <3>2. Holds(j, k) /\ Holds(l, k) => j = l
      BY DEF IInv, Apart
    <3>3. Own(k) => ~Holds(j, k) /\ ~Holds(l, k)
      BY <1>3 DEF Known
    <3> QED
      BY <3>1, <3>2, <3>3
  <2> QED
    BY <2>1 DEF Apart
<1> QED
  BY <1>4, <1>5, <1>6

\* The INSERT of the first settings: never enabled, all its codes unseen.
LEMMA InsertKeeps ==
    ASSUME IInv, NEW c \in Clients, Insert(c)
    PROVE  /\ IInv'
           /\ \A i \in Ids : rows'[i] # None /\ rows'[i].is.enabled =>
                 Exists(i) /\ rows[i].is.enabled
<1>1. PICK i \in Ids :
         /\ ~Exists(i)
         /\ rows' = [rows EXCEPT ![i] = [is |-> req[c].copy, secretSound |-> TRUE,
                                         codesSound |-> TRUE]]
  BY DEF Insert
<1>2. req[c].kind = "setup" /\ req[c].id = None /\ req' = [req EXCEPT ![c] = Idle]
      /\ UNCHANGED <<generated, confirmed, spent, dropped>>
  BY DEF Insert
<1>3. req[c].copy \in Columns /\ req[c].copy.enabled = FALSE /\ Fresh(req[c])
  BY <1>2 DEF IInv, InFlight, Shape, Fresh
<1>4. req'[c] = Idle /\ \A d \in Clients \ {c} : req'[d] = req[d]
  BY <1>2 DEF IInv, TypeOK
<1>5. /\ rows'[i].is = req[c].copy /\ rows'[i] \in Row /\ rows'[i] # None
      /\ \A j \in Ids \ {i} : rows'[j] = rows[j]
  <2> DEFINE r == [is |-> req[c].copy, secretSound |-> TRUE, codesSound |-> TRUE]
  <2>1. r \in Row /\ r.is = req[c].copy
    BY <1>3 DEF Row
  <2>2. rows \in [Ids -> Row \cup {None}]
    BY DEF IInv, TypeOK
  <2>3. rows'[i] = r /\ \A j \in Ids \ {i} : rows'[j] = rows[j]
    BY <1>1, <2>2
  <2> HIDE DEF r
  <2> QED
    BY <2>1, <2>3, ConstantsAssumption
<1>6. TypeOK'
  BY <1>1, <1>2, <1>5, IdleShape DEF IInv, TypeOK
<1>7. InFlight'
  <2>1. ASSUME NEW d \in Clients \ {c} PROVE Shape(req[d])'
    <3>1. Shape(req[d]) /\ req'[d] = req[d] /\ confirmed' = confirmed
      BY <1>2, <1>4 DEF IInv, InFlight
    <3>2. CASE req[d].id = None
      BY <3>1, <3>2 DEF Shape
    <3>3. CASE req[d].id # None
      <4>1. req[d].id \in Ids /\ Exists(req[d].id)
        BY <3>1, <3>3 DEF IInv, TypeOK, Request, Shape
      <4>2. rows'[req[d].id] = rows[req[d].id]
        BY <1>1, <1>5, <4>1
      <4> QED
        BY <3>1, <4>2 DEF Shape, Exists
    <3> QED
      BY <3>2, <3>3
  <2>2. Shape(req[c])'
    BY <1>4, IdleShape DEF Shape
  <2> QED
    BY <2>1, <2>2 DEF InFlight
<1>8. ASSUME NEW j \in Ids, NEW k, Holds(j, k)'
      PROVE  Holds(j, k) \/ (j = i /\ Fresh(req[c]) /\ k \in req[c].copy.codes)
  <2>1. CASE Exists(j)' /\ k \in rows'[j].is.codes
    BY <1>3, <1>5, <2>1 DEF Holds, Exists
  <2>2. ASSUME NEW d \in Clients, req'[d].id = j, InReach(req'[d], k) PROVE Holds(j, k)
    <3>1. d # c
      BY <1>4, <2>2, IdleShape DEF InReach
    <3> QED
      BY <1>4, <2>2, <3>1 DEF Holds
  <2> QED
    BY <1>8, <2>1, <2>2 DEF Holds, InReach
<1>9. Generated' /\ Unseen' /\ Apart'
  <2>1. \A d \in Clients : Fresh(req'[d]) =>
           d # c /\ Fresh(req[d]) /\ req'[d].copy = req[d].copy
    BY <1>4, IdleShape
  <2>2. spent' = spent /\ dropped' = dropped /\ generated' = generated
    BY <1>2
  <2> QED
    BY <1>8, <2>1, <2>2, WriteStep
<1>10. EnabledIsConfirmed'
  BY <1>2, <1>3, <1>5 DEF IInv, EnabledIsConfirmed, Exists
<1>11. DeadCodesStayDead'
  <2>1. \A k \in req[c].copy.codes : k \notin spent \cup dropped
    BY <1>3 DEF IInv, Unseen, Known
  <2> QED
    BY <1>2, <1>5, <2>1 DEF IInv, DeadCodesStayDead, Exists
<1>12. \A j \in Ids : rows'[j] # None /\ rows'[j].is.enabled => Exists(j) /\ rows[j].is.enabled
  BY <1>3, <1>5 DEF Exists
<1> QED
  BY <1>6, <1>7, <1>9, <1>10, <1>11, <1>12 DEF IInv

\* The row after an UPDATE: the dirty columns of the copy over the row.
LEMMA Merged ==
    ASSUME NEW a \in Columns, NEW dirty, NEW s \in Columns
    PROVE  /\ Merge(a, dirty, s) \in Columns
           /\ "enabled" \in dirty => Merge(a, dirty, s).enabled = a.enabled
           /\ "enabled" \notin dirty => Merge(a, dirty, s).enabled = s.enabled
           /\ "verified" \in dirty => Merge(a, dirty, s).verified = a.verified
           /\ "verified" \notin dirty => Merge(a, dirty, s).verified = s.verified
           /\ "secret" \notin dirty => Merge(a, dirty, s).secret = s.secret
           /\ "codes" \in dirty => Merge(a, dirty, s).codes = a.codes
           /\ "codes" \notin dirty => Merge(a, dirty, s).codes = s.codes
  BY DEF Merge, Columns

\* The UPDATE keeps the invariant, and only a verification's switches a row on.
LEMMA CommitKeeps ==
    ASSUME IInv, NEW c \in Clients, Commit(c)
    PROVE  /\ IInv'
           /\ \A i \in Ids : rows'[i] # None /\ rows'[i].is.enabled =>
                 \/ Exists(i) /\ rows[i].is.enabled
                 \/ req[c].kind = "verify" /\ req[c].id = i
<1> DEFINE q   == req[c]
           old == rows[q.id]
           new == Merge(q.copy, q.dirty, old.is)
<1>1. /\ q.id # None
      /\ rows' = [rows EXCEPT ![q.id] = [is |-> new, secretSound |-> SecretSound(q, old),
                                         codesSound |-> CodesSound(q, old)]]
      /\ req' = [d \in Clients |->
                   IF d = c THEN Idle
                   ELSE IF req[d].id # q.id THEN req[d]
                   ELSE [req[d] EXCEPT !.raced = @ \cup q.dirty]]
      /\ spent' = IF q.kind = "consume" THEN spent \cup {q.code} ELSE spent
      /\ dropped' = dropped \cup (old.is.codes \ new.codes)
      /\ UNCHANGED <<generated, confirmed>>
  BY DEF Commit
<1>2. /\ q \in Request /\ q.id \in Ids /\ Shape(q) /\ Exists(q.id)
      /\ q.kind \in Kinds \ {"idle"} /\ q.copy \in Columns
  BY <1>1 DEF IInv, TypeOK, Request, InFlight, Shape
<1>3. old \in Row /\ old.is \in Columns
      /\ old.secretSound \in BOOLEAN /\ old.codesSound \in BOOLEAN
  BY <1>2 DEF IInv, TypeOK, Exists, Row
<1>4. /\ new \in Columns
      /\ "enabled" \in q.dirty => new.enabled = q.copy.enabled
      /\ "enabled" \notin q.dirty => new.enabled = old.is.enabled
      /\ "verified" \in q.dirty => new.verified = q.copy.verified
      /\ "verified" \notin q.dirty => new.verified = old.is.verified
      /\ "secret" \notin q.dirty => new.secret = old.is.secret
      /\ "codes" \in q.dirty => new.codes = q.copy.codes
      /\ "codes" \notin q.dirty => new.codes = old.is.codes
  BY <1>2, <1>3, Merged
<1>5. SecretSound(q, old) \in BOOLEAN /\ CodesSound(q, old) \in BOOLEAN
  BY <1>3 DEF SecretSound, CodesSound
<1>6. /\ rows' \in [Ids -> Row \cup {None}]
      /\ rows'[q.id] # None /\ rows'[q.id].is = new
      /\ rows'[q.id].secretSound = SecretSound(q, old)
      /\ rows'[q.id].codesSound = CodesSound(q, old)
      /\ \A j \in Ids \ {q.id} : rows'[j] = rows[j]
  <2> DEFINE r == [is |-> new, secretSound |-> SecretSound(q, old),
                   codesSound |-> CodesSound(q, old)]
  <2>1. r \in Row /\ r.is = new /\ r.secretSound = SecretSound(q, old)
        /\ r.codesSound = CodesSound(q, old)
    <3> HIDE DEF new
    <3> QED
      BY <1>4, <1>5 DEF Row
  <2>2. rows \in [Ids -> Row \cup {None}]
    BY DEF IInv, TypeOK
  <2>3. rows' = [rows EXCEPT ![q.id] = r]
    BY <1>1
  <2> HIDE DEF r, new
  <2>4. rows'[q.id] = r /\ rows' \in [Ids -> Row \cup {None}]
        /\ \A j \in Ids \ {q.id} : rows'[j] = rows[j]
    BY <1>2, <2>1, <2>2, <2>3
  <2> QED
    BY <2>1, <2>4, ConstantsAssumption
<1>7. /\ req' \in [Clients -> Request] /\ req'[c] = Idle
      /\ \A d \in Clients \ {c} :
            /\ req'[d].kind = req[d].kind /\ req'[d].id = req[d].id
            /\ req'[d].copy = req[d].copy /\ req'[d].dirty = req[d].dirty
            /\ req'[d].code = req[d].code
            /\ req'[d].raced = IF req[d].id = q.id THEN req[d].raced \cup q.dirty
                               ELSE req[d].raced
  <2>1. \A d \in Clients : req[d] \in Request
    BY DEF IInv, TypeOK
  <2>2. \A d \in Clients : [req[d] EXCEPT !.raced = @ \cup q.dirty] \in Request
    BY <1>2, <2>1 DEF Request
  <2>3. req' \in [Clients -> Request]
    BY <1>1, <2>1, <2>2, IdleShape
  <2>4. ASSUME NEW d \in Clients \ {c}
        PROVE  /\ req'[d].kind = req[d].kind /\ req'[d].id = req[d].id
               /\ req'[d].copy = req[d].copy /\ req'[d].dirty = req[d].dirty
               /\ req'[d].code = req[d].code
               /\ req'[d].raced = IF req[d].id = q.id THEN req[d].raced \cup q.dirty
                                  ELSE req[d].raced
    <3>1. req'[d] = IF req[d].id # q.id THEN req[d]
                    ELSE [req[d] EXCEPT !.raced = @ \cup q.dirty]
      BY <1>1
    <3> QED
      BY <2>1, <3>1 DEF Request
  <2>5. req'[c] = Idle
    BY <1>1
  <2> QED
    BY <2>3, <2>4, <2>5
<1>8. generated' = generated /\ confirmed' = confirmed
  BY <1>1
<1>9. Holds(q.id, q.code) \/ q.kind # "consume"
  BY DEF Holds, InReach
<1>10. \A k : k \in old.is.codes => Holds(q.id, k)
  BY <1>2 DEF Holds
<1>11. \A k \in (spent \cup dropped)' \ (spent \cup dropped) :
          /\ Holds(q.id, k)
          /\ (q.kind = "consume" /\ k = q.code) \/ k \in old.is.codes \ new.codes
  BY <1>1, <1>9, <1>10
<1> HIDE DEF new
<1>12. TypeOK'
  <2>1. spent' \subseteq Code /\ dropped' \subseteq Code
    BY <1>1, <1>2, <1>3 DEF IInv, TypeOK, Columns, Shape
  <2> QED
    BY <1>6, <1>7, <1>8, <2>1 DEF IInv, TypeOK
<1>13. InFlight'
  <2>1. ASSUME NEW d \in Clients \ {c} PROVE Shape(req[d])'
    <3> DEFINE r == req[d]
    <3>1. Shape(r) /\ r.id \in Ids \cup {None}
      BY DEF IInv, InFlight, TypeOK, Request
    <3>2. CASE r.id = None
      BY <1>7, <1>8, <3>1, <3>2 DEF Shape
    <3>3. CASE r.id # None /\ r.id # q.id
      <4>1. rows'[r.id] = rows[r.id] /\ req'[d].raced = r.raced
        BY <1>6, <1>7, <3>1, <3>3
      <4> QED
        BY <1>7, <1>8, <3>1, <4>1 DEF Shape, Exists
    <3>4. CASE r.id = q.id
      <4>1. /\ req'[d].raced = r.raced \cup q.dirty /\ rows'[r.id] # None
            /\ rows'[r.id].is = new /\ rows[r.id].is = old.is
        <5>1. req'[d].raced = r.raced \cup q.dirty
          BY <1>7, <3>4
        <5>2. rows'[r.id] # None /\ rows'[r.id].is = new
          BY <1>6, <3>4
        <5>3. rows[r.id].is = old.is
          BY <3>4
        <5> QED
          BY <5>1, <5>2, <5>3
      <4>2. /\ q.dirty \cap Switch = {} =>
                  new.enabled = old.is.enabled /\ new.secret = old.is.secret
            /\ "codes" \notin q.dirty => new.codes = old.is.codes
        BY <1>4 DEF Switch
      <4>3. /\ req'[d].raced \cap Switch = {} =>
                  r.raced \cap Switch = {} /\ q.dirty \cap Switch = {}
            /\ "codes" \notin req'[d].raced => "codes" \notin r.raced /\ "codes" \notin q.dirty
        BY <4>1
      <4>4. /\ req'[d].kind = r.kind /\ req'[d].id = r.id /\ req'[d].copy = r.copy
            /\ req'[d].dirty = r.dirty /\ req'[d].code = r.code
            /\ rows'[req'[d].id] # None
        BY <1>7, <3>4, <4>1
      <4> HIDE DEF old
      <4>5. /\ r.kind = "setup" /\ req'[d].raced \cap Switch = {} => ~new.enabled
            /\ r.kind = "verify" /\ req'[d].raced \cap Switch = {} =>
                  new.secret \in confirmed /\ ("enabled" \in r.dirty \/ new.enabled)
            /\ r.kind = "consume" /\ "codes" \notin req'[d].raced =>
                  r.copy.codes \subseteq new.codes
        BY <1>1, <3>1, <3>4, <4>1, <4>2, <4>3 DEF Shape
      <4>6. rows'[req'[d].id].is = new
        BY <4>1, <4>4
      <4> HIDE DEF q, r
      <4> QED
        BY <1>8, <3>1, <4>4, <4>5, <4>6 DEF Shape, Exists, r
    <3> QED
      BY <3>2, <3>3, <3>4
  <2>2. Shape(req[c])'
    BY <1>7, IdleShape DEF Shape
  <2> QED
    BY <2>1, <2>2 DEF InFlight
<1>14. Generated' /\ Unseen' /\ Apart'
  <2>1. \A d \in Clients : Fresh(req'[d]) =>
           d # c /\ Fresh(req[d]) /\ req'[d].copy = req[d].copy
    BY <1>7, IdleShape DEF Fresh
  <2>2. ASSUME NEW j \in Ids, NEW k, Holds(j, k)'
        PROVE  Holds(j, k) \/ (j = q.id /\ Fresh(req[c]) /\ k \in req[c].copy.codes)
    <3>1. CASE j # q.id /\ Exists(j)' /\ k \in rows'[j].is.codes
      BY <1>6, <3>1 DEF Holds, Exists
    <3>2. CASE j = q.id /\ k \in rows'[j].is.codes
      <4>1. k \in new.codes
        BY <1>6, <3>2
      <4>2. CASE "codes" \notin q.dirty
        BY <1>4, <1>10, <3>2, <4>1, <4>2
      <4>3. CASE "codes" \in q.dirty
        <5>1. k \in q.copy.codes
          BY <1>4, <4>1, <4>3
        <5>2. q.kind \in {"setup", "regenerate", "consume"}
          BY <1>2, <4>3, <5>1 DEF Kinds, Shape
        <5>3. CASE q.kind = "consume"
          BY <3>2, <5>1, <5>3 DEF Holds, InReach
        <5>4. CASE q.kind \in {"setup", "regenerate"}
          BY <3>2, <5>1, <5>4 DEF Fresh
        <5> QED
          BY <5>2, <5>3, <5>4
      <4> QED
        BY <4>2, <4>3
    <3>3. ASSUME NEW d \in Clients, req'[d].id = j, InReach(req'[d], k) PROVE Holds(j, k)
      <4>1. d # c
        BY <1>7, <3>3, IdleShape DEF InReach
      <4> QED
        BY <1>7, <3>3, <4>1 DEF Holds, InReach
    <3> QED
      BY <2>2, <3>1, <3>2, <3>3 DEF Holds, InReach
  <2>3. \A k \in (spent \cup dropped)' \ (spent \cup dropped) : Holds(q.id, k)
    BY <1>11
  <2> HIDE DEF q
  <2> QED
    BY <1>2, <1>8, <2>1, <2>2, <2>3, WriteStep
<1>15. ASSUME SecretSound(q, old), new.enabled
       PROVE  new.verified /\ new.secret \in confirmed
  <2>1. old.secretSound /\ old.is.enabled => old.is.verified /\ old.is.secret \in confirmed
    BY <1>2 DEF IInv, EnabledIsConfirmed
  <2>2. CASE q.kind \in {"setup", "verify"}
    <3>1. q.raced \cap Switch = {}
      BY <1>15, <2>2 DEF SecretSound
    <3>2. CASE q.kind = "setup"
      BY <1>1, <1>2, <1>4, <1>15, <3>1, <3>2 DEF Shape
    <3>3. CASE q.kind = "verify"
      BY <1>2, <1>4, <3>1, <3>3 DEF Shape
    <3> QED
      BY <2>2, <3>2, <3>3
  <2>3. CASE q.kind = "disable"
    BY <1>2, <1>4, <1>15, <2>3 DEF Shape
  <2>4. CASE q.kind \in {"consume", "regenerate"}
    <3>1. q.dirty \cap Switch = {}
      BY <1>2, <2>4 DEF Shape, Switch
    <3>2. new.enabled = old.is.enabled /\ new.verified = old.is.verified
          /\ new.secret = old.is.secret
      BY <1>4, <3>1 DEF Switch
    <3>3. old.secretSound
      BY <1>15, <2>4 DEF SecretSound
    <3> QED
      BY <1>15, <2>1, <3>2, <3>3
  <2> QED
    BY <1>2, <2>2, <2>3, <2>4 DEF Kinds
<1>16. EnabledIsConfirmed'
  <2>1. ASSUME NEW j \in Ids, Exists(j)', rows'[j].secretSound, rows'[j].is.enabled
        PROVE  rows'[j].is.verified /\ rows'[j].is.secret \in confirmed
    <3>1. CASE j = q.id
      BY <1>6, <1>15, <2>1, <3>1
    <3>2. CASE j # q.id
      BY <1>6, <2>1, <3>2 DEF IInv, EnabledIsConfirmed, Exists
    <3> QED
      BY <3>1, <3>2
  <2> QED
    BY <1>8, <2>1 DEF EnabledIsConfirmed, Exists
<1>17. ASSUME CodesSound(q, old), NEW k \in new.codes
       PROVE  k \notin (spent \cup dropped)'
  <2>1. old.codesSound => old.is.codes \cap (spent \cup dropped) = {}
    BY <1>2 DEF IInv, DeadCodesStayDead
  <2>2. CASE q.kind = "consume"
    <3>1. old.codesSound /\ new.codes = q.copy.codes /\ q.copy.codes \subseteq old.is.codes
          /\ q.code \notin q.copy.codes
      BY <1>2, <1>4, <1>17, <2>2 DEF CodesSound, Shape
    <3> QED
      BY <1>11, <1>17, <2>1, <3>1
  <2>3. CASE q.kind # "consume" /\ "codes" \notin q.dirty
    <3>1. old.codesSound /\ new.codes = old.is.codes
      BY <1>4, <1>17, <2>3 DEF CodesSound
    <3> QED
      BY <1>11, <1>17, <2>1, <2>3, <3>1
  <2>4. CASE q.kind # "consume" /\ "codes" \in q.dirty
    <3>1. k \in q.copy.codes
      BY <1>4, <1>17, <2>4
    <3>2. Fresh(q)
      BY <1>2, <2>4, <3>1 DEF Shape, Kinds, Fresh
    <3>3. ~Known(k)
      BY <3>1, <3>2 DEF IInv, Unseen
    <3> QED
      BY <1>11, <1>17, <2>4, <3>3 DEF Known
  <2> QED
    BY <2>2, <2>3, <2>4
<1>18. DeadCodesStayDead'
  <2>1. ASSUME NEW j \in Ids, Exists(j)', rows'[j].codesSound, NEW k \in rows'[j].is.codes
        PROVE  k \notin (spent \cup dropped)'
    <3>1. CASE j = q.id
      BY <1>6, <1>17, <2>1, <3>1
    <3>2. CASE j # q.id
      <4>1. Exists(j) /\ rows[j].codesSound /\ k \in rows[j].is.codes
        BY <1>6, <2>1, <3>2 DEF Exists
      <4>2. k \notin spent \cup dropped /\ Holds(j, k) /\ k \in Code
        BY <4>1, Settings DEF IInv, DeadCodesStayDead, Holds, Columns
      <4>3. ~Holds(q.id, k)
        BY <1>2, <3>2, <4>2 DEF IInv, Apart
      <4> QED
        BY <1>11, <4>2, <4>3
    <3> QED
      BY <3>1, <3>2
  <2> QED
    BY <2>1 DEF DeadCodesStayDead, Exists
<1>19. ASSUME NEW i \in Ids, rows'[i] # None, rows'[i].is.enabled
       PROVE  (Exists(i) /\ rows[i].is.enabled) \/ (q.kind = "verify" /\ q.id = i)
  <2>1. CASE i # q.id
    BY <1>6, <1>19, <2>1 DEF Exists
  <2>2. CASE i = q.id /\ "enabled" \notin q.dirty
    BY <1>2, <1>4, <1>6, <1>19, <2>2
  <2>3. CASE i = q.id /\ "enabled" \in q.dirty
    <3>1. q.copy.enabled
      BY <1>4, <1>6, <1>19, <2>3
    <3>2. q.kind \notin {"setup", "consume", "disable", "regenerate"}
      BY <1>2, <2>3, <3>1 DEF Shape, Switch
    <3> QED
      BY <1>2, <2>3, <3>2 DEF Kinds
  <2> QED
    BY <2>1, <2>2, <2>3
<1> QED
  BY <1>12, <1>13, <1>14, <1>16, <1>18, <1>19 DEF IInv

-----------------------------------------------------------------------------
(***************************************************************************)
(* The theorems.                                                           *)
(***************************************************************************)
\* The bookkeeping of the settings' codes and secrets survives every step.
THEOREM StepKeepsIInv == IInv /\ [Next]_vars => IInv'
<1> SUFFICES ASSUME IInv, [Next]_vars PROVE IInv'
  OBVIOUS
<1>1. ASSUME UNCHANGED vars PROVE IInv'
  BY <1>1 DEF vars, IInv, TypeOK, InFlight, Shape, Fresh, InReach, Holds, Known, Exists,
              Generated, Unseen, Apart, EnabledIsConfirmed, DeadCodesStayDead
<1>2. ASSUME NEW c \in Clients, NEW i \in Ids, NEW k \in rows[i].is.codes,
             BeginConsume(c, i, k)
      PROVE  IInv'
  BY <1>2, BeginConsumeKeeps
<1>3. ASSUME NEW c \in Clients, NEW i \in Ids,
             \/ BeginSetup(c, i) \/ BeginVerify(c, i)
             \/ BeginDisable(c, i) \/ BeginRegenerate(c, i)
      PROVE  IInv'
  BY <1>3, BeginSetupKeeps, BeginVerifyKeeps, BeginDisableKeeps, BeginRegenerateKeeps
<1>4. ASSUME NEW c \in Clients, BeginFirstSetup(c) \/ Insert(c) \/ Commit(c) PROVE IInv'
  BY <1>4, BeginFirstSetupKeeps, InsertKeeps, CommitKeeps
<1> QED
  BY <1>1, <1>2, <1>3, <1>4 DEF Next

\* The inductive invariant holds in every state of the settings.
THEOREM IInvAlways == Spec => []IInv
  BY InitIInv, StepKeepsIInv, PTL DEF Spec

\* Every settings row and every copy of one that a handler holds has the columns' types.
THEOREM SettingsTypeCorrect == Spec => []TypeOK
<1>1. IInv => TypeOK
  BY DEF IInv
<1> QED
  BY <1>1, IInvAlways, PTL

\* However many requests interleave, the settings are enabled only for a secret the
\* user has confirmed, unless a setup or a first verification was itself overtaken.
THEOREM EnabledAreConfirmed == Spec => []EnabledIsConfirmed
<1>1. IInv => EnabledIsConfirmed
  BY DEF IInv
<1> QED
  BY <1>1, IInvAlways, PTL

\* No used, replaced or dropped backup code works again, unless the use of a code was
\* overtaken by another write of the list.
THEOREM CodesStayDead == Spec => []DeadCodesStayDead
<1>1. IInv => DeadCodesStayDead
  BY DEF IInv
<1> QED
  BY <1>1, IInvAlways, PTL

\* Nothing but the commit of a first valid TOTP code switches two-factor on.
THEOREM CodeAloneEnables == Spec => OnlyCodeEnables
<1> DEFINE Enabling ==
      \A i \in Ids :
         ~(Exists(i) /\ rows[i].is.enabled) /\ rows'[i] # None /\ rows'[i].is.enabled =>
            \E c \in Clients : req[c].kind = "verify" /\ req[c].id = i /\ Commit(c)
<1>1. ASSUME IInv, [Next]_vars PROVE Enabling
  <2>1. CASE rows' = rows
    BY <2>1 DEF Exists
  <2>2. ASSUME NEW c \in Clients, Insert(c) PROVE Enabling
    BY <1>1, <2>2, InsertKeeps
  <2>3. ASSUME NEW c \in Clients, Commit(c) PROVE Enabling
    BY <1>1, <2>3, CommitKeeps
  <2> QED
    BY <1>1, <2>1, <2>2, <2>3
       DEF Next, vars, BeginFirstSetup, BeginSetup, BeginVerify, BeginConsume,
           BeginDisable, BeginRegenerate
<1> QED
  BY <1>1, IInvAlways, PTL DEF Spec, OnlyCodeEnables

-----------------------------------------------------------------------------
(***************************************************************************)
(* Without races.  When the account's requests are handled one at a time,  *)
(* every exception above falls away and the claim of the module's README   *)
(* holds.  One lock per account, taken before the select and given back    *)
(* after the commit, is therefore all that is missing.                     *)
(***************************************************************************)
OneAtATime ==
    \A c, d \in Clients : req[c].kind # "idle" /\ req[d].kind # "idle" => c = d

\* Nothing is overtaken; there is one row at most; a code in hand is unused
Alone ==
    /\ \A c \in Clients : req[c].raced = {}
    /\ \A i \in Ids : Exists(i) => rows[i].secretSound /\ rows[i].codesSound
    /\ \A i, j \in Ids : Exists(i) /\ Exists(j) => i = j
    /\ \A c \in Clients :
          req[c].kind = "setup" /\ req[c].id = None => \A i \in Ids : ~Exists(i)
    /\ \A c \in Clients : req[c].kind = "consume" => req[c].code \notin spent

\* What the account's user is promised, with no exception
Promised ==
    /\ \A i, j \in Ids : Exists(i) /\ Exists(j) => i = j
    /\ \A i \in Ids : Exists(i) /\ rows[i].is.enabled =>
          rows[i].is.verified /\ rows[i].is.secret \in confirmed
    /\ \A i \in Ids : Exists(i) => rows[i].is.codes \cap (spent \cup dropped) = {}

\* A request that begins has been overtaken by nobody.
LEMMA AloneBegin ==
    ASSUME IInv, Alone, NEW c \in Clients, NEW q, req' = [req EXCEPT ![c] = q],
           UNCHANGED <<rows, spent>>, q.raced = {},
           q.kind = "setup" /\ q.id = None => \A i \in Ids : ~Exists(i),
           q.kind = "consume" => q.code \notin spent
    PROVE  Alone'
<1>1. req'[c] = q /\ \A d \in Clients \ {c} : req'[d] = req[d]
  BY DEF IInv, TypeOK
<1> QED
  BY <1>1 DEF Alone, Exists

\* The handlers that load the row: a listed code is an unused one.
LEMMA AloneLoad ==
    ASSUME IInv, Alone, NEW c \in Clients, NEW i \in Ids, NEW kind, NEW copy, NEW code,
           Load(c, kind, i, copy, code), UNCHANGED <<rows, spent>>,
           kind = "consume" => code \notin spent
    PROVE  Alone'
<1> DEFINE q == [kind |-> kind, id |-> i, copy |-> copy,
                 dirty |-> Dirty(copy, rows[i].is), code |-> code, raced |-> {}]
<1>1. req' = [req EXCEPT ![c] = q]
  BY DEF Load
<1>2. /\ q.raced = {} /\ q.kind = kind /\ q.id = i /\ q.code = code
      /\ q.id # None
  BY ConstantsAssumption
<1> HIDE DEF q
<1> QED
  BY <1>1, <1>2, AloneBegin

\* setup_totp_2fa for an account without settings.
LEMMA AloneFirstSetup ==
    ASSUME IInv, Alone, NEW c \in Clients, BeginFirstSetup(c)
    PROVE  Alone'
<1> DEFINE q == [kind |-> "setup", id |-> None, copy |-> NewSettings(generated + 1),
                 dirty |-> {}, code |-> None, raced |-> {}]
<1>1. req' = [req EXCEPT ![c] = q] /\ (\A i \in Ids : ~Exists(i)) /\ UNCHANGED <<rows, spent>>
  BY DEF BeginFirstSetup
<1>2. q.raced = {} /\ q.kind = "setup"
  OBVIOUS
<1> HIDE DEF q
<1> QED
  BY <1>1, <1>2, AloneBegin

\* Its INSERT is the account's only row.
LEMMA AloneInsert ==
    ASSUME IInv, Alone, OneAtATime, NEW c \in Clients, Insert(c)
    PROVE  Alone'
<1>1. req[c].kind = "setup" /\ \A i \in Ids : ~Exists(i)
  BY DEF Insert, Alone
<1>2. PICK i \in Ids :
         rows' = [rows EXCEPT ![i] = [is |-> req[c].copy, secretSound |-> TRUE,
                                      codesSound |-> TRUE]]
  BY DEF Insert
<1>3. /\ rows'[i].secretSound /\ rows'[i].codesSound
      /\ \A j \in Ids \ {i} : rows'[j] = None
  BY <1>1, <1>2 DEF IInv, TypeOK, Exists
<1>4. \A d \in Clients : req'[d].kind = "idle" /\ req'[d].raced = {}
  <2>1. req'[c] = Idle /\ Idle.kind = "idle" /\ Idle.raced = {}
    BY DEF Insert, IInv, TypeOK, Idle
  <2>2. \A d \in Clients \ {c} : req'[d] = req[d] /\ req[d].kind = "idle"
    BY <1>1 DEF Insert, IInv, TypeOK, OneAtATime
  <2> QED
    BY <2>1, <2>2 DEF Alone
<1> QED
  BY <1>3, <1>4 DEF Alone, Exists

\* An UPDATE that overtakes nobody, and was not overtaken.
LEMMA AloneCommit ==
    ASSUME IInv, Alone, OneAtATime, NEW c \in Clients, Commit(c)
    PROVE  Alone'
<1> DEFINE q   == req[c]
           old == rows[q.id]
           new == Merge(q.copy, q.dirty, old.is)
           row == [is |-> new, secretSound |-> SecretSound(q, old),
                   codesSound |-> CodesSound(q, old)]
<1>1. q \in Request /\ Shape(q) /\ q.raced = {} /\ q.id # None
  BY DEF IInv, TypeOK, InFlight, Alone, Commit
<1>2. q.kind # "idle" /\ q.id \in Ids /\ Exists(q.id)
  BY <1>1 DEF Shape, Request
<1>3. /\ rows'[q.id] = row
      /\ \A j \in Ids \ {q.id} : rows'[j] = rows[j]
  BY <1>2 DEF Commit, IInv, TypeOK
<1>4. old.secretSound /\ old.codesSound
  BY <1>2 DEF Alone
<1>5. SecretSound(q, old) /\ CodesSound(q, old)
  BY <1>1, <1>4 DEF SecretSound, CodesSound
<1>6. \A j \in Ids : rows'[j] # None => Exists(j) /\ rows'[j].secretSound /\ rows'[j].codesSound
  BY <1>2, <1>3, <1>5 DEF Alone, Exists
<1>7. \A d \in Clients : req'[d].kind = "idle" /\ req'[d].raced = {}
  <2>1. req'[c] = Idle /\ Idle.kind = "idle" /\ Idle.raced = {}
    BY DEF Commit, Idle
  <2>2. ASSUME NEW d \in Clients \ {c} PROVE req'[d] = req[d] /\ req[d].kind = "idle"
    <3>1. req[d].kind = "idle"
      BY <1>2 DEF OneAtATime
    <3>2. req[d].id = None
      BY <3>1 DEF IInv, InFlight, Shape
    <3> QED
      BY <1>1, <3>1, <3>2 DEF Commit
  <2> QED
    BY <2>1, <2>2 DEF Alone
<1> QED
  BY <1>6, <1>7 DEF Alone, Exists

\* Handled one at a time, an account's requests never bring a second row, a backup
\* code that works twice or any dead one, or an enabled secret nobody confirmed.
THEOREM OneAtATimeIsSafe == Spec /\ []OneAtATime => SingleUse /\ []Promised
<1>1. Init => Alone
  BY IdleShape DEF Init, Alone, Exists, Idle
<1>2. IInv /\ Alone /\ OneAtATime /\ [Next]_vars => Alone'
  <2> SUFFICES ASSUME IInv, Alone, OneAtATime, [Next]_vars PROVE Alone'
    OBVIOUS
  <2>1. CASE UNCHANGED vars
    BY <2>1 DEF vars, Alone, Exists
  <2>2. ASSUME NEW c \in Clients, BeginFirstSetup(c) \/ Insert(c) \/ Commit(c)
        PROVE  Alone'
    BY <2>2, AloneFirstSetup, AloneInsert, AloneCommit
  <2>3. ASSUME NEW c \in Clients, NEW i \in Ids,
               \/ BeginSetup(c, i) \/ BeginVerify(c, i)
               \/ BeginDisable(c, i) \/ BeginRegenerate(c, i)
        PROVE  Alone'
    BY <2>3, AloneLoad DEF BeginSetup, BeginVerify, BeginDisable, BeginRegenerate
  <2>4. ASSUME NEW c \in Clients, NEW i \in Ids, Exists(i), NEW k \in rows[i].is.codes,
               BeginConsume(c, i, k)
        PROVE  Alone'
    <3>1. k \notin spent
      BY <2>4 DEF IInv, DeadCodesStayDead, Alone
    <3> QED
      BY <2>4, <3>1, AloneLoad DEF BeginConsume
  <2> QED
    BY <2>1, <2>2, <2>3, <2>4 DEF Next
<1>3. IInv /\ Alone => Promised
  BY DEF IInv, Alone, Promised, EnabledIsConfirmed, DeadCodesStayDead
<1>4. Alone /\ [Next]_vars =>
        [\A c \in Clients : Commit(c) /\ req[c].kind = "consume" => req[c].code \notin spent]_vars
  BY DEF Alone
<1> QED
  BY <1>1, <1>2, <1>3, <1>4, IInvAlways, PTL DEF Spec, SingleUse
=============================================================================
