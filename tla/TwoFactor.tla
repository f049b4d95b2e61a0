------------------------------ MODULE TwoFactor -------------------------------
(***************************************************************************)
(* The two-factor settings of one account: setting up a TOTP secret,       *)
(* enabling it with a first valid code, using a backup code, replacing the *)
(* backup codes and disabling.  Each handler selects the account's row,    *)
(* decides on that copy and commits; the commit writes the columns in      *)
(* which the copy differs from what was loaded, over whatever the row      *)
(* holds by then.  user_id is not unique, and the select has no order.     *)
(*                                                                         *)
(* A secret is the number of the setup that generated it, a backup code    *)
(* the number of its batch and an index: fresh values never repeat.        *)
(***************************************************************************)
EXTENDS Naturals

CONSTANTS
    Clients,       \* slots for requests of the account in flight
    Ids,           \* primary keys (bound: rows ever created)
    Index,         \* positions in a batch of backup codes
    None,          \* SQL NULL; no row
    MaxGenerated   \* bound: secrets and batches ever generated

Code == Nat \X Index

\* No backup codes: NULL and the empty string are refused alike
Columns == [enabled : BOOLEAN, verified : BOOLEAN, secret : Nat \cup {None},
            codes : SUBSET Code]

Row == [is : Columns,
        secretSound : BOOLEAN,   \* history: no race decided the first three columns
        codesSound : BOOLEAN]    \* history: nor the backup codes

ASSUME ConstantsAssumption ==
    /\ None \notin Nat /\ None \notin Ids /\ None \notin Row
    /\ MaxGenerated \in Nat

VARIABLES
    rows, req, generated,
    \* history, read by properties only:
    confirmed,     \* secrets a valid TOTP code was presented for
    spent,         \* backup codes answered "verified and consumed"
    dropped        \* backup codes a commit has removed from a row

vars == <<rows, req, generated, confirmed, spent, dropped>>

Switch == {"enabled", "verified", "secret"}

Kinds == {"idle", "setup", "verify", "consume", "disable", "regenerate"}

Request == [kind : Kinds, id : Ids \cup {None}, copy : Columns \cup {None},
            dirty : SUBSET (Switch \cup {"codes"}), code : Code \cup {None},
            raced : SUBSET (Switch \cup {"codes"})]   \* history: written meanwhile

Exists(i) == rows[i] # None

TypeOK ==
    /\ rows \in [Ids -> Row \cup {None}]
    /\ req \in [Clients -> Request]
    /\ generated \in Nat
    /\ confirmed \subseteq Nat
    /\ spent \subseteq Code
    /\ dropped \subseteq Code

-----------------------------------------------------------------------------
(***************************************************************************)
(* What each handler makes of the settings it loaded.                      *)
(***************************************************************************)
Batch(n) == {n} \X Index

NewSettings(n) ==
    [enabled |-> FALSE, verified |-> FALSE, secret |-> n, codes |-> Batch(n)]

\* is_enabled alone is left
SetUp(s, n) == [NewSettings(n) EXCEPT !.enabled = s.enabled]

Verified(s) == [enabled |-> TRUE, verified |-> TRUE, secret |-> s.secret, codes |-> s.codes]

\* Mutant: the used code is not removed from the list
ConsumedKept(s, k) == s

Consumed(s, k) == [s EXCEPT !.codes = @ \ {k}]

\* Mutant: is_enabled is cleared like the columns around it
DisabledNull(s) == [enabled |-> None, verified |-> FALSE, secret |-> None, codes |-> {}]

Disabled(s) == [enabled |-> FALSE, verified |-> FALSE, secret |-> None, codes |-> {}]

Regenerated(s, n) == [s EXCEPT !.codes = Batch(n)]

\* The ORM's net changes
Dirty(copy, s) ==
    {x \in Switch \cup {"codes"} :
        \/ x = "enabled"  /\ copy.enabled # s.enabled
        \/ x = "verified" /\ copy.verified # s.verified
        \/ x = "secret"   /\ copy.secret # s.secret
        \/ x = "codes"    /\ copy.codes # s.codes}

\* Mutant: the UPDATE sets every column
WriteBack(copy, dirty, s) == copy

Merge(copy, dirty, s) ==
    [enabled  |-> IF "enabled" \in dirty THEN copy.enabled ELSE s.enabled,
     verified |-> IF "verified" \in dirty THEN copy.verified ELSE s.verified,
     secret   |-> IF "secret" \in dirty THEN copy.secret ELSE s.secret,
     codes    |-> IF "codes" \in dirty THEN copy.codes ELSE s.codes]

-----------------------------------------------------------------------------
Idle == [kind |-> "idle", id |-> None, copy |-> None, dirty |-> {}, code |-> None,
         raced |-> {}]

Init ==
    /\ rows = [i \in Ids |-> None]
    /\ req = [c \in Clients |-> Idle]
    /\ generated = 0
    /\ confirmed = {}
    /\ spent = {}
    /\ dropped = {}

\* get_user_2fa_settings found row i; the handler goes on with its copy
Load(c, kind, i, copy, code) ==
    /\ req[c].kind = "idle"
    /\ req' = [req EXCEPT ![c] = [kind |-> kind, id |-> i, copy |-> copy,
                                  dirty |-> Dirty(copy, rows[i].is), code |-> code,
                                  raced |-> {}]]

Generate ==
    /\ generated < MaxGenerated
    /\ generated' = generated + 1

\* setup_totp_2fa for an account without settings ...
BeginFirstSetup(c) ==
    /\ req[c].kind = "idle"
    /\ \A i \in Ids : ~Exists(i)
    /\ Generate
    /\ req' = [req EXCEPT ![c] = [kind |-> "setup", id |-> None,
                                  copy |-> NewSettings(generated + 1), dirty |-> {},
                                  code |-> None, raced |-> {}]]
    /\ UNCHANGED <<rows, confirmed, spent, dropped>>

\* Mutant: an enabled secret is replaced too
BeginSetupAnyway(c, i) ==
    /\ Exists(i)
    /\ Generate
    /\ Load(c, "setup", i, SetUp(rows[i].is, generated + 1), None)
    /\ UNCHANGED <<rows, confirmed, spent, dropped>>

\* ... and for one whose settings are not enabled (400 otherwise)
BeginSetup(c, i) ==
    /\ Exists(i)
    /\ ~rows[i].is.enabled
    /\ Generate
    /\ Load(c, "setup", i, SetUp(rows[i].is, generated + 1), None)
    /\ UNCHANGED <<rows, confirmed, spent, dropped>>

\* verify_totp_code, the first time a code is valid for the loaded secret; later
\* ones, and invalid ones (401), write only the log
BeginVerify(c, i) ==
    /\ Exists(i)
    /\ rows[i].is.secret # None
    /\ ~rows[i].is.verified
    /\ Load(c, "verify", i, Verified(rows[i].is), None)
    /\ confirmed' = confirmed \cup {rows[i].is.secret}
    /\ UNCHANGED <<rows, generated, spent, dropped>>

\* verify_backup_code, whether or not the settings are enabled
BeginConsume(c, i, k) ==
    /\ Exists(i)
    /\ k \in rows[i].is.codes
    /\ Load(c, "consume", i, Consumed(rows[i].is, k), k)
    /\ UNCHANGED <<rows, generated, confirmed, spent, dropped>>

\* disable_2fa and regenerate_backup_codes, behind the account's password or PIN
BeginDisable(c, i) ==
    /\ Exists(i)
    /\ rows[i].is.enabled
    /\ Load(c, "disable", i, Disabled(rows[i].is), None)
    /\ UNCHANGED <<rows, generated, confirmed, spent, dropped>>

BeginRegenerate(c, i) ==
    /\ Exists(i)
    /\ rows[i].is.enabled
    /\ Generate
    /\ Load(c, "regenerate", i, Regenerated(rows[i].is, generated + 1), None)
    /\ UNCHANGED <<rows, confirmed, spent, dropped>>

-----------------------------------------------------------------------------
\* commit of the INSERT: nothing stops a second row of the account
Insert(c) ==
    /\ req[c].kind = "setup"
    /\ req[c].id = None
    /\ \E i \in Ids :
          /\ ~Exists(i)
          /\ rows' = [rows EXCEPT ![i] = [is |-> req[c].copy, secretSound |-> TRUE,
                                          codesSound |-> TRUE]]
    /\ req' = [req EXCEPT ![c] = Idle]
    /\ UNCHANGED <<generated, confirmed, spent, dropped>>

\* History: a setup or a first valid code has raced a write of what it decided on
SecretSound(q, row) ==
    IF q.kind \in {"setup", "verify"} THEN q.raced \cap Switch = {}
    ELSE q.kind = "disable" \/ row.secretSound

\* History: a list with one code removed has raced a write of the list
CodesSound(q, row) ==
    IF q.kind = "consume" THEN row.codesSound /\ "codes" \notin q.raced
    ELSE "codes" \in q.dirty \/ row.codesSound

\* commit of the UPDATE; the answer of verify_backup_code follows
Commit(c) ==
    LET q   == req[c]
        old == rows[q.id]
        new == Merge(q.copy, q.dirty, old.is)
    IN /\ q.id # None
       /\ rows' = [rows EXCEPT ![q.id] = [is |-> new, secretSound |-> SecretSound(q, old),
                                          codesSound |-> CodesSound(q, old)]]
       /\ req' = [d \in Clients |->
                    IF d = c THEN Idle
                    ELSE IF req[d].id # q.id THEN req[d]
                    ELSE [req[d] EXCEPT !.raced = @ \cup q.dirty]]
       /\ spent' = IF q.kind = "consume" THEN spent \cup {q.code} ELSE spent
       /\ dropped' = dropped \cup (old.is.codes \ new.codes)
       /\ UNCHANGED <<generated, confirmed>>

Next ==
    \E c \in Clients :
       \/ BeginFirstSetup(c)
       \/ Insert(c)
       \/ Commit(c)
       \/ \E i \in Ids :
             \/ BeginSetup(c, i)
             \/ BeginVerify(c, i)
             \/ BeginDisable(c, i)
             \/ BeginRegenerate(c, i)
             \/ Exists(i) /\ \E k \in rows[i].is.codes : BeginConsume(c, i, k)

Spec == Init /\ [][Next]_vars

-----------------------------------------------------------------------------
(***************************************************************************)
(* Properties.                                                             *)
(***************************************************************************)
\* Two-factor is on only for a secret that the user has shown to hold, unless a
\* setup or a first verification raced a write of the secret or of the switch.
EnabledIsConfirmed ==
    \A i \in Ids : Exists(i) /\ rows[i].secretSound /\ rows[i].is.enabled =>
        /\ rows[i].is.verified
        /\ rows[i].is.secret \in confirmed

\* A backup code that was used, replaced by a new batch or dropped by a disable is
\* not in the list again, unless the use of a code raced a write of the list.
DeadCodesStayDead ==
    \A i \in Ids : Exists(i) /\ rows[i].codesSound =>
        rows[i].is.codes \cap (spent \cup dropped) = {}

\* Two-factor is switched on by a valid TOTP code alone: no stale copy that a
\* setup, a backup code or a regeneration commits undoes a disable.
OnlyCodeEnables ==
    [][\A i \in Ids :
          ~(Exists(i) /\ rows[i].is.enabled) /\ rows'[i] # None /\ rows'[i].is.enabled =>
             \E c \in Clients : req[c].kind = "verify" /\ req[c].id = i /\ Commit(c)]_vars

\* Claim of two_factor_auth/README.md: "Backup codes are single-use".  Two requests that load the
\* list before either commits both use the same code.
SingleUse ==
    [][\A c \in Clients : Commit(c) /\ req[c].kind = "consume" => req[c].code \notin spent]_vars
=============================================================================
