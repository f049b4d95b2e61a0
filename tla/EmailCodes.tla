------------------------------ MODULE EmailCodes ------------------------------
(***************************************************************************)
(* The e-mail code service: sign-up codes, password-reset codes, recovery- *)
(* address codes, the reset confirmation they grant, and the background    *)
(* task that deletes a code once it has expired.                           *)
(*                                                                         *)
(* State the code keeps:                                                   *)
(*   rows      table transient_verification_store (survives a restart)     *)
(*   users     addresses that own an account; recovery: their recovery     *)
(*             address, UNIQUE in the users table                          *)
(*   tasks     the asyncio tasks of email_code_cleanup_loop (in memory)    *)
(*   req       one entry per request in flight: the handler's position     *)
(*             between two awaits and the values it holds there            *)
(*                                                                         *)
(* A handler step is the code between two awaits on the database: a select *)
(* is one step, a commit (flush and commit) is one step.  A request that   *)
(* is refused at its first select leaves no trace and is not a step.       *)
(* Expiry times are abstracted to the flag "expired" that time raises.     *)
(***************************************************************************)
EXTENDS Naturals

CONSTANTS
    Emails,       \* e-mail addresses
    Codes,        \* values a mailed code can take
    Clients,      \* slots for requests in flight
    Registered,   \* addresses that own an account at the start
    Admin,        \* SUPER_ADMIN_EMAIL_ADDRESS, or None when it is not configured
    None,         \* SQL NULL
    MaxRows,      \* bound: rows ever inserted in the store
    MaxRestarts   \* bound: restarts of the server process

CodeReasons ==
    {"email_verification", "password_change", "recovery_email_verification"}

Reasons == CodeReasons \cup {"password_change_confirmation"}

\* What of a row is seen from outside
SlotValue == [reason : Reasons, expired : BOOLEAN]

ASSUME ConstantsAssumption ==
    /\ Registered \subseteq Emails
    /\ Admin \in Registered \cup {None}
    /\ None \notin Emails \cup Codes \cup SlotValue
    /\ MaxRows \in Nat
    /\ MaxRestarts \in Nat

VARIABLES
    rows, nextId, users, recovery, req, tasks, boot,
    \* history, read by properties only:
    proved,       \* <<e, r>>: an unexpired code for r was presented for e
    changed       \* addresses whose password or PIN a reset has changed

vars == <<rows, nextId, users, recovery, req, tasks, boot, proved, changed>>

(***************************************************************************)
(* Types.                                                                  *)
(***************************************************************************)
Row == [id : Nat, email : Emails, reason : Reasons,
        code : Codes \cup {None}, expired : BOOLEAN,
        boot : Nat]          \* history: the boot whose task watches the row

Positions ==
    {"idle", "taken", "lookup", "reselect", "store",
     "spend", "register", "recover", "granting", "grant",
     "auth", "apply", "discard"}

Request == [pc : Positions, email : Emails \cup {None},
            reason : CodeReasons \cup {None}, who : Emails \cup {None},
            code : Codes \cup {None}, id : Nat, old : Codes \cup {None}]

\* found is 0 while the loop sleeps, else the row it is about to delete
Task == [email : Emails, code : Codes, reason : CodeReasons, found : Nat]

TypeOK ==
    /\ rows \subseteq Row
    /\ nextId \in Nat \ {0}
    /\ users \subseteq Emails
    /\ recovery \in [Emails -> Emails \cup {None}]
    /\ req \in [Clients -> Request]
    /\ tasks \subseteq Task
    /\ boot \in Nat
    /\ proved \subseteq Emails \X CodeReasons
    /\ changed \subseteq Emails

-----------------------------------------------------------------------------
(***************************************************************************)
(* The store.                                                              *)
(***************************************************************************)
Idle == [pc |-> "idle", email |-> None, reason |-> None, who |-> None,
         code |-> None, id |-> 0, old |-> None]

Start(c, p, e, r) ==
    /\ req[c].pc = "idle"
    /\ req' = [req EXCEPT ![c] = [Idle EXCEPT !.pc = p, !.email = e, !.reason = r]]

Goto(c, p) == req' = [req EXCEPT ![c].pc = p]

Reply(c) == req' = [req EXCEPT ![c] = Idle]

Init ==
    /\ rows = {}
    /\ nextId = 1
    /\ users = Registered
    /\ recovery = [e \in Emails |-> None]
    /\ req = [c \in Clients |-> Idle]
    /\ tasks = {}
    /\ boot = 0
    /\ proved = {}
    /\ changed = {}

\* SELECT ... WHERE email_address = e AND reason = r
RowsFor(e, r) == {w \in rows : w.email = e /\ w.reason = r}

\* Mutant: an expired row no longer blocks a new request
PendingUnexpired(e, r) == \E w \in RowsFor(e, r) : ~w.expired

\* The gate of handle_email_code_request: a row with an expiry time, expired or not
Pending(e, r) == RowsFor(e, r) # {}

\* Mutant: the reason argument of the decorator is left out
MatchingAnyReason(e, k, r) == {w \in rows : w.email = e /\ w.code = k}

\* The filters of confirm_email_verification_code
Matching(e, k, r) == {w \in RowsFor(e, r) : w.code = k}

\* email_address is UNIQUE, whatever the reason
Taken(e) == \E w \in rows : w.email = e

\* DELETE by primary key; a row that is already gone only logs a warning
Without(i) == {w \in rows : w.id # i}

Insert(e, r, k) ==
    /\ nextId <= MaxRows
    /\ rows' = rows \cup {[id |-> nextId, email |-> e, reason |-> r, code |-> k,
                           expired |-> FALSE, boot |-> boot]}
    /\ nextId' = nextId + 1

\* Mutant: the task is started with the code the row had when it was loaded
WatchLoadedCode(c) ==
    tasks' = tasks \cup {[email |-> req[c].email, code |-> req[c].old,
                          reason |-> req[c].reason, found |-> 0]}

\* asyncio.create_task(run_cache_task()), in the same step as the commit before it
Watch(c) ==
    tasks' = tasks \cup {[email |-> req[c].email, code |-> req[c].code,
                          reason |-> req[c].reason, found |-> 0]}

-----------------------------------------------------------------------------
(***************************************************************************)
(* Asking for a code.                                                      *)
(***************************************************************************)
\* probe_email_uniqueness_and_request_verification_code: no account has e yet
AskSignup(c, e) ==
    /\ e \notin users
    /\ Start(c, "lookup", e, "email_verification")
    /\ UNCHANGED <<rows, nextId, users, recovery, tasks, boot, proved, changed>>

\* send_password_reset_mail: e has an account
AskReset(c, e) ==
    /\ e \in users
    /\ Start(c, "lookup", e, "password_change")
    /\ UNCHANGED <<rows, nextId, users, recovery, tasks, boot, proved, changed>>

\* request_recovery_email_change by the account who: e is not its recovery
\* address and not the primary address of any account ...
AskRecovery(c, who, e) ==
    /\ who \in users
    /\ recovery[who] # e
    /\ e \notin users
    /\ Start(c, "taken", e, "recovery_email_verification")
    /\ UNCHANGED <<rows, nextId, users, recovery, tasks, boot, proved, changed>>

\* ... and, in a second select, not the recovery address of one
CheckRecovery(c) ==
    /\ req[c].pc = "taken"
    /\ IF \E u \in users : recovery[u] = req[c].email THEN Reply(c) ELSE Goto(c, "lookup")
    /\ UNCHANGED <<rows, nextId, users, recovery, tasks, boot, proved, changed>>

\* handle_email_code_request, first select: a pending row answers 302, with a
\* code of another request in the mail.  Otherwise the mail goes out (the call
\* blocks the event loop, so nothing interleaves with it) ...
MailCode(c, k) ==
    /\ req[c].pc = "lookup"
    /\ ~Pending(req[c].email, req[c].reason)
    /\ req' = [req EXCEPT ![c].pc = "reselect", ![c].code = k]
    /\ UNCHANGED <<rows, nextId, users, recovery, tasks, boot, proved, changed>>

\* ... or the request ends here: 302, or the mailer raised
AskRefused(c) ==
    /\ req[c].pc = "lookup"
    /\ Reply(c)
    /\ UNCHANGED <<rows, nextId, users, recovery, tasks, boot, proved, changed>>

\* second select: the row a concurrent request may have committed meanwhile
Reselect(c) ==
    /\ req[c].pc = "reselect"
    /\ LET found == RowsFor(req[c].email, req[c].reason) IN
       \/ /\ found = {}
          /\ Goto(c, "store")
       \/ \E w \in found :
             req' = [req EXCEPT ![c].pc = "store", ![c].id = w.id, ![c].old = w.code]
    /\ UNCHANGED <<rows, nextId, users, recovery, tasks, boot, proved, changed>>

\* commit of the INSERT, then the cleanup task starts
StoreNew(c) ==
    /\ req[c].pc = "store"
    /\ req[c].id = 0
    /\ ~Taken(req[c].email)
    /\ Insert(req[c].email, req[c].reason, req[c].code)
    /\ Watch(c)
    /\ Reply(c)
    /\ UNCHANGED <<users, recovery, boot, proved, changed>>

\* commit of the UPDATE: only the columns that differ from the loaded ones
StoreAgain(c) ==
    /\ req[c].pc = "store"
    /\ \E w \in rows :
          LET kept == req[c].code = req[c].old IN
          /\ w.id = req[c].id
          /\ rows' = (rows \ {w}) \cup
                {[w EXCEPT !.code = IF kept THEN w.code ELSE req[c].code,
                           !.boot = IF kept /\ w.code # req[c].code THEN w.boot ELSE boot,
                           !.expired = FALSE]}
    /\ Watch(c)
    /\ Reply(c)
    /\ UNCHANGED <<nextId, users, recovery, boot, proved, changed>>

\* The commit raises: the address has a row of another reason (UNIQUE), or the
\* row to update is gone.  Rolled back and answered 500, though the mail is out.
StoreFails(c) ==
    /\ req[c].pc = "store"
    /\ IF req[c].id = 0 THEN Taken(req[c].email) ELSE \A w \in rows : w.id # req[c].id
    /\ Reply(c)
    /\ UNCHANGED <<rows, nextId, users, recovery, tasks, boot, proved, changed>>

-----------------------------------------------------------------------------
(***************************************************************************)
(* Confirming a code: the decorator confirm_email_verification_code and    *)
(* the three handlers it wraps.                                            *)
(***************************************************************************)
\* select by address, code and reason; 400 when there is none, 410 when it has
\* expired.  A recovery code is presented by an authenticated account who: any
\* account, the code is not bound to the one that asked for it.
Present(c, e, k, r, who) ==
    /\ req[c].pc = "idle"
    /\ IF r = "recovery_email_verification" THEN who \in users ELSE who = None
    /\ \E w \in Matching(e, k, r) :
          /\ ~w.expired
          /\ req' = [req EXCEPT ![c] = [Idle EXCEPT !.pc = "spend", !.email = e, !.reason = r,
                                                    !.who = who, !.id = w.id]]
          /\ proved' = proved \cup {<<e, w.reason>>}
    /\ UNCHANGED <<rows, nextId, users, recovery, tasks, boot, changed>>

\* the decorator deletes the row it read, commits, and calls the handler
Spend(c) ==
    /\ req[c].pc = "spend"
    /\ rows' = Without(req[c].id)
    /\ \/ req[c].reason = "email_verification" /\ Goto(c, "register")
       \/ req[c].reason = "recovery_email_verification" /\ Goto(c, "recover")
       \/ req[c].reason = "password_change" /\ Goto(c, "granting")
    /\ UNCHANGED <<nextId, users, recovery, tasks, boot, proved, changed>>

\* confirm_email_verification_code_and_sign_user_up: users.email is UNIQUE, so a
\* second registration is rolled back and answered 500
Register(c) ==
    /\ req[c].pc = "register"
    /\ users' = users \cup {req[c].email}
    /\ Reply(c)
    /\ UNCHANGED <<rows, nextId, recovery, tasks, boot, proved, changed>>

\* confirm_recovery_email_change: 500 when the account that asks is gone, or when
\* another has this recovery_email, which is UNIQUE
Recover(c) ==
    /\ req[c].pc = "recover"
    /\ recovery' = IF \/ req[c].who = None
                      \/ \E u \in users \ {req[c].who} : recovery[u] = req[c].email
                   THEN recovery
                   ELSE [recovery EXCEPT ![req[c].who] = req[c].email]
    /\ Reply(c)
    /\ UNCHANGED <<rows, nextId, users, tasks, boot, proved, changed>>

\* handle_confirm_pin_or_password_change_code: a confirmation row that is already
\* there leaves verification_instance unbound (UnboundLocalError, 500) ...
LookForGrant(c) ==
    /\ req[c].pc = "granting"
    /\ IF RowsFor(req[c].email, "password_change_confirmation") = {}
       THEN Goto(c, "grant")
       ELSE Reply(c)
    /\ UNCHANGED <<rows, nextId, users, recovery, tasks, boot, proved, changed>>

\* ... else one is inserted, or the UNIQUE address makes the commit raise
Grant(c) ==
    /\ req[c].pc = "grant"
    /\ \/ /\ ~Taken(req[c].email)
          /\ Insert(req[c].email, "password_change_confirmation", None)
       \/ /\ Taken(req[c].email)
          /\ UNCHANGED <<rows, nextId>>
    /\ Reply(c)
    /\ UNCHANGED <<users, recovery, tasks, boot, proved, changed>>

-----------------------------------------------------------------------------
(***************************************************************************)
(* change_pin_or_password.                                                 *)
(***************************************************************************)
\* Mutant: any row of the address passes for its confirmation
BeginChangeAnyRow(c, e) ==
    /\ req[c].pc = "idle"
    /\ \E w \in rows :
          /\ w.email = e
          /\ req' = [req EXCEPT ![c] = [Idle EXCEPT !.pc = IF w.expired THEN "discard" ELSE "auth",
                                                    !.email = e, !.id = w.id]]
    /\ UNCHANGED <<rows, nextId, users, recovery, tasks, boot, proved, changed>>

\* the confirmation row is read (410 when there is none) and its expiry checked
BeginChange(c, e) ==
    /\ req[c].pc = "idle"
    /\ \E w \in RowsFor(e, "password_change_confirmation") :
          req' = [req EXCEPT ![c] = [Idle EXCEPT !.pc = IF w.expired THEN "discard" ELSE "auth",
                                                 !.email = e, !.id = w.id]]
    /\ UNCHANGED <<rows, nextId, users, recovery, tasks, boot, proved, changed>>

\* no such account: 404; the new secret may equal the old one: 400
Authenticate(c) ==
    /\ req[c].pc = "auth"
    /\ \/ /\ req[c].email \in users
          /\ req' = [req EXCEPT ![c].pc = "apply", ![c].who = req[c].email]
       \/ Goto(c, "discard")
    /\ UNCHANGED <<rows, nextId, users, recovery, tasks, boot, proved, changed>>

\* The new hash is set on an account that has been deleted since it was loaded
Stale(c) == req[c].pc = "apply" /\ req[c].who = None

\* "finally": the row is deleted whatever happened, in one commit with the new
\* hash, and so it stays when that commit raises
FinishChange(c) ==
    /\ req[c].pc \in {"apply", "discard"}
    /\ rows' = IF Stale(c) THEN rows ELSE Without(req[c].id)
    /\ changed' = IF req[c].pc = "apply" /\ ~Stale(c) THEN changed \cup {req[c].email} ELSE changed
    /\ Reply(c)
    /\ UNCHANGED <<nextId, users, recovery, tasks, boot, proved>>

-----------------------------------------------------------------------------
\* delete_user: by primary key, so one commit after its select is one step; its
\* requests in flight are left with an account that is gone.  An account whose
\* other rows forbid the deletion is answered 500 and stays.
DeleteAccount(u) ==
    /\ users' = users \ {u}
    /\ recovery' = [recovery EXCEPT ![u] = None]
    /\ req' = [c \in Clients |->
                 IF req[c].who = u THEN [req[c] EXCEPT !.who = None] ELSE req[c]]
    /\ UNCHANGED <<rows, nextId, tasks, boot, proved, changed>>

-----------------------------------------------------------------------------
(***************************************************************************)
(* email_code_cleanup_loop.  An iteration that finds a row not yet expired *)
(* only sleeps, which is a stuttering step.                                *)
(***************************************************************************)
Watched(t) == Matching(t.email, t.code, t.reason)

\* Mutant: the break is reached by every iteration
LoopEndsAnyway(t) ==
    /\ t.found = 0
    /\ tasks' = tasks \ {t}
    /\ UNCHANGED <<rows, nextId, users, recovery, req, boot, proved, changed>>

\* the row is gone: the loop ends
LoopEnds(t) ==
    /\ t.found = 0
    /\ Watched(t) = {}
    /\ tasks' = tasks \ {t}
    /\ UNCHANGED <<rows, nextId, users, recovery, req, boot, proved, changed>>

LoopFindsExpired(t) ==
    /\ t.found = 0
    /\ \E w \in Watched(t) :
          /\ w.expired
          /\ tasks' = (tasks \ {t}) \cup {[t EXCEPT !.found = w.id]}
    /\ UNCHANGED <<rows, nextId, users, recovery, req, boot, proved, changed>>

\* Mutant: the DELETE names the address
LoopDeletesByAddress(t) ==
    /\ t.found # 0
    /\ rows' = {w \in rows : w.email # t.email}
    /\ tasks' = tasks \ {t}
    /\ UNCHANGED <<nextId, users, recovery, req, boot, proved, changed>>

LoopDeletes(t) ==
    /\ t.found # 0
    /\ rows' = Without(t.found)
    /\ tasks' = tasks \ {t}
    /\ UNCHANGED <<nextId, users, recovery, req, boot, proved, changed>>

\* Mutant: the except branch leaves the loop
LoopDiesOnError(t) ==
    /\ t.found # 0
    /\ tasks' = tasks \ {t}
    /\ UNCHANGED <<rows, nextId, users, recovery, req, boot, proved, changed>>

\* the except branch: rolled back, logged, tried again after the sleep
LoopFails(t) ==
    /\ t.found # 0
    /\ tasks' = (tasks \ {t}) \cup {[t EXCEPT !.found = 0]}
    /\ UNCHANGED <<rows, nextId, users, recovery, req, boot, proved, changed>>

-----------------------------------------------------------------------------
(***************************************************************************)
(* The environment: time and the process.                                  *)
(***************************************************************************)
\* Timing assumption: the lifetime of a code (300 or 1800 s) is longer than a
\* request spends between its two selects and its commit (it waits 30 s for a
\* connection, then fails)
NoRequestSpansLifetime(w) ==
    \A c \in Clients : req[c].pc \in {"reselect", "store"} =>
        ~(req[c].email = w.email /\ req[c].reason = w.reason)

Expire(w) ==
    /\ ~w.expired
    /\ NoRequestSpansLifetime(w)
    /\ rows' = (rows \ {w}) \cup {[w EXCEPT !.expired = TRUE]}
    /\ UNCHANGED <<nextId, users, recovery, req, tasks, boot, proved, changed>>

\* initialize_admin, at startup: an account is made again for the super admin's
\* address when it was closed, and in place of one signed up there since
SeedAdmin ==
    /\ users' = users \cup ({Admin} \cap Emails)
    /\ recovery' \in {recovery} \cup {[recovery EXCEPT ![e] = None] : e \in {Admin} \cap Emails}

\* the process dies with its requests and tasks and starts again; nothing at
\* startup looks at the store
Restart ==
    /\ boot < MaxRestarts
    /\ boot' = boot + 1
    /\ req' = [c \in Clients |-> Idle]
    /\ tasks' = {}
    /\ SeedAdmin
    /\ UNCHANGED <<rows, nextId, proved, changed>>

-----------------------------------------------------------------------------
\* What clients start
Arrive(c) ==
    \E e \in Emails :
       \/ AskSignup(c, e)
       \/ AskReset(c, e)
       \/ BeginChange(c, e)
       \/ \E who \in Emails : AskRecovery(c, who, e)
       \/ \E k \in Codes, r \in CodeReasons, who \in Emails \cup {None} :
             Present(c, e, k, r, who)

\* What the server does with a request it has begun
Serve(c) ==
    \/ CheckRecovery(c)
    \/ \E k \in Codes : MailCode(c, k)
    \/ AskRefused(c)
    \/ Reselect(c)
    \/ StoreNew(c)
    \/ StoreAgain(c)
    \/ StoreFails(c)
    \/ Spend(c)
    \/ Register(c)
    \/ Recover(c)
    \/ LookForGrant(c)
    \/ Grant(c)
    \/ Authenticate(c)
    \/ FinishChange(c)

Cleanup(t) == LoopEnds(t) \/ LoopFindsExpired(t) \/ LoopDeletes(t) \/ LoopFails(t)

Next ==
    \/ \E c \in Clients : Arrive(c) \/ Serve(c)
    \/ \E u \in users : DeleteAccount(u)
    \/ \E t \in tasks : Cleanup(t)
    \/ \E w \in rows : Expire(w)
    \/ Restart

Spec == Init /\ [][Next]_vars

\* Time passes, begun requests are served, the loop keeps polling, and the
\* database does not fail its DELETE for ever.  Clients owe nothing.
Fairness ==
    /\ \A c \in Clients : WF_vars(Serve(c))
    /\ WF_vars(\E w \in rows : Expire(w))
    /\ WF_vars(\E t \in tasks : LoopFindsExpired(t))
    /\ SF_vars(\E t \in tasks : LoopDeletes(t))

FairSpec == Spec /\ Fairness

-----------------------------------------------------------------------------
(***************************************************************************)
(* Properties.                                                             *)
(***************************************************************************)
\* Every code row written since the last restart has a cleanup task that is
\* still polling for exactly its address, code and reason, whatever requests
\* raced to overwrite or re-create it.
CodesWatched ==
    \A w \in rows : w.code # None /\ w.boot = boot =>
        \E t \in tasks : /\ t.email = w.email
                         /\ t.code = w.code
                         /\ t.reason = w.reason
                         /\ t.found \in {0, w.id}

\* The cleanup loop never deletes a code that can still be used: not one that a
\* client re-requested, and not one overwritten, after the loop found it expired.
CleanupSparesLive ==
    [][\A t \in tasks : LoopDeletes(t) => \A w \in rows \ rows' : w.expired]_vars

\* An account, a recovery address, a reset confirmation and a changed password
\* each exist only after an unexpired code mailed to that address, for that
\* very purpose, was presented.
EffectsProved ==
    /\ \A e \in users \ Registered : <<e, "email_verification">> \in proved
    /\ \A u \in Emails : recovery[u] # None =>
          <<recovery[u], "recovery_email_verification">> \in proved
    /\ \A w \in rows : w.reason = "password_change_confirmation" =>
          <<w.email, "password_change">> \in proved
    /\ \A e \in changed : <<e, "password_change">> \in proved

\* A reset confirmation stays, expired or not, until a password change for its own
\* address uses it up: no code that is spent or stored again, and no cleanup loop,
\* ever takes it away, so that nothing else frees the address either
\* (handle_confirm_pin_or_password_change_code starts no task).
ConfirmationsWait ==
    [][\A e \in Emails :
          /\ RowsFor(e, "password_change_confirmation") # {}
          /\ RowsFor(e, "password_change_confirmation")' = {}
          => \E c \in Clients : /\ req[c].pc \in {"apply", "discard"}
                                /\ req[c].email = e
                                /\ req'[c] = Idle]_vars

\* What an address's slot in the store looks like from outside
Slot(e) ==
    IF Taken(e)
    THEN LET w == CHOOSE w \in rows : w.email = e
         IN [reason |-> w.reason, expired |-> w.expired]
    ELSE None

slotOf == [e \in Emails |-> Slot(e)]

Slots == INSTANCE AddressSlots WITH slot <- slotOf

\* The service keeps what AddressSlots promises of an address, whatever handlers,
\* loops and restarts interleave.
KeepsPromise == Slots!Spec

\* A code row does not outlive its code for ever, as long as the process that
\* wrote it keeps running, even when requests race and the DELETE fails at times.
CodesGo ==
    \A i \in 1..MaxRows, b \in 0..MaxRestarts :
        (\E w \in rows : w.id = i /\ w.code # None /\ w.boot = b)
            ~> (boot # b \/ \A w \in rows : w.id = i => w.boot # b)

\* Claim of the docstring of email_code_cleanup_loop: a code past its expiry time
\* is deleted.  A restart loses the task, and the claim with it.
ExpiredCodesDeleted ==
    \A i \in 1..MaxRows :
        (\E w \in rows : w.id = i /\ w.code # None /\ w.expired)
            ~> (\A w \in rows : w.id = i => ~w.expired)
=============================================================================
