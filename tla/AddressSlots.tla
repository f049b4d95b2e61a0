----------------------------- MODULE AddressSlots -----------------------------
(***************************************************************************)
(* What the e-mail code service promises of an address, seen from outside: *)
(* one slot per address, which holds at most one code or reset             *)
(* confirmation at a time.  A slot is filled when it is free, keeps its    *)
(* purpose until it is vacated, never comes back from expiry, and is       *)
(* vacated only once it has expired, been proved, or been acted upon.      *)
(* Nothing is done for an address but on a proof of the right purpose.     *)
(***************************************************************************)
CONSTANTS
    Emails,
    Registered,   \* addresses that own an account at the start
    Admin,        \* the operator's address, or None
    None          \* a free slot; no recovery address

VARIABLES
    slot,         \* Emails -> [reason, expired] or None
    proved,       \* <<e, r>>: an unexpired code for r was presented for e
    users, recovery, changed

vars == <<slot, proved, users, recovery, changed>>

CodeReasons ==
    {"email_verification", "password_change", "recovery_email_verification"}

Free(e) == slot[e] = None

Vacate(e) == slot' = [slot EXCEPT ![e] = None]

Init ==
    /\ slot = [e \in Emails |-> None]
    /\ proved = {}
    /\ users = Registered
    /\ recovery = [e \in Emails |-> None]
    /\ changed = {}

\* A code is mailed and kept
Issue(e, r) ==
    /\ Free(e)
    /\ slot' = [slot EXCEPT ![e] = [reason |-> r, expired |-> FALSE]]
    /\ UNCHANGED <<proved, users, recovery, changed>>

\* A proof of the purpose "password_change" opens the slot for one change
Confirm(e) ==
    /\ <<e, "password_change">> \in proved
    /\ Free(e)
    /\ slot' = [slot EXCEPT ![e] = [reason |-> "password_change_confirmation",
                                    expired |-> FALSE]]
    /\ UNCHANGED <<proved, users, recovery, changed>>

Expire(e) ==
    /\ ~Free(e)
    /\ ~slot[e].expired
    /\ slot' = [slot EXCEPT ![e] = [reason |-> slot[e].reason, expired |-> TRUE]]
    /\ UNCHANGED <<proved, users, recovery, changed>>

Purge(e) ==
    /\ ~Free(e)
    /\ slot[e].expired
    /\ Vacate(e)
    /\ UNCHANGED <<proved, users, recovery, changed>>

\* The code is presented while it is good ...
Prove(e, r) ==
    /\ ~Free(e)
    /\ slot[e] = [reason |-> r, expired |-> FALSE]
    /\ proved' = proved \cup {<<e, r>>}
    /\ UNCHANGED <<slot, users, recovery, changed>>

\* ... and is spent
Spend(e) ==
    /\ ~Free(e)
    /\ <<e, slot[e].reason>> \in proved
    /\ Vacate(e)
    /\ UNCHANGED <<proved, users, recovery, changed>>

SignUp(e) ==
    /\ <<e, "email_verification">> \in proved
    /\ users' = users \cup {e}
    /\ UNCHANGED <<slot, proved, recovery, changed>>

\* An account is closed; its address may sign up again
Leave(e) ==
    /\ users' = users \ {e}
    /\ recovery' = [recovery EXCEPT ![e] = None]
    /\ UNCHANGED <<slot, proved, changed>>

\* The operator's account is restored; it needs no proof
Restore ==
    /\ users' = users \cup ({Admin} \cap Emails)
    /\ recovery' \in {recovery} \cup {[recovery EXCEPT ![e] = None] : e \in {Admin} \cap Emails}
    /\ UNCHANGED <<slot, proved, changed>>

SetRecovery(u, e) ==
    /\ <<e, "recovery_email_verification">> \in proved
    /\ \A v \in users \ {u} : recovery[v] # e
    /\ recovery' = [recovery EXCEPT ![u] = e]
    /\ UNCHANGED <<slot, proved, users, changed>>

\* The confirmation is used up, with a change or, when that is refused, without
Change(e) ==
    /\ <<e, "password_change">> \in proved
    /\ changed' \in {changed, changed \cup {e}}
    /\ \/ Vacate(e) /\ ~Free(e) /\ slot[e].reason = "password_change_confirmation"
       \/ UNCHANGED slot
    /\ UNCHANGED <<proved, users, recovery>>

Next ==
    \/ \E e \in Emails :
          \/ \E r \in CodeReasons : Issue(e, r) \/ Prove(e, r)
          \/ Confirm(e) \/ Expire(e) \/ Purge(e) \/ Spend(e)
          \/ SignUp(e) \/ Leave(e) \/ Change(e)
          \/ \E u \in Emails : SetRecovery(u, e)
    \/ Restore

Spec == Init /\ [][Next]_vars
=============================================================================
