------------------------------ MODULE MCInvites ------------------------------
(***************************************************************************)
(* Small instance of Invites: two addresses, two invites and three codes   *)
(* ever, two requests at a time.                                           *)
(***************************************************************************)
EXTENDS Invites, TLC

Symmetry == Permutations(Emails) \cup Permutations(Tokens) \cup Permutations(Codes)
            \cup Permutations(Requests)
=============================================================================
