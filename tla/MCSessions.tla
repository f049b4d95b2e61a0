------------------------------ MODULE MCSessions ------------------------------
(***************************************************************************)
(* Small instance of Sessions: two addresses, three accounts and two       *)
(* sign-ins ever, two requests at a time.                                  *)
(***************************************************************************)
EXTENDS Sessions, TLC

Symmetry == Permutations(Users) \cup Permutations(Sessions) \cup Permutations(Requests)
=============================================================================
