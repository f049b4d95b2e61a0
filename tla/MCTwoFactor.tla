------------------------------ MODULE MCTwoFactor -----------------------------
(***************************************************************************)
(* Small instances of TwoFactor.  Clients, rows and the positions of a     *)
(* batch are interchangeable.                                              *)
(***************************************************************************)
EXTENDS TwoFactor, TLC

Symmetry == Permutations(Clients) \cup Permutations(Ids) \cup Permutations(Index)
=============================================================================
