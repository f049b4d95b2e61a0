----------------------------- MODULE MCEmailCodes -----------------------------
(* Small instance of EmailCodes: one address with an account, one without. *)
EXTENDS EmailCodes, TLC

\* Code values and request slots are interchangeable: no constant tells them apart
Symmetry == Permutations(Codes) \cup Permutations(Clients)
=============================================================================
