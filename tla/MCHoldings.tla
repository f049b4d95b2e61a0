------------------------------ MODULE MCHoldings ------------------------------
(***************************************************************************)
(* Small instance of Holdings: one user and one clerk, two properties, two *)
(* inspections and two transactions ever, two requests at a time, and the  *)
(* durations on both sides of every band of compute_rate.                  *)
(***************************************************************************)
EXTENDS Holdings, TLC

Symmetry == Permutations(Properties) \cup Permutations(Inspections)
            \cup Permutations(References) \cup Permutations(Requests)

\* Bound: a behaviour runs one part or the other.  They share no variable, so that
\* each still reaches every state it has.
OnePartAtATime ==
    \/ Init
    \/ Money!Init
=============================================================================
