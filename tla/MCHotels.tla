------------------------------ MODULE MCHotels ------------------------------
(***************************************************************************)
(* Small instance of Hotels: two hotels of one manager, two rooms and      *)
(* three bookings ever, one number to quarrel about and one more, two      *)
(* requests at a time.                                                     *)
(***************************************************************************)
EXTENDS Hotels, TLC

Symmetry == Permutations(Hotels) \cup Permutations(Rooms) \cup Permutations(Bookings)
            \cup Permutations(Numbers) \cup Permutations(Requests)
=============================================================================
