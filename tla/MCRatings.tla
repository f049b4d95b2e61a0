------------------------------ MODULE MCRatings ------------------------------
(***************************************************************************)
(* Small instance of Ratings: two users, one of them staff, a hotel and a  *)
(* property, three ratings ever, of one or five stars.                    *)
(***************************************************************************)
EXTENDS Ratings, TLC

CONSTANTS guest, clerk

Symmetry == Permutations(Ids)
=============================================================================
