------------------------------ MODULE MCBookings ------------------------------
(***************************************************************************)
(* Small instance of Bookings: a guest and a clerk, two bookings, two      *)
(* rooms, stays of one and two nights, and one patch of each shape: dates  *)
(* apart and together, room alone, status alone.                           *)
(***************************************************************************)
EXTENDS Bookings, TLC

CONSTANTS guest, clerk

MCStaff == [r \in Rooms |-> {clerk}]

MCOffers == {[room_id |-> r, check_in |-> d, check_out |-> 3, status |-> "pending"] :
                r \in Rooms, d \in {1, 2}}

MCPatches ==
    { [NoChanges EXCEPT !.check_in = 2],
      [NoChanges EXCEPT !.check_out = 2],
      [NoChanges EXCEPT !.check_in = 1, !.check_out = 2],
      OnlyStatus("pending") }
    \cup {[NoChanges EXCEPT !.room_id = r] : r \in Rooms}

\* Rooms and bookings are interchangeable: no constant tells them apart
Symmetry == Permutations(Rooms) \cup Permutations(Ids)
=============================================================================
