------------------------------ MODULE RoomLedger ------------------------------
(***************************************************************************)
(* What the bookings promise of the rooms, seen from outside: a ledger of  *)
(* stays in which a stay is entered, or exchanged for another, in one step *)
(* that finds its nights free, and may be struck out at any time.          *)
(***************************************************************************)
EXTENDS Naturals

CONSTANTS
    Rooms,
    Dates,    \* instants a stay may start or end at
    Ids,      \* lines of the ledger
    None      \* a line that holds no room

VARIABLE ledger

Stay == [room_id : Rooms, check_in : Dates, check_out : Dates]

Nights(stay) == {d \in Dates : stay.check_in <= d /\ d < stay.check_out}

Apart(s1, s2) ==
    \/ s1.room_id # s2.room_id
    \/ Nights(s1) \cap Nights(s2) = {}

Init == ledger = [b \in Ids |-> None]

Enter(b, stay) ==
    /\ stay.check_in < stay.check_out
    /\ \A d \in Ids \ {b} : ledger[d] # None => Apart(stay, ledger[d])
    /\ ledger' = [ledger EXCEPT ![b] = stay]

StrikeOut(b) == ledger' = [ledger EXCEPT ![b] = None]

Next ==
    \E b \in Ids :
       \/ \E stay \in Stay : Enter(b, stay)
       \/ StrikeOut(b)

Spec == Init /\ [][Next]_ledger
=============================================================================
