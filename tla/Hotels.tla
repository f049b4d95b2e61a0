-------------------------------- MODULE Hotels --------------------------------
(***************************************************************************)
(* Hotels, their rooms, and what becomes of the bookings when a room or a  *)
(* hotel is deleted.                                                       *)
(*                                                                         *)
(* A room number is compared with those of the hotel twice, by create_room *)
(* and inside the flush, but no UNIQUE constraint guards it, and a patch   *)
(* compares nothing.                                                       *)
(*                                                                         *)
(* Room.booking is mapped as the one booking of the room, which is deleted *)
(* with it; Hotel.bookings is a plain backref, whose rows the ORM tries to *)
(* set to NULL.  hotel_id is NOT NULL, so that a hotel with a second       *)
(* booking on a room cannot be deleted, while deleting the room alone      *)
(* takes all its bookings along.                                           *)
(***************************************************************************)
EXTENDS Integers, FiniteSets

CONSTANTS
    Staff,       \* accounts with the role staff or admin
    Hotels,      \* primary keys of hotels (bound: hotels ever)
    Rooms,       \* primary keys of rooms (bound: rooms ever)
    Bookings,    \* primary keys of bookings (bound: bookings ever)
    Numbers,     \* room numbers
    Requests,    \* requests in flight at once
    None,        \* NULL; no row yet
    Gone         \* a deleted row: its key does not come back

Hotel == [manager_id : Staff]

Room == [hotel_id : Hotels, room_number : Numbers,
         sound : BOOLEAN]    \* history: its number was found free when it was given

\* The client names both; nothing compares them
Booking == [room_id : Rooms, hotel_id : Hotels]

ASSUME ConstantsAssumption ==
    /\ None \notin Hotel /\ Gone \notin Hotel
    /\ None \notin Room /\ Gone \notin Room
    /\ None \notin Booking /\ Gone \notin Booking
    /\ None \notin Hotels \cup Rooms \cup Numbers
    /\ None # Gone

VARIABLES
    hotels,      \* Hotels -> Hotel, None or Gone
    rooms,       \* Rooms -> Room, None or Gone
    bookings,    \* Bookings -> Booking, None or Gone
    req          \* Requests -> the request in flight

vars == <<hotels, rooms, bookings, req>>

Request == [pc : {"idle", "select", "flush", "insert", "patch", "look", "drop"},
            hotel : Hotels \cup {None},
            room : Rooms \cup {None},           \* the room to patch
            number : Numbers \cup {None},       \* the number asked for
            loaded : Numbers \cup {None},       \* the number the room had
            overtaken : BOOLEAN,                \* history: the number was given away
            doomed : SUBSET Bookings,           \* the one booking found of each room
            found : SUBSET Bookings]            \* the bookings found of the hotel

TypeOK ==
    /\ hotels \in [Hotels -> Hotel \cup {None, Gone}]
    /\ rooms \in [Rooms -> Room \cup {None, Gone}]
    /\ bookings \in [Bookings -> Booking \cup {None, Gone}]
    /\ req \in [Requests -> Request]

-----------------------------------------------------------------------------
Open(h) == hotels[h] \notin {None, Gone}

Stands(m) == rooms[m] \notin {None, Gone}

Booked(b) == bookings[b] \notin {None, Gone}

RoomsOf(h) == {m \in Rooms : Stands(m) /\ rooms[m].hotel_id = h}

BookingsOf(m) == {b \in Bookings : Booked(b) /\ bookings[b].room_id = m}

\* Hotel.bookings
BookingsAt(h) == {b \in Bookings : Booked(b) /\ bookings[b].hotel_id = h}

\* Mutant: no number is compared
NumberNotCompared(h, n) == Open(h)

\* The duplicates that create_room and the listener of before_insert look for
NumberFree(h, n) == \A m \in RoomsOf(h) : rooms[m].room_number # n

Idle == [pc |-> "idle", hotel |-> None, room |-> None, number |-> None,
         loaded |-> None, overtaken |-> FALSE, doomed |-> {}, found |-> {}]

Goto(r, pc) ==
    req' = [req EXCEPT ![r] =
               [pc |-> pc, hotel |-> req[r].hotel, room |-> req[r].room,
                number |-> req[r].number, loaded |-> req[r].loaded,
                overtaken |-> FALSE, doomed |-> req[r].doomed, found |-> req[r].found]]

Reply(r) == req' = [req EXCEPT ![r] = Idle]

\* History: q is about to insert the number n in hotel h, which now is given
Overtaken(q, h, n) ==
    IF q.pc = "insert" /\ q.hotel = h /\ q.number = n
    THEN [pc |-> q.pc, hotel |-> q.hotel, room |-> q.room, number |-> q.number,
          loaded |-> q.loaded, overtaken |-> TRUE, doomed |-> q.doomed,
          found |-> q.found]
    ELSE q

\* The request r has given the number n in hotel h
ReplyGiven(r, h, n) ==
    req' = [q \in Requests |-> IF q = r THEN Idle ELSE Overtaken(req[q], h, n)]

Init ==
    /\ hotels = [h \in Hotels |-> None]
    /\ rooms = [m \in Rooms |-> None]
    /\ bookings = [b \in Bookings |-> None]
    /\ req = [r \in Requests |-> Idle]

-----------------------------------------------------------------------------
\* create_hotel
CreateHotel(h, u) ==
    /\ hotels[h] = None
    /\ hotels' = [hotels EXCEPT ![h] = [manager_id |-> u]]
    /\ UNCHANGED <<rooms, bookings, req>>

\* require_manager: the hotel is there and u manages it, else 403
BeginAddRoom(r, u, h, n) ==
    /\ req[r].pc = "idle"
    /\ Open(h) /\ hotels[h].manager_id = u
    /\ req' = [req EXCEPT ![r] =
          [pc |-> "select", hotel |-> h, room |-> None, number |-> n, loaded |-> None,
           overtaken |-> FALSE, doomed |-> {}, found |-> {}]]
    /\ UNCHANGED <<hotels, rooms, bookings>>

\* create_room selects a duplicate (409), ...
SelectDuplicate(r) ==
    /\ req[r].pc = "select"
    /\ NumberFree(req[r].hotel, req[r].number)
    /\ Goto(r, "flush")
    /\ UNCHANGED <<hotels, rooms, bookings>>

\* ... prevent_multiple_admins once more in the flush (500), ...
PreventMultiple(r) ==
    /\ req[r].pc = "flush"
    /\ NumberFree(req[r].hotel, req[r].number)
    /\ Goto(r, "insert")
    /\ UNCHANGED <<hotels, rooms, bookings>>

\* ... then the insert and the commit
CommitRoom(r) ==
    /\ req[r].pc = "insert"
    /\ LET h == req[r].hotel
           n == req[r].number
       IN /\ Open(h)
          /\ \E m \in Rooms :
                /\ rooms[m] = None
                /\ rooms' = [rooms EXCEPT ![m] =
                      [hotel_id |-> h, room_number |-> n,
                       sound |-> ~req[r].overtaken]]
          /\ ReplyGiven(r, h, n)
    /\ UNCHANGED <<hotels, bookings>>

\* Mutant: rooms.room_number may be NULL, which a patch may ask for
BeginPatchNull(r, m, n) ==
    /\ req[r].pc = "idle"
    /\ Stands(m)
    /\ req' = [req EXCEPT ![r] =
          [pc |-> "patch", hotel |-> rooms[m].hotel_id, room |-> m, number |-> None,
           loaded |-> rooms[m].room_number, overtaken |-> FALSE,
           doomed |-> {}, found |-> {}]]
    /\ UNCHANGED <<hotels, rooms, bookings>>

\* update_room: load the room, 404 (answered 500) without one; NULL for the number
\* ends as 500 too
BeginPatch(r, m, n) ==
    /\ req[r].pc = "idle"
    /\ Stands(m)
    /\ req' = [req EXCEPT ![r] =
          [pc |-> "patch", hotel |-> rooms[m].hotel_id, room |-> m, number |-> n,
           loaded |-> rooms[m].room_number, overtaken |-> FALSE,
           doomed |-> {}, found |-> {}]]
    /\ UNCHANGED <<hotels, rooms, bookings>>

\* ... the UPDATE sets the number if it differs from the loaded one; of a room that
\* is gone it raises
CommitPatch(r) ==
    /\ req[r].pc = "patch"
    /\ LET m == req[r].room
           n == req[r].number
       IN /\ Stands(m)
          /\ IF n = req[r].loaded
             THEN /\ Reply(r)
                  /\ UNCHANGED rooms
             ELSE /\ rooms' = [rooms EXCEPT ![m] =
                        [hotel_id |-> rooms[m].hotel_id, room_number |-> n,
                         sound |-> FALSE]]
                  /\ ReplyGiven(r, rooms[m].hotel_id, n)
    /\ UNCHANGED <<hotels, bookings>>

\* Mutant: bookings.room_id without a foreign key
DeleteRoomAlone(m) ==
    /\ Stands(m)
    /\ rooms' = [rooms EXCEPT ![m] = Gone]
    /\ UNCHANGED <<hotels, bookings, req>>

\* delete_room: one statement; the database deletes the bookings
DeleteRoom(m) ==
    /\ Stands(m)
    /\ rooms' = [rooms EXCEPT ![m] = Gone]
    /\ bookings' = [b \in Bookings |-> IF b \in BookingsOf(m) THEN Gone ELSE bookings[b]]
    /\ UNCHANGED <<hotels, req>>

-----------------------------------------------------------------------------
\* delete_hotel: load the hotel (404), its rooms, and as the booking of each room
\* one of its rows
BeginDrop(r, h) ==
    /\ req[r].pc = "idle"
    /\ Open(h)
    /\ \E doomed \in SUBSET {b \in Bookings : Booked(b) /\ bookings[b].room_id \in RoomsOf(h)} :
          /\ \A m \in RoomsOf(h) :
                BookingsOf(m) # {} => \E b \in doomed : doomed \cap BookingsOf(m) = {b}
          /\ req' = [req EXCEPT ![r] =
                [pc |-> "look", hotel |-> h, room |-> None, number |-> None,
                 loaded |-> None, overtaken |-> FALSE, doomed |-> doomed, found |-> {}]]
    /\ UNCHANGED <<hotels, rooms, bookings>>

\* Mutant: Hotel.bookings is left to the database (passive_deletes)
LookPassive(r) ==
    /\ req[r].pc = "look"
    /\ LET found == BookingsAt(req[r].hotel)
       IN req' = [req EXCEPT ![r] =
                [pc |-> "drop", hotel |-> req[r].hotel, room |-> None, number |-> None,
                 loaded |-> None, overtaken |-> FALSE, doomed |-> req[r].doomed,
                 found |-> found]]
    /\ UNCHANGED <<hotels, rooms, bookings>>

\* ... the flush loads the bookings of the hotel; one that is not about to be deleted
\* would get hotel_id NULL, which raises
Look(r) ==
    /\ req[r].pc = "look"
    /\ LET found == BookingsAt(req[r].hotel)
       IN /\ found \subseteq req[r].doomed
          /\ req' = [req EXCEPT ![r] =
                [pc |-> "drop", hotel |-> req[r].hotel, room |-> None, number |-> None,
                 loaded |-> None, overtaken |-> FALSE, doomed |-> req[r].doomed,
                 found |-> found]]
    /\ UNCHANGED <<hotels, rooms, bookings>>

\* ... the bookings loaded go by their keys, wherever they are now, then the hotel;
\* the database takes what refers to it by then
CommitDrop(r) ==
    /\ req[r].pc = "drop"
    /\ LET h == req[r].hotel
       IN /\ hotels' = [hotels EXCEPT ![h] = Gone]
          /\ rooms' = [m \in Rooms |-> IF m \in RoomsOf(h) THEN Gone ELSE rooms[m]]
          /\ bookings' = [b \in Bookings |->
                IF \/ b \in req[r].doomed
                   \/ b \in BookingsAt(h)
                   \/ Booked(b) /\ bookings[b].room_id \in RoomsOf(h)
                THEN Gone
                ELSE bookings[b]]
    /\ Reply(r)

\* 403, 404, 409 or 500, and rollback
Fail(r) ==
    /\ req[r].pc # "idle"
    /\ Reply(r)
    /\ UNCHANGED <<hotels, rooms, bookings>>

-----------------------------------------------------------------------------
\* create_booking (see Bookings), for a free stay
Book(b, m, h) ==
    /\ bookings[b] = None
    /\ Stands(m) /\ Open(h)
    /\ bookings' = [bookings EXCEPT ![b] = [room_id |-> m, hotel_id |-> h]]
    /\ UNCHANGED <<hotels, rooms, req>>

\* update_booking moves a booking to another room, of whatever hotel
Move(b, m, h) ==
    /\ Booked(b)
    /\ Stands(m) /\ Open(h)
    /\ bookings' = [bookings EXCEPT ![b] = [room_id |-> m, hotel_id |-> h]]
    /\ UNCHANGED <<hotels, rooms, req>>

Next ==
    \/ \E h \in Hotels, u \in Staff : CreateHotel(h, u)
    \/ \E r \in Requests :
          \/ \E u \in Staff, h \in Hotels, n \in Numbers : BeginAddRoom(r, u, h, n)
          \/ SelectDuplicate(r)
          \/ PreventMultiple(r)
          \/ CommitRoom(r)
          \/ \E m \in Rooms, n \in Numbers : BeginPatch(r, m, n)
          \/ CommitPatch(r)
          \/ \E h \in Hotels : BeginDrop(r, h)
          \/ Look(r)
          \/ CommitDrop(r)
          \/ Fail(r)
    \/ \E m \in Rooms : DeleteRoom(m)
    \/ \E b \in Bookings, m \in Rooms, h \in Hotels : Book(b, m, h) \/ Move(b, m, h)

Spec == Init /\ [][Next]_vars

-----------------------------------------------------------------------------
(***************************************************************************)
(* Properties.                                                             *)
(***************************************************************************)
\* No room outlives its hotel, no booking its room or the hotel it names, through
\* deletions by the ORM and by the database (ON DELETE CASCADE).
RowsHaveParents ==
    /\ \A m \in Rooms : Stands(m) => Open(rooms[m].hotel_id)
    /\ \A b \in Bookings :
          Booked(b) => Stands(bookings[b].room_id) /\ Open(bookings[b].hotel_id)

\* Two rooms of a hotel never share a number ("Duplicate room number disallowed."),
\* unless one got it by a patch, or by a create that another request overtook between
\* the last comparison and the commit.
SoundNumbersDiffer ==
    \A m, k \in Rooms :
       /\ m # k
       /\ Stands(m) /\ Stands(k)
       /\ rooms[m].sound /\ rooms[k].sound
       /\ rooms[m].hotel_id = rooms[k].hotel_id
       => rooms[m].room_number # rooms[k].room_number

\* A booking goes when its room is deleted, or with a hotel whose deletion had loaded
\* it as the one booking of a room or did not find it under the hotel: a second
\* booking on a room keeps the hotel.
SecondBookingKeepsHotel ==
    [][\A b \in Bookings : Booked(b) /\ ~Booked(b)' =>
          \/ \E m \in Rooms, h \in Hotels :
                /\ bookings[b].room_id = m /\ rooms[m].hotel_id = h
                /\ ~Stands(m)' /\ Open(h)'
          \/ \E r \in Requests :
                /\ req[r].pc = "drop"
                /\ b \in req[r].doomed \/ b \notin req[r].found]_vars
=============================================================================
