------------------------------ MODULE HotelsProofs ------------------------------
(***************************************************************************)
(* Proofs about Hotels, for any number of hotels, rooms, bookings, numbers *)
(* and requests.  Numbers differ because a create that has compared its    *)
(* number for the last time finds it free until it is marked as overtaken  *)
(* (Knows); rows keep their parents because every deletion takes all of    *)
(* the children that stand by then.                                        *)
(***************************************************************************)
EXTENDS Hotels, TLAPS

Creating == {"select", "flush", "insert"}

\* What a request in flight knows
Knows(q) ==
    /\ q.pc \in Creating => q.hotel \in Hotels /\ q.number \in Numbers
    /\ q.pc = "insert" /\ ~q.overtaken => NumberFree(q.hotel, q.number)
    /\ q.pc = "patch" => q.room \in Rooms /\ q.number \in Numbers
    /\ q.pc \in {"look", "drop"} => q.hotel \in Hotels
    /\ q.pc = "drop" => q.found \subseteq q.doomed

InFlight == \A r \in Requests : Knows(req[r])

IInv == TypeOK /\ RowsHaveParents /\ SoundNumbersDiffer /\ InFlight

-----------------------------------------------------------------------------
\* An idle request knows nothing.
LEMMA IdleKnows == Idle \in Request /\ Knows(Idle)
  BY DEF Idle, Request, Knows, Creating

\* The invariant holds initially.
LEMMA InitIInv == Init => IInv
<1> SUFFICES ASSUME Init PROVE IInv
  OBVIOUS
<1>1. TypeOK /\ InFlight
  BY IdleKnows DEF Init, TypeOK, InFlight
<1>2. RowsHaveParents /\ SoundNumbersDiffer
  BY DEF Init, RowsHaveParents, SoundNumbersDiffer, Stands, Booked
<1> QED  BY <1>1, <1>2 DEF IInv

\* What the requests know outlasts a step that gives no number away, or marks those
\* that wanted it.
LEMMA RequestsKept ==
    ASSUME req' \in [Requests -> Request],
           \A x \in Requests : \E k \in Request :
              /\ k = req'[x] /\ Knows(k)
              /\ k.pc = "insert" /\ ~k.overtaken /\ NumberFree(k.hotel, k.number) =>
                    NumberFree(k.hotel, k.number)'
    PROVE  InFlight'
<1> SUFFICES ASSUME NEW x \in Requests PROVE Knows(req[x])'
  BY DEF InFlight
<1>1. PICK k \in Request :
         /\ k = req'[x] /\ Knows(k)
         /\ k.pc = "insert" /\ ~k.overtaken /\ NumberFree(k.hotel, k.number) =>
               NumberFree(k.hotel, k.number)'
  OBVIOUS
<1> HIDE DEF NumberFree
<1>2. Knows(k)'
  BY <1>1 DEF Knows
<1> QED  BY <1>1, <1>2 DEF Knows, NumberFree, RoomsOf, Stands

\* One request moves on while rooms only go.
LEMMA OneMoves ==
    ASSUME IInv, NEW r \in Requests, NEW q \in Request, Knows(q),
           req' = [req EXCEPT ![r] = q],
           \A m \in Rooms : rooms'[m] \in {rooms[m], Gone}
    PROVE  InFlight' /\ req' \in [Requests -> Request]
<1>1. req' \in [Requests -> Request]
  BY DEF IInv, TypeOK
<1>2. ASSUME NEW h, NEW n, NumberFree(h, n)
      PROVE  NumberFree(h, n)'
  BY <1>2 DEF NumberFree, RoomsOf, Stands
<1>3. \A x \in Requests : \E k \in Request : k = req'[x] /\ Knows(k)
  BY <1>1 DEF IInv, TypeOK, InFlight
<1> QED  BY <1>1, <1>2, <1>3, RequestsKept

\* A step that commits nothing.
LEMMA QuietStep ==
    ASSUME IInv, NEW r \in Requests, NEW q \in Request, Knows(q),
           req' = [req EXCEPT ![r] = q], UNCHANGED <<hotels, rooms, bookings>>
    PROVE  IInv'
<1>1. InFlight' /\ req' \in [Requests -> Request]
  BY OneMoves
<1>2. TypeOK'
  BY <1>1 DEF IInv, TypeOK
<1>3. RowsHaveParents' /\ SoundNumbersDiffer'
  BY DEF IInv, RowsHaveParents, SoundNumbersDiffer, Stands, Open, Booked
<1> QED  BY <1>1, <1>2, <1>3 DEF IInv

\* A step that answers only.
LEMMA ReplyKeeps ==
    ASSUME IInv, NEW r \in Requests, Reply(r), UNCHANGED <<hotels, rooms, bookings>>
    PROVE  IInv'
  BY IdleKnows, QuietStep DEF Reply

\* A request that asks for a room.
LEMMA BeginAddRoomKeeps ==
    ASSUME IInv, NEW r \in Requests, NEW u \in Staff, NEW h \in Hotels, NEW n \in Numbers,
           BeginAddRoom(r, u, h, n)
    PROVE  IInv'
<1> DEFINE q == [pc |-> "select", hotel |-> h, room |-> None, number |-> n,
                 loaded |-> None, overtaken |-> FALSE, doomed |-> {}, found |-> {}]
<1>1. q \in Request /\ Knows(q)
  BY DEF Request, Knows, Creating
<1> QED  BY <1>1, QuietStep DEF BeginAddRoom

\* The first comparison.
LEMMA SelectDuplicateKeeps ==
    ASSUME IInv, NEW r \in Requests, SelectDuplicate(r)
    PROVE  IInv'
<1> DEFINE q == [pc |-> "flush", hotel |-> req[r].hotel, room |-> req[r].room,
                 number |-> req[r].number, loaded |-> req[r].loaded,
                 overtaken |-> FALSE, doomed |-> req[r].doomed, found |-> req[r].found]
<1>1. req[r] \in Request /\ Knows(req[r])
  BY DEF IInv, TypeOK, InFlight
<1>2. q \in Request
  BY <1>1 DEF Request
<1>3. Knows(q)
  BY <1>1 DEF SelectDuplicate, Knows, Creating
<1>4. req' = [req EXCEPT ![r] = q] /\ UNCHANGED <<hotels, rooms, bookings>>
  BY DEF SelectDuplicate, Goto
<1> HIDE DEF q
<1> QED  BY <1>2, <1>3, <1>4, QuietStep

\* The second comparison finds the number free.
LEMMA PreventMultipleKeeps ==
    ASSUME IInv, NEW r \in Requests, PreventMultiple(r)
    PROVE  IInv'
<1> DEFINE q == [pc |-> "insert", hotel |-> req[r].hotel, room |-> req[r].room,
                 number |-> req[r].number, loaded |-> req[r].loaded,
                 overtaken |-> FALSE, doomed |-> req[r].doomed, found |-> req[r].found]
<1>1. req[r] \in Request /\ Knows(req[r])
  BY DEF IInv, TypeOK, InFlight
<1>2. q \in Request
  BY <1>1 DEF Request
<1>3. Knows(q)
  BY <1>1 DEF PreventMultiple, Knows, Creating
<1>4. req' = [req EXCEPT ![r] = q] /\ UNCHANGED <<hotels, rooms, bookings>>
  BY DEF PreventMultiple, Goto
<1> HIDE DEF q
<1> QED  BY <1>2, <1>3, <1>4, QuietStep

\* A request that patches a room.
LEMMA BeginPatchKeeps ==
    ASSUME IInv, NEW r \in Requests, NEW m \in Rooms, NEW n \in Numbers,
           BeginPatch(r, m, n)
    PROVE  IInv'
<1> DEFINE q == [pc |-> "patch", hotel |-> rooms[m].hotel_id, room |-> m, number |-> n,
                 loaded |-> rooms[m].room_number, overtaken |-> FALSE,
                 doomed |-> {}, found |-> {}]
<1>1. rooms[m] \in Room
  BY DEF BeginPatch, Stands, IInv, TypeOK
<1>2. q \in Request /\ Knows(q)
  BY <1>1 DEF Request, Room, Knows, Creating
<1>3. req' = [req EXCEPT ![r] = q] /\ UNCHANGED <<hotels, rooms, bookings>>
  BY DEF BeginPatch
<1> HIDE DEF q
<1> QED  BY <1>2, <1>3, QuietStep

\* A request that deletes a hotel.
LEMMA BeginDropKeeps ==
    ASSUME IInv, NEW r \in Requests, NEW h \in Hotels, BeginDrop(r, h)
    PROVE  IInv'
<1>1. PICK doomed \in SUBSET Bookings :
         req' = [req EXCEPT ![r] =
                   [pc |-> "look", hotel |-> h, room |-> None, number |-> None,
                    loaded |-> None, overtaken |-> FALSE, doomed |-> doomed,
                    found |-> {}]]
  BY DEF BeginDrop
<1> DEFINE q == [pc |-> "look", hotel |-> h, room |-> None, number |-> None,
                 loaded |-> None, overtaken |-> FALSE, doomed |-> doomed, found |-> {}]
<1>2. q \in Request /\ Knows(q)
  BY DEF Request, Knows, Creating
<1> HIDE DEF q
<1> QED  BY <1>1, <1>2, QuietStep DEF BeginDrop, q

\* It finds nothing but what it deletes anyway.
LEMMA LookKeeps ==
    ASSUME IInv, NEW r \in Requests, Look(r)
    PROVE  IInv'
<1> DEFINE q == [pc |-> "drop", hotel |-> req[r].hotel, room |-> None, number |-> None,
                 loaded |-> None, overtaken |-> FALSE, doomed |-> req[r].doomed,
                 found |-> BookingsAt(req[r].hotel)]
<1>1. req[r] \in Request /\ Knows(req[r])
  BY DEF IInv, TypeOK, InFlight
<1>2. q \in Request
  BY <1>1 DEF Request, BookingsAt
<1>3. Knows(q)
  BY <1>1 DEF Look, Knows, Creating
<1>4. req' = [req EXCEPT ![r] = q] /\ UNCHANGED <<hotels, rooms, bookings>>
  BY DEF Look
<1> HIDE DEF q
<1> QED  BY <1>2, <1>3, <1>4, QuietStep

-----------------------------------------------------------------------------
(***************************************************************************)
(* Steps that commit.                                                      *)
(***************************************************************************)
\* A number is given away: who was about to insert it is marked.
LEMMA GivenKeeps ==
    ASSUME IInv, NEW r \in Requests, NEW h \in Hotels, NEW n \in Numbers,
           NEW m \in Rooms, NEW row \in Room, row.hotel_id = h, row.room_number = n,
           rooms' = [rooms EXCEPT ![m] = row], ReplyGiven(r, h, n)
    PROVE  InFlight' /\ req' \in [Requests -> Request]
<1>1. \A k \in Rooms : rooms'[k] = IF k = m THEN row ELSE rooms[k]
  BY DEF IInv, TypeOK
<1>2. ASSUME NEW g, NEW x, NumberFree(g, x), ~(g = h /\ x = n)
      PROVE  NumberFree(g, x)'
  <2> SUFFICES ASSUME NEW k \in Rooms, Stands(k)', rooms'[k].hotel_id = g
               PROVE  rooms'[k].room_number # x
    BY DEF NumberFree, RoomsOf
  <2>1. CASE k = m
    BY <1>1, <1>2, <2>1
  <2>2. CASE k # m
    BY <1>1, <1>2, <2>2 DEF NumberFree, RoomsOf, Stands
  <2> QED  BY <2>1, <2>2
<1>3. ASSUME NEW x \in Requests
      PROVE  \E k \in Request :
                /\ k = req'[x] /\ Knows(k)
                /\ k.pc = "insert" /\ ~k.overtaken /\ NumberFree(k.hotel, k.number) =>
                      NumberFree(k.hotel, k.number)'
  <2>1. req'[x] = IF x = r THEN Idle ELSE Overtaken(req[x], h, n)
    BY DEF ReplyGiven
  <2>2. CASE x = r
    <3>1. Idle.pc # "insert"
      BY DEF Idle
    <3> QED  BY <2>1, <2>2, <3>1, IdleKnows
  <2>3. CASE x # r
    <3>1. PICK q \in Request : q = req[x] /\ Knows(q)
      BY DEF IInv, TypeOK, InFlight
    <3>2. req'[x] = Overtaken(q, h, n)
      BY <2>1, <2>3, <3>1
    <3>3. CASE q.pc = "insert" /\ q.hotel = h /\ q.number = n
      <4> DEFINE k == [pc |-> q.pc, hotel |-> q.hotel, room |-> q.room,
                       number |-> q.number, loaded |-> q.loaded, overtaken |-> TRUE,
                       doomed |-> q.doomed, found |-> q.found]
      <4>1. k = req'[x]
        BY <3>2, <3>3 DEF Overtaken
      <4>2. k \in Request
        BY <3>1 DEF Request
      <4>3. Knows(k) /\ k.overtaken
        BY <3>1, <3>3 DEF Knows, Creating
      <4> HIDE DEF k
      <4> QED  BY <4>1, <4>2, <4>3
    <3>4. CASE ~(q.pc = "insert" /\ q.hotel = h /\ q.number = n)
      <4>1. q = req'[x]
        BY <3>2, <3>4 DEF Overtaken
      <4> QED  BY <4>1, <3>1, <3>4, <1>2
    <3> QED  BY <3>3, <3>4
  <2> QED  BY <2>2, <2>3
<1>4. req' \in [Requests -> Request]
  <2>1. \A x \in Requests : req'[x] \in Request
    BY <1>3
  <2> QED  BY <2>1 DEF ReplyGiven
<1> QED  BY <1>3, <1>4, RequestsKept

\* Adding a room.
LEMMA CommitRoomKeeps ==
    ASSUME IInv, NEW r \in Requests, CommitRoom(r)
    PROVE  IInv'
<1>1. PICK h \in Hotels, n \in Numbers : h = req[r].hotel /\ n = req[r].number
  BY DEF CommitRoom, IInv, InFlight, Knows, Creating
<1>2. PICK q \in Request : q = req[r] /\ Knows(q)
  BY DEF IInv, TypeOK, InFlight
<1>3. PICK m \in Rooms :
         /\ rooms[m] = None
         /\ rooms' = [rooms EXCEPT ![m] =
               [hotel_id |-> h, room_number |-> n, sound |-> ~q.overtaken]]
  BY <1>1, <1>2 DEF CommitRoom
<1>4. PICK row \in Room :
         row = [hotel_id |-> h, room_number |-> n, sound |-> ~q.overtaken]
  <2>1. [hotel_id |-> h, room_number |-> n, sound |-> ~q.overtaken] \in Room
    BY DEF Room
  <2> QED  BY <2>1
<1>5. \A k \in Rooms : rooms'[k] = IF k = m THEN row ELSE rooms[k]
  BY <1>3, <1>4 DEF IInv, TypeOK
<1>6. /\ Open(h) /\ UNCHANGED <<hotels, bookings>>
      /\ ReplyGiven(r, h, n) /\ q.pc = "insert"
  BY <1>1, <1>2 DEF CommitRoom
<1>7. row.hotel_id = h /\ row.room_number = n /\ (row.sound <=> ~q.overtaken)
  BY <1>4
<1>8. InFlight' /\ req' \in [Requests -> Request]
  BY <1>3, <1>4, <1>6, <1>7, GivenKeeps
<1>9. TypeOK'
  BY <1>3, <1>4, <1>6, <1>8 DEF IInv, TypeOK
<1>10. RowsHaveParents'
  BY <1>3, <1>5, <1>6, <1>7, ConstantsAssumption
  DEF IInv, RowsHaveParents, Stands, Open, Booked
<1>11. SoundNumbersDiffer'
  <2>1. ~q.overtaken => NumberFree(h, n)
    BY <1>1, <1>2, <1>6 DEF Knows
  <2>2. ASSUME NEW k \in Rooms, k # m, row.sound, Stands(k), rooms[k].hotel_id = h
        PROVE  rooms[k].room_number # n
    BY <2>1, <2>2, <1>7 DEF NumberFree, RoomsOf
  <2> QED  BY <2>2, <1>5, <1>7 DEF IInv, SoundNumbersDiffer, Stands
<1> QED  BY <1>8, <1>9, <1>10, <1>11 DEF IInv

\* Patching a room; a number that changes is not sound.
LEMMA CommitPatchKeeps ==
    ASSUME IInv, NEW r \in Requests, CommitPatch(r)
    PROVE  IInv'
<1>1. PICK m \in Rooms, n \in Numbers : m = req[r].room /\ n = req[r].number
  BY DEF CommitPatch, IInv, InFlight, Knows
<1>2. CASE n = req[r].loaded
  BY <1>1, <1>2, ReplyKeeps DEF CommitPatch
<1>3. CASE n # req[r].loaded
  <2>1. PICK h \in Hotels : Stands(m) /\ rooms[m].hotel_id = h
    BY <1>1 DEF CommitPatch, IInv, TypeOK, Stands, Room
  <2>2. PICK row \in Room :
           row = [hotel_id |-> h, room_number |-> n, sound |-> FALSE]
    BY DEF Room
  <2>3. /\ rooms' = [rooms EXCEPT ![m] = row] /\ ReplyGiven(r, h, n)
        /\ UNCHANGED <<hotels, bookings>>
    BY <1>1, <1>3, <2>1, <2>2 DEF CommitPatch
  <2>4. row.hotel_id = h /\ row.room_number = n /\ ~row.sound
    BY <2>2
  <2>5. InFlight' /\ req' \in [Requests -> Request]
    BY <2>3, <2>4, GivenKeeps
  <2>6. \A k \in Rooms : rooms'[k] = IF k = m THEN row ELSE rooms[k]
    BY <2>3 DEF IInv, TypeOK
  <2>7. TypeOK'
    BY <2>3, <2>5 DEF IInv, TypeOK
  <2>8. \A k \in Rooms : Stands(k)' <=> Stands(k)
    BY <2>1, <2>6, ConstantsAssumption DEF Stands
  <2>9. RowsHaveParents'
    BY <2>1, <2>3, <2>4, <2>6, <2>8, ConstantsAssumption
    DEF IInv, TypeOK, Booking, RowsHaveParents, Open, Booked
  <2>10. SoundNumbersDiffer'
    BY <2>4, <2>6, <2>8 DEF IInv, SoundNumbersDiffer
  <2> QED  BY <2>5, <2>7, <2>9, <2>10 DEF IInv
<1> QED  BY <1>2, <1>3

\* Deleting a room.
LEMMA DeleteRoomKeeps ==
    ASSUME IInv, NEW m \in Rooms, DeleteRoom(m)
    PROVE  IInv'
<1>1. /\ \A k \in Rooms : rooms'[k] = IF k = m THEN Gone ELSE rooms[k]
      /\ \A b \in Bookings :
            bookings'[b] = IF b \in BookingsOf(m) THEN Gone ELSE bookings[b]
      /\ UNCHANGED <<hotels, req>>
  BY DEF DeleteRoom, IInv, TypeOK
<1>2. TypeOK'
  BY <1>1 DEF DeleteRoom, IInv, TypeOK
<1>3. InFlight'
  <2>1. ASSUME NEW h, NEW n, NumberFree(h, n)
        PROVE  NumberFree(h, n)'
    BY <1>1, <2>1 DEF NumberFree, RoomsOf, Stands
  <2>2. \A x \in Requests : \E k \in Request : k = req'[x] /\ Knows(k)
    BY <1>1 DEF IInv, TypeOK, InFlight
  <2> QED  BY <1>2, <2>1, <2>2, RequestsKept DEF TypeOK
<1>4. RowsHaveParents'
  BY <1>1 DEF IInv, TypeOK, Booking, RowsHaveParents, Stands, Open, Booked, BookingsOf
<1>5. SoundNumbersDiffer'
  BY <1>1 DEF IInv, SoundNumbersDiffer, Stands
<1> QED  BY <1>2, <1>3, <1>4, <1>5 DEF IInv

\* Deleting a hotel.
LEMMA CommitDropKeeps ==
    ASSUME IInv, NEW r \in Requests, CommitDrop(r)
    PROVE  IInv'
<1>1. PICK h \in Hotels : h = req[r].hotel
  BY DEF CommitDrop, IInv, InFlight, Knows
<1>2. /\ \A g \in Hotels : hotels'[g] = IF g = h THEN Gone ELSE hotels[g]
      /\ \A k \in Rooms : rooms'[k] = IF k \in RoomsOf(h) THEN Gone ELSE rooms[k]
      /\ \A b \in Bookings :
            /\ bookings'[b] \in {bookings[b], Gone}
            /\ b \in BookingsAt(h) => bookings'[b] = Gone
            /\ Booked(b) /\ bookings[b].room_id \in RoomsOf(h) => bookings'[b] = Gone
  BY <1>1 DEF CommitDrop, IInv, TypeOK
<1>3. InFlight' /\ req' \in [Requests -> Request]
  BY <1>2, IdleKnows, OneMoves DEF CommitDrop, Reply
<1>4. TypeOK'
  BY <1>3 DEF CommitDrop, IInv, TypeOK
<1>5. RowsHaveParents'
  <2>1. ASSUME NEW k \in Rooms, Stands(k)'
        PROVE  Open(rooms[k].hotel_id)'
    <3>1. rooms'[k] = rooms[k] /\ Stands(k) /\ k \notin RoomsOf(h)
      BY <1>2, <2>1 DEF Stands
    <3>2. PICK g \in Hotels : g = rooms[k].hotel_id
      BY <3>1 DEF IInv, TypeOK, Stands, Room
    <3>3. Open(g) /\ g # h
      BY <3>1, <3>2 DEF IInv, RowsHaveParents, RoomsOf
    <3>4. Open(g)'
      BY <3>3, <1>2 DEF Open
    <3> QED  BY <3>1, <3>2, <3>4 DEF Open
  <2>2. ASSUME NEW b \in Bookings, Booked(b)'
        PROVE  Stands(bookings[b].room_id)' /\ Open(bookings[b].hotel_id)'
    <3>1. /\ bookings'[b] = bookings[b] /\ Booked(b)
          /\ b \notin BookingsAt(h) /\ bookings[b].room_id \notin RoomsOf(h)
      BY <1>2, <2>2 DEF Booked
    <3>2. PICK k \in Rooms, g \in Hotels :
             k = bookings[b].room_id /\ g = bookings[b].hotel_id
      BY <3>1 DEF IInv, TypeOK, Booked, Booking
    <3>3. Stands(k) /\ Open(g) /\ g # h /\ k \notin RoomsOf(h)
      BY <3>1, <3>2 DEF IInv, RowsHaveParents, BookingsAt
    <3>4. Stands(k)' /\ Open(g)'
      BY <3>3, <1>2 DEF Open, Stands
    <3> QED  BY <3>1, <3>2, <3>4 DEF Open, Stands
  <2> QED  BY <2>1, <2>2 DEF RowsHaveParents
<1>6. SoundNumbersDiffer'
  BY <1>2 DEF IInv, SoundNumbersDiffer, Stands
<1> QED  BY <1>3, <1>4, <1>5, <1>6 DEF IInv

\* A hotel more.
LEMMA CreateHotelKeeps ==
    ASSUME IInv, NEW h \in Hotels, NEW u \in Staff, CreateHotel(h, u)
    PROVE  IInv'
<1>1. PICK row \in Hotel : row = [manager_id |-> u]
  BY DEF Hotel
<1>2. \A g \in Hotels : hotels'[g] = IF g = h THEN row ELSE hotels[g]
  BY <1>1 DEF CreateHotel, IInv, TypeOK
<1>3. TypeOK'
  BY <1>1 DEF CreateHotel, IInv, TypeOK
<1>4. \A g \in Hotels : Open(g) => Open(g)'
  BY <1>2, ConstantsAssumption DEF Open
<1>5. RowsHaveParents'
  <2>1. \A m \in Rooms : Stands(m) => rooms[m].hotel_id \in Hotels
    BY DEF IInv, TypeOK, Stands, Room
  <2>2. \A b \in Bookings : Booked(b) => bookings[b].hotel_id \in Hotels
    BY DEF IInv, TypeOK, Booked, Booking
  <2> QED  BY <2>1, <2>2, <1>2, <1>4, ConstantsAssumption
           DEF CreateHotel, IInv, RowsHaveParents, Stands, Booked, Open
<1>6. SoundNumbersDiffer' /\ InFlight'
  BY DEF CreateHotel, IInv, SoundNumbersDiffer, InFlight, Knows, NumberFree, RoomsOf,
         Stands
<1> QED  BY <1>3, <1>5, <1>6 DEF IInv

\* A booking made or moved.
LEMMA BookingKeeps ==
    ASSUME IInv, NEW b \in Bookings, NEW m \in Rooms, NEW h \in Hotels,
           Stands(m), Open(h),
           bookings' = [bookings EXCEPT ![b] = [room_id |-> m, hotel_id |-> h]],
           UNCHANGED <<hotels, rooms, req>>
    PROVE  IInv'
<1>1. PICK row \in Booking :
         row = [room_id |-> m, hotel_id |-> h] /\ row.room_id = m /\ row.hotel_id = h
  <2>1. [room_id |-> m, hotel_id |-> h] \in Booking
    BY DEF Booking
  <2> QED  BY <2>1
<1>2. \A c \in Bookings : bookings'[c] = IF c = b THEN row ELSE bookings[c]
  BY <1>1 DEF IInv, TypeOK
<1>3. TypeOK'
  BY <1>1 DEF IInv, TypeOK
<1>4. RowsHaveParents'
  BY <1>1, <1>2 DEF IInv, RowsHaveParents, Stands, Open, Booked
<1>5. SoundNumbersDiffer' /\ InFlight'
  BY DEF IInv, SoundNumbersDiffer, InFlight, Knows, NumberFree, RoomsOf, Stands
<1> QED  BY <1>3, <1>4, <1>5 DEF IInv

-----------------------------------------------------------------------------
(***************************************************************************)
(* Theorems.                                                               *)
(***************************************************************************)
\* Every step preserves the invariant.
LEMMA NextIInv == IInv /\ [Next]_vars => IInv'
<1> SUFFICES ASSUME IInv, [Next]_vars PROVE IInv'
  OBVIOUS
<1>1. ASSUME NEW r \in Requests, Fail(r)
      PROVE  IInv'
  BY <1>1, ReplyKeeps DEF Fail
<1>2. ASSUME NEW b \in Bookings, NEW m \in Rooms, NEW h \in Hotels,
             Book(b, m, h) \/ Move(b, m, h)
      PROVE  IInv'
  BY <1>2, BookingKeeps DEF Book, Move
<1>3. CASE UNCHANGED vars
  <2>1. TypeOK'
    BY <1>3 DEF vars, IInv, TypeOK
  <2>2. RowsHaveParents' /\ SoundNumbersDiffer'
    BY <1>3 DEF vars, IInv, RowsHaveParents, SoundNumbersDiffer, Stands, Open, Booked
  <2>3. InFlight'
    BY <1>3 DEF vars, IInv, InFlight, Knows, NumberFree, RoomsOf, Stands
  <2> QED  BY <2>1, <2>2, <2>3 DEF IInv
<1> QED
  BY <1>1, <1>2, <1>3, CreateHotelKeeps, BeginAddRoomKeeps, SelectDuplicateKeeps,
     PreventMultipleKeeps, CommitRoomKeeps, BeginPatchKeeps, CommitPatchKeeps,
     BeginDropKeeps, LookKeeps, CommitDropKeeps, DeleteRoomKeeps DEF Next

\* The invariant of the hotels, their rooms and bookings and the requests in flight.
THEOREM HotelsInvariant == Spec => []IInv
  BY InitIInv, NextIInv, PTL DEF Spec

\* Every variable keeps its type.
THEOREM HotelsTypeCorrect == Spec => []TypeOK
<1>1. IInv => TypeOK
  BY DEF IInv
<1> QED  BY <1>1, HotelsInvariant, PTL

\* No room outlives its hotel, no booking its room or its hotel.
THEOREM RowsKeepParents == Spec => []RowsHaveParents
<1>1. IInv => RowsHaveParents
  BY DEF IInv
<1> QED  BY <1>1, HotelsInvariant, PTL

\* Numbers that were compared and not overtaken differ within a hotel.
THEOREM NumbersStayDifferent == Spec => []SoundNumbersDiffer
<1>1. IInv => SoundNumbersDiffer
  BY DEF IInv
<1> QED  BY <1>1, HotelsInvariant, PTL

\* Bookings go only as SecondBookingKeepsHotel says.
LEMMA BookingGoes ==
    ASSUME IInv, [Next]_vars, NEW b \in Bookings, Booked(b), ~Booked(b)'
    PROVE  \/ \E m \in Rooms, h \in Hotels :
                 /\ bookings[b].room_id = m /\ rooms[m].hotel_id = h
                 /\ ~Stands(m)' /\ Open(h)'
           \/ \E r \in Requests :
                 /\ req[r].pc = "drop"
                 /\ b \in req[r].doomed \/ b \notin req[r].found
<1>0. bookings' # bookings
  BY DEF Booked
<1>1. ASSUME NEW m \in Rooms, DeleteRoom(m)
      PROVE  \E k \in Rooms, h \in Hotels :
                /\ bookings[b].room_id = k /\ rooms[k].hotel_id = h
                /\ ~Stands(k)' /\ Open(h)'
  <2>1. bookings[b].room_id = m /\ ~Stands(m)'
    BY <1>1 DEF DeleteRoom, BookingsOf, Booked, Stands, IInv, TypeOK
  <2>2. PICK h \in Hotels : rooms[m].hotel_id = h /\ Open(h)
    BY <1>1 DEF DeleteRoom, Stands, IInv, TypeOK, Room, RowsHaveParents
  <2>3. Open(h)'
    BY <1>1, <2>2 DEF DeleteRoom, Open
  <2> QED  BY <2>1, <2>2, <2>3
<1>2. ASSUME NEW r \in Requests, CommitDrop(r)
      PROVE  /\ req[r].pc = "drop"
             /\ b \in req[r].doomed \/ b \notin req[r].found
  BY <1>2 DEF CommitDrop, IInv, InFlight, Knows
<1>3. ASSUME NEW c \in Bookings, NEW m \in Rooms, NEW h \in Hotels,
             Book(c, m, h) \/ Move(c, m, h)
      PROVE  FALSE
  <2>1. [room_id |-> m, hotel_id |-> h] \in Booking
    BY DEF Booking
  <2>2. bookings'[b] \in {bookings[b], [room_id |-> m, hotel_id |-> h]}
    BY <1>3 DEF Book, Move, IInv, TypeOK
  <2> QED  BY <2>1, <2>2, ConstantsAssumption DEF Booked
<1>4. ASSUME NEW r \in Requests,
             \/ \E u \in Staff, h \in Hotels, n \in Numbers : BeginAddRoom(r, u, h, n)
             \/ SelectDuplicate(r) \/ PreventMultiple(r) \/ CommitRoom(r)
             \/ \E m \in Rooms, n \in Numbers : BeginPatch(r, m, n)
             \/ CommitPatch(r)
             \/ \E h \in Hotels : BeginDrop(r, h)
             \/ Look(r) \/ Fail(r)
      PROVE  bookings' = bookings
  BY <1>4 DEF BeginAddRoom, SelectDuplicate, PreventMultiple, CommitRoom, BeginPatch,
              CommitPatch, BeginDrop, Look, Fail
<1>5. ASSUME \/ \E h \in Hotels, u \in Staff : CreateHotel(h, u)
             \/ UNCHANGED vars
      PROVE  bookings' = bookings
  BY <1>5 DEF CreateHotel, vars
<1> QED  BY <1>0, <1>1, <1>2, <1>3, <1>4, <1>5 DEF Next

\* A second booking on a room keeps the hotel from being deleted.
THEOREM BookingsKeepHotels == Spec => SecondBookingKeepsHotel
<1> DEFINE Step == \A b \in Bookings : Booked(b) /\ ~Booked(b)' =>
                      \/ \E m \in Rooms, h \in Hotels :
                            /\ bookings[b].room_id = m /\ rooms[m].hotel_id = h
                            /\ ~Stands(m)' /\ Open(h)'
                      \/ \E r \in Requests :
                            /\ req[r].pc = "drop"
                            /\ b \in req[r].doomed \/ b \notin req[r].found
<1>1. IInv /\ [Next]_vars => [Step]_vars
  BY BookingGoes
<1>2. [][Step]_vars <=> SecondBookingKeepsHotel
  BY DEF SecondBookingKeepsHotel
<1> HIDE DEF Step
<1> QED  BY <1>1, <1>2, HotelsInvariant, PTL DEF Spec

-----------------------------------------------------------------------------
(***************************************************************************)
(* Without races.  When no two requests in flight are about one hotel, as  *)
(* they would be if create_room, update_room and delete_hotel took the     *)
(* hotel's row FOR UPDATE, and a patch sets only a number that is free, as *)
(* it would if update_room compared it as create_room does, any two rooms  *)
(* of a hotel have different numbers.                                      *)
(***************************************************************************)
HotelsApart ==
    \A r, s \in Requests :
       r # s /\ req[r].pc # "idle" /\ req[s].pc # "idle" => req[r].hotel # req[s].hotel

PatchesCompared ==
    \A r \in Requests :
       /\ req[r].pc = "patch" /\ Stands(req[r].room)
       /\ req[r].number # req[r].loaded
       => NumberFree(req[r].hotel, req[r].number)

NumbersDiffer ==
    \A m, k \in Rooms :
       /\ m # k
       /\ Stands(m) /\ Stands(k)
       /\ rooms[m].hotel_id = rooms[k].hotel_id
       => rooms[m].room_number # rooms[k].room_number

\* A number that was found free is free, and a room to patch is one of the hotel, or
\* was
Current(q) ==
    /\ q.pc = "insert" => NumberFree(q.hotel, q.number)
    /\ q.pc = "patch" => \/ rooms[q.room] = Gone
                         \/ Stands(q.room) /\ rooms[q.room].hotel_id = q.hotel

Undisturbed == NumbersDiffer /\ \A r \in Requests : Current(req[r])

\* Rooms that go disturb nobody.
LEMMA CurrentWithout ==
    ASSUME IInv, Undisturbed, \A m \in Rooms : rooms'[m] \in {rooms[m], Gone},
           \A x \in Requests : \E k \in Request : k = req'[x] /\ Current(k) /\ Knows(k)
    PROVE  Undisturbed'
<1>1. NumbersDiffer'
  BY DEF Undisturbed, NumbersDiffer, Stands
<1>2. ASSUME NEW x \in Requests PROVE Current(req[x])'
  <2>1. PICK k \in Request : k = req'[x] /\ Current(k) /\ Knows(k)
    OBVIOUS
  <2>2. NumberFree(k.hotel, k.number) => NumberFree(k.hotel, k.number)'
    BY DEF NumberFree, RoomsOf, Stands
  <2>3. k.pc = "patch" => \/ rooms'[k.room] = Gone
                          \/ Stands(k.room)' /\ rooms'[k.room].hotel_id = k.hotel
    BY <2>1 DEF Current, Knows, Stands
  <2>4. Current(k)'
    BY <2>1, <2>2, <2>3 DEF Current
  <2> QED  BY <2>1, <2>4 DEF Current, NumberFree, RoomsOf, Stands
<1> QED  BY <1>1, <1>2 DEF Undisturbed

\* A step that only moves a request on.
LEMMA CurrentQuiet ==
    ASSUME IInv, Undisturbed, NEW r \in Requests, NEW q \in Request, Current(q),
           Knows(q), req' = [req EXCEPT ![r] = q], UNCHANGED rooms
    PROVE  Undisturbed'
<1>1. \A x \in Requests : req'[x] = IF x = r THEN q ELSE req[x]
  BY DEF IInv, TypeOK
<1>2. \A x \in Requests : \E k \in Request : k = req'[x] /\ Current(k) /\ Knows(k)
  BY <1>1 DEF IInv, TypeOK, InFlight, Undisturbed
<1> QED  BY <1>2, CurrentWithout

\* The request r commits the number n, which is free in its hotel h, to the room m.
LEMMA CurrentGiven ==
    ASSUME IInv, Undisturbed, HotelsApart, NEW r \in Requests, req[r].pc # "idle",
           NEW h \in Hotels, NEW n \in Numbers, h = req[r].hotel, NumberFree(h, n),
           NEW m \in Rooms, NEW row \in Room, row.hotel_id = h, row.room_number = n,
           rooms[m] = None \/ (Stands(m) /\ rooms[m].hotel_id = h),
           rooms' = [rooms EXCEPT ![m] = row], ReplyGiven(r, h, n)
    PROVE  Undisturbed'
<1>1. \A k \in Rooms : rooms'[k] = IF k = m THEN row ELSE rooms[k]
  BY DEF IInv, TypeOK
<1>2. NumbersDiffer'
  <2>1. ASSUME NEW k \in Rooms, k # m, Stands(k), rooms[k].hotel_id = h
        PROVE  rooms[k].room_number # n
    BY <2>1 DEF NumberFree, RoomsOf
  <2> QED  BY <1>1, <2>1 DEF Undisturbed, NumbersDiffer, Stands
<1>3. ASSUME NEW x \in Requests PROVE Current(req[x])'
  <2>1. CASE x = r
    <3>1. req'[x] = Idle /\ Idle.pc = "idle"
      BY <2>1 DEF ReplyGiven, Idle
    <3> QED  BY <3>1 DEF Current
  <2>2. CASE x # r
    <3>1. PICK q \in Request : q = req[x] /\ Knows(q) /\ Current(q)
      BY DEF IInv, TypeOK, InFlight, Undisturbed
    <3>2. q.pc # "idle" => q.hotel # h
      BY <2>2, <3>1 DEF HotelsApart
    <3>3. q = req'[x]
      BY <2>2, <3>1, <3>2 DEF ReplyGiven, Overtaken
    <3>4. q.pc = "insert" => NumberFree(q.hotel, q.number)'
      BY <1>1, <3>1, <3>2 DEF Current, NumberFree, RoomsOf, Stands
    <3>5. q.pc = "patch" => \/ rooms'[q.room] = Gone
                            \/ Stands(q.room)' /\ rooms'[q.room].hotel_id = q.hotel
      <4>1. ASSUME q.pc = "patch", q.room = m PROVE FALSE
        BY <3>1, <3>2, <4>1, ConstantsAssumption DEF Current, Stands
      <4>2. q.pc = "patch" => rooms'[q.room] = rooms[q.room]
        BY <1>1, <3>1, <4>1 DEF Knows
      <4> QED  BY <3>1, <4>2 DEF Current, Stands
    <3>6. Current(q)'
      BY <3>4, <3>5 DEF Current
    <3> QED  BY <3>3, <3>6 DEF Current, NumberFree, RoomsOf, Stands
  <2> QED  BY <2>1, <2>2
<1> QED  BY <1>2, <1>3 DEF Undisturbed

\* Steps that only look.
LEMMA CurrentLooks ==
    ASSUME IInv, Undisturbed, NEW r \in Requests
    PROVE  /\ \A u \in Staff, h \in Hotels, n \in Numbers :
                 BeginAddRoom(r, u, h, n) => Undisturbed'
           /\ SelectDuplicate(r) \/ PreventMultiple(r) \/ Look(r) \/ Fail(r) => Undisturbed'
           /\ \A m \in Rooms, n \in Numbers : BeginPatch(r, m, n) => Undisturbed'
           /\ \A h \in Hotels : BeginDrop(r, h) => Undisturbed'
<1>0. ASSUME NEW q, Current(q), req' = [req EXCEPT ![r] = q], IInv', UNCHANGED rooms
      PROVE  Undisturbed'
  <2>1. q = req'[r]
    BY <1>0 DEF IInv, TypeOK
  <2>2. q \in Request /\ Knows(q)'
    BY <1>0, <2>1 DEF IInv, TypeOK, InFlight, Knows, NumberFree, RoomsOf, Stands
  <2>3. Knows(q)
    BY <1>0, <2>2 DEF Knows, NumberFree, RoomsOf, Stands
  <2> QED  BY <1>0, <2>2, <2>3, CurrentQuiet
<1>1. ASSUME NEW u \in Staff, NEW h \in Hotels, NEW n \in Numbers,
             BeginAddRoom(r, u, h, n)
      PROVE  Undisturbed'
  <2> DEFINE q == [pc |-> "select", hotel |-> h, room |-> None, number |-> n,
                   loaded |-> None, overtaken |-> FALSE, doomed |-> {}, found |-> {}]
  <2>1. Current(q)
    BY DEF Current
  <2>2. req' = [req EXCEPT ![r] = q] /\ UNCHANGED rooms
    BY <1>1 DEF BeginAddRoom
  <2>3. IInv'
    BY <1>1, BeginAddRoomKeeps
  <2> HIDE DEF q
  <2> QED  BY <1>0, <2>1, <2>2, <2>3
<1>2. ASSUME NEW pc \in {"flush", "insert"}, Goto(r, pc), IInv', UNCHANGED rooms,
             pc = "insert" => NumberFree(req[r].hotel, req[r].number)
      PROVE  Undisturbed'
  <2> DEFINE q == [pc |-> pc, hotel |-> req[r].hotel, room |-> req[r].room,
                   number |-> req[r].number, loaded |-> req[r].loaded,
                   overtaken |-> FALSE, doomed |-> req[r].doomed, found |-> req[r].found]
  <2>1. Current(q)
    BY <1>2 DEF Current
  <2>2. req' = [req EXCEPT ![r] = q]
    BY <1>2 DEF Goto
  <2> HIDE DEF q
  <2> QED  BY <1>0, <1>2, <2>1, <2>2
<1>3. SelectDuplicate(r) \/ PreventMultiple(r) => Undisturbed'
  BY <1>2, SelectDuplicateKeeps, PreventMultipleKeeps DEF SelectDuplicate, PreventMultiple
<1>4. ASSUME Look(r) PROVE Undisturbed'
  <2> DEFINE q == [pc |-> "drop", hotel |-> req[r].hotel, room |-> None, number |-> None,
                   loaded |-> None, overtaken |-> FALSE, doomed |-> req[r].doomed,
                   found |-> BookingsAt(req[r].hotel)]
  <2>1. Current(q)
    BY DEF Current
  <2>2. req' = [req EXCEPT ![r] = q] /\ UNCHANGED rooms
    BY <1>4 DEF Look
  <2>3. IInv'
    BY <1>4, LookKeeps
  <2> HIDE DEF q
  <2> QED  BY <1>0, <2>1, <2>2, <2>3
<1>5. ASSUME Fail(r) PROVE Undisturbed'
  <2>1. Current(Idle)
    BY DEF Current, Idle
  <2>2. req' = [req EXCEPT ![r] = Idle] /\ UNCHANGED <<hotels, rooms, bookings>>
    BY <1>5 DEF Fail, Reply
  <2>3. IInv'
    BY <1>5, ReplyKeeps DEF Fail
  <2> QED  BY <1>0, <2>1, <2>2, <2>3
<1>6. ASSUME NEW m \in Rooms, NEW n \in Numbers, BeginPatch(r, m, n)
      PROVE  Undisturbed'
  <2> DEFINE q == [pc |-> "patch", hotel |-> rooms[m].hotel_id, room |-> m, number |-> n,
                   loaded |-> rooms[m].room_number, overtaken |-> FALSE,
                   doomed |-> {}, found |-> {}]
  <2>1. Current(q)
    BY <1>6 DEF Current, BeginPatch
  <2>2. req' = [req EXCEPT ![r] = q] /\ UNCHANGED rooms
    BY <1>6 DEF BeginPatch
  <2>3. IInv'
    BY <1>6, BeginPatchKeeps
  <2> HIDE DEF q
  <2> QED  BY <1>0, <2>1, <2>2, <2>3
<1>7. ASSUME NEW h \in Hotels, BeginDrop(r, h) PROVE Undisturbed'
  <2>1. PICK doomed \in SUBSET Bookings :
           req' = [req EXCEPT ![r] =
                     [pc |-> "look", hotel |-> h, room |-> None, number |-> None,
                      loaded |-> None, overtaken |-> FALSE, doomed |-> doomed,
                      found |-> {}]]
    BY <1>7 DEF BeginDrop
  <2> DEFINE q == [pc |-> "look", hotel |-> h, room |-> None, number |-> None,
                   loaded |-> None, overtaken |-> FALSE, doomed |-> doomed,
                   found |-> {}]
  <2>2. Current(q)
    BY DEF Current
  <2>3. req' = [req EXCEPT ![r] = q] /\ UNCHANGED rooms
    BY <1>7, <2>1 DEF BeginDrop
  <2>4. IInv'
    BY <1>7, BeginDropKeeps
  <2> HIDE DEF q
  <2> QED  BY <1>0, <2>2, <2>3, <2>4
<1> QED  BY <1>1, <1>3, <1>4, <1>5, <1>6, <1>7

\* Steps that commit.
LEMMA CurrentCommits ==
    ASSUME IInv, Undisturbed, HotelsApart, PatchesCompared, NEW r \in Requests
    PROVE  /\ CommitRoom(r) => Undisturbed'
           /\ CommitPatch(r) => Undisturbed'
           /\ CommitDrop(r) => Undisturbed'
<1>1. PICK q \in Request : q = req[r] /\ Knows(q) /\ Current(q)
  BY DEF IInv, TypeOK, InFlight, Undisturbed
<1>2. ASSUME CommitRoom(r) PROVE Undisturbed'
  <2>1. /\ q.hotel \in Hotels /\ q.number \in Numbers
        /\ NumberFree(q.hotel, q.number)
    BY <1>1, <1>2 DEF CommitRoom, Knows, Creating, Current
  <2>2. PICK m \in Rooms, row \in Room :
           /\ rooms[m] = None
           /\ row.hotel_id = q.hotel /\ row.room_number = q.number
           /\ rooms' = [rooms EXCEPT ![m] = row]
    <3>1. PICK m \in Rooms :
             /\ rooms[m] = None
             /\ rooms' = [rooms EXCEPT ![m] =
                   [hotel_id |-> q.hotel, room_number |-> q.number,
                    sound |-> ~q.overtaken]]
      BY <1>1, <1>2 DEF CommitRoom
    <3>2. [hotel_id |-> q.hotel, room_number |-> q.number, sound |-> ~q.overtaken] \in Room
      BY <2>1 DEF Room
    <3> QED  BY <3>1, <3>2
  <2>3. q.pc = "insert" /\ ReplyGiven(r, q.hotel, q.number)
    BY <1>1, <1>2 DEF CommitRoom
  <2> QED  BY <1>1, <2>1, <2>2, <2>3, CurrentGiven
<1>3. ASSUME CommitPatch(r) PROVE Undisturbed'
  <2>1. /\ q.pc = "patch" /\ q.room \in Rooms /\ q.number \in Numbers
        /\ Stands(q.room)
    BY <1>1, <1>3 DEF CommitPatch, Knows
  <2>2. q.hotel \in Hotels /\ rooms[q.room].hotel_id = q.hotel
    BY <1>1, <2>1 DEF Current, Stands, IInv, TypeOK, Room
  <2>3. CASE q.number = q.loaded
    <3>1. req' = [req EXCEPT ![r] = Idle] /\ UNCHANGED rooms
      BY <1>1, <1>3, <2>3 DEF CommitPatch, Reply
    <3>2. Current(Idle)
      BY DEF Current, Idle
    <3> QED  BY <3>1, <3>2, IdleKnows, CurrentQuiet
  <2>4. CASE q.number # q.loaded
    <3>1. NumberFree(q.hotel, q.number)
      BY <1>1, <2>1, <2>4 DEF PatchesCompared
    <3>2. PICK row \in Room :
             row = [hotel_id |-> q.hotel, room_number |-> q.number, sound |-> FALSE]
      BY <2>1, <2>2 DEF Room
    <3>3. /\ rooms' = [rooms EXCEPT ![q.room] = row]
          /\ ReplyGiven(r, q.hotel, q.number)
      BY <1>1, <1>3, <2>2, <2>4, <3>2 DEF CommitPatch
    <3>4. row.hotel_id = q.hotel /\ row.room_number = q.number
      BY <3>2
    <3> QED  BY <1>1, <2>1, <2>2, <3>1, <3>3, <3>4, CurrentGiven
  <2> QED  BY <2>3, <2>4
<1>4. ASSUME CommitDrop(r) PROVE Undisturbed'
  <2>1. \A m \in Rooms : rooms'[m] \in {rooms[m], Gone}
    BY <1>4 DEF CommitDrop, IInv, TypeOK
  <2>2. Current(Idle)
    BY DEF Current, Idle
  <2>3. \A x \in Requests : req'[x] = IF x = r THEN Idle ELSE req[x]
    BY <1>4 DEF CommitDrop, Reply, IInv, TypeOK
  <2>4. \A x \in Requests : \E k \in Request : k = req'[x] /\ Current(k) /\ Knows(k)
    BY <2>2, <2>3, IdleKnows DEF IInv, TypeOK, InFlight, Undisturbed
  <2> QED  BY <2>1, <2>4, CurrentWithout
<1> QED  BY <1>2, <1>3, <1>4

\* Every step leaves the requests undisturbed.
LEMMA NextUndisturbed ==
    IInv /\ Undisturbed /\ HotelsApart /\ PatchesCompared /\ [Next]_vars => Undisturbed'
<1> SUFFICES ASSUME IInv, Undisturbed, HotelsApart, PatchesCompared, [Next]_vars
             PROVE  Undisturbed'
  OBVIOUS
<1>1. ASSUME NEW m \in Rooms, DeleteRoom(m) PROVE Undisturbed'
  <2>1. \A k \in Rooms : rooms'[k] \in {rooms[k], Gone}
    BY <1>1 DEF DeleteRoom, IInv, TypeOK
  <2>2. \A x \in Requests : \E k \in Request : k = req'[x] /\ Current(k) /\ Knows(k)
    BY <1>1 DEF DeleteRoom, IInv, TypeOK, InFlight, Undisturbed
  <2> QED  BY <2>1, <2>2, CurrentWithout
<1>2. ASSUME UNCHANGED <<rooms, req>> PROVE Undisturbed'
  BY <1>2 DEF Undisturbed, NumbersDiffer, Current, NumberFree, RoomsOf, Stands
<1>3. ASSUME \/ \E h \in Hotels, u \in Staff : CreateHotel(h, u)
             \/ \E b \in Bookings, m \in Rooms, h \in Hotels : Book(b, m, h) \/ Move(b, m, h)
             \/ UNCHANGED vars
      PROVE  UNCHANGED <<rooms, req>>
  BY <1>3 DEF CreateHotel, Book, Move, vars
<1> QED  BY <1>1, <1>2, <1>3, CurrentLooks, CurrentCommits DEF Next

\* With the requests on a hotel one at a time and patches that compare, two rooms of a
\* hotel never share a number, whoever gave it and when.
THEOREM LockedHotelsNumberOnce ==
    Spec /\ []HotelsApart /\ []PatchesCompared => []NumbersDiffer
<1>1. Init => Undisturbed
  BY DEF Init, Undisturbed, NumbersDiffer, Stands, Current, Idle
<1>2. Undisturbed => NumbersDiffer
  BY DEF Undisturbed
<1> QED  BY <1>1, <1>2, NextUndisturbed, HotelsInvariant, PTL DEF Spec
=============================================================================
