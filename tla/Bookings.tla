------------------------------- MODULE Bookings -------------------------------
(***************************************************************************)
(* Room bookings: creating, patching and cancelling them, each request     *)
(* interleaved with the others at its database awaits.  The availability   *)
(* check is a select, the write a later commit, and nothing in the         *)
(* database keeps two bookings of a room apart.                            *)
(*                                                                         *)
(* Each request works on its own session's copy of the booking, loaded by  *)
(* require_booking_priviledges.  The commit writes the columns whose value *)
(* differs from that copy, over whatever the row holds by then.            *)
(***************************************************************************)
EXTENDS Naturals

CONSTANTS
    Users,       \* authenticated users, one request in flight each
    Rooms,
    Staff,       \* Staff[r]: manager and receptionist of the hotel of room r
    Dates,       \* instants a booking may start or end at
    Statuses,    \* the BookingStatus values clients use
    Offers,      \* the POST bodies clients send
    Patches,     \* the PATCH bodies clients send
    Ids,         \* primary keys of bookings (bound: rows ever created)
    None         \* an unset field; no row

\* The columns the properties tell apart; guest data and amounts are left out.
Columns == [room_id : Rooms, check_in : Dates, check_out : Dates, status : Statuses]

\* model_dump(exclude_unset=True): None stands for a field that was not sent
Partial == [room_id : Rooms \cup {None}, check_in : Dates \cup {None},
            check_out : Dates \cup {None}, status : Statuses \cup {None}]

Row == [is : Columns, booker : Users,
        sound : BOOLEAN]    \* history: placed by a check that was still true

ASSUME ConstantsAssumption ==
    /\ Dates \subseteq Nat
    /\ Staff \in [Rooms -> SUBSET Users]
    /\ "canceled" \in Statuses
    /\ Offers \subseteq Columns
    /\ Patches \subseteq Partial
    /\ None \notin Rooms /\ None \notin Dates
    /\ None \notin Statuses /\ None \notin Ids /\ None \notin Row

VARIABLES
    bookings,    \* Ids -> row or None; the row's Columns are in the field "is"
    req          \* Users -> the request in flight

vars == <<bookings, req>>

Request == [pc : {"idle", "insert", "check", "write"},
            id : Ids \cup {None},           \* the booking patched or cancelled
            target : Columns \cup {None},   \* the session's copy with the new values
            changes : Partial \cup {None},  \* what the UPDATE will set
            asked : BOOLEAN,                \* history: the client sent a status
            checked : BOOLEAN,              \* history: availability was checked
            raced : BOOLEAN]                \* history: another commit came in between

TypeOK ==
    /\ bookings \in [Ids -> Row \cup {None}]
    /\ req \in [Users -> Request]

Exists(b) == bookings[b] # None

-----------------------------------------------------------------------------
(***************************************************************************)
(* Columns and changes.                                                    *)
(***************************************************************************)
\* Mutant: unset fields are dumped too and overwrite the row with NULL
OrNull(x, y) == x

Or(x, y) == IF x = None THEN y ELSE x

Net(x, y) == IF x = y THEN None ELSE x

Patched(row, p) ==
    [room_id |-> Or(p.room_id, row.room_id), check_in |-> Or(p.check_in, row.check_in),
     check_out |-> Or(p.check_out, row.check_out), status |-> Or(p.status, row.status)]

\* Mutant: every column of the session's copy is written back
AllColumns(p, row) == Patched(row, p)

\* The ORM's net changes: a field set to the value it was loaded with is no change
NetChanges(p, row) ==
    [room_id |-> Net(p.room_id, row.room_id), check_in |-> Net(p.check_in, row.check_in),
     check_out |-> Net(p.check_out, row.check_out), status |-> Net(p.status, row.status)]

OnlyStatus(s) ==
    [room_id |-> None, check_in |-> None, check_out |-> None, status |-> s]

NoChanges == OnlyStatus(None)

Canceled(row) == row.status = "canceled"

\* Mutant: an empty stay passes the date test
OrderedOrEmpty(row) == row.check_in <= row.check_out

\* Not answered 400 "Check-in time must be before check-out time"
Ordered(row) == row.check_in < row.check_out

\* Mutant: only a booking that spans the new check-in counts
ConflictsAtCheckIn(row, other) ==
    /\ other.room_id = row.room_id
    /\ other.check_in <= row.check_in
    /\ other.check_out > row.check_in
    /\ ~Canceled(other)

Conflicts(row, other) ==
    /\ other.room_id = row.room_id
    /\ other.check_in < row.check_out
    /\ other.check_out > row.check_in
    /\ ~Canceled(other)

\* check_room_availability; id is the booking to exclude, or None
Available(row, id) ==
    \A b \in Ids \ {id} : Exists(b) => ~Conflicts(row, bookings[b].is)

-----------------------------------------------------------------------------
Idle == [pc |-> "idle", id |-> None, target |-> None, changes |-> None,
         asked |-> FALSE, checked |-> FALSE, raced |-> FALSE]

Init ==
    /\ bookings = [b \in Ids |-> None]
    /\ req = [u \in Users |-> Idle]

\* History: a commit that leaves room and dates alone and revives no canceled
\* booking cannot make a passed availability check untrue
Harmless(old, new) ==
    /\ old.room_id = new.room_id
    /\ old.check_in = new.check_in
    /\ old.check_out = new.check_out
    /\ Canceled(old) => Canceled(new)

\* The request of u ends; when its commit was not harmless, those in flight raced it
Reply(u, harmless) ==
    req' = [v \in Users |->
              IF v = u THEN Idle
              ELSE IF req[v].pc = "idle" \/ harmless THEN req[v]
              ELSE [req[v] EXCEPT !.raced = TRUE]]

\* create_booking: the dates are ordered (400) and the room is free (409)
BeginCreate(u, row) ==
    /\ req[u].pc = "idle"
    /\ Ordered(row)
    /\ Available(row, None)
    /\ req' = [req EXCEPT ![u] = [Idle EXCEPT !.pc = "insert", !.target = row,
                                              !.checked = TRUE]]
    /\ UNCHANGED bookings

\* ... then add and commit
Insert(u) ==
    /\ req[u].pc = "insert"
    /\ \E b \in Ids :
          /\ ~Exists(b)
          /\ bookings' = [bookings EXCEPT ![b] =
                [is |-> req[u].target, booker |-> u, sound |-> ~req[u].raced]]
    /\ Reply(u, Canceled(req[u].target))

\* require_booking_priviledges: the booker, or the hotel's manager or receptionist
Accepted(b) == {bookings[b].booker} \cup Staff[bookings[b].is.room_id]

\* cancel_booking: 400 when the loaded copy is already canceled
BeginCancel(u, b) ==
    /\ req[u].pc = "idle"
    /\ Exists(b)
    /\ u \in Accepted(b)
    /\ ~Canceled(bookings[b].is)
    /\ req' = [req EXCEPT ![u] = [Idle EXCEPT !.pc = "write", !.id = b,
                                    !.target = [bookings[b].is EXCEPT !.status = "canceled"],
                                    !.changes = OnlyStatus("canceled")]]
    /\ UNCHANGED bookings

\* update_booking: the new dates, merged with the loaded ones, are tested only
\* when the patch has dates (400)
BeginPatch(u, b, p) ==
    /\ req[u].pc = "idle"
    /\ Exists(b)
    /\ u \in Accepted(b)
    /\ LET target == Patched(bookings[b].is, p)
           dated  == p.check_in # None \/ p.check_out # None
       IN /\ dated => Ordered(target)
          /\ req' = [req EXCEPT ![u] =
                [Idle EXCEPT !.pc = IF dated THEN "check" ELSE "write", !.id = b,
                             !.target = target, !.asked = p.status # None,
                             !.changes = NetChanges(p, bookings[b].is)]]
    /\ UNCHANGED bookings

\* ... and the room is free on them (409)
CheckPatch(u) ==
    /\ req[u].pc = "check"
    /\ req' = IF Available(req[u].target, req[u].id)
              THEN [req EXCEPT ![u].pc = "write", ![u].checked = TRUE]
              ELSE [req EXCEPT ![u] = Idle]
    /\ UNCHANGED bookings

\* commit of the UPDATE of a cancel or a patch
Write(u) ==
    /\ req[u].pc = "write"
    /\ LET b        == req[u].id
           new      == Patched(bookings[b].is, req[u].changes)
           harmless == Harmless(bookings[b].is, new)
       IN /\ bookings' = [bookings EXCEPT
                ![b].is = new,
                ![b].sound = IF harmless THEN @ ELSE req[u].checked /\ ~req[u].raced]
          /\ Reply(u, harmless)

Next ==
    \E u \in Users :
       \/ \E row \in Offers : BeginCreate(u, row)
       \/ Insert(u)
       \/ \E b \in Ids : BeginCancel(u, b)
       \/ \E b \in Ids, p \in Patches : BeginPatch(u, b, p)
       \/ CheckPatch(u)
       \/ Write(u)

Spec == Init /\ [][Next]_vars

-----------------------------------------------------------------------------
(***************************************************************************)
(* Properties.                                                             *)
(***************************************************************************)
Nights(row) == {d \in Dates : row.check_in <= d /\ d < row.check_out}

\* Two bookings hold one room for one night
Clash(r1, r2) ==
    /\ r1.room_id = r2.room_id
    /\ ~Canceled(r1)
    /\ ~Canceled(r2)
    /\ Nights(r1) \cap Nights(r2) # {}

\* Two bookings never hold a room for the same night, unless one of them raced
\* another commit between its check and its own, or was moved or revived by a
\* patch that update_booking does not check.
SoundNeverClash ==
    \A b1, b2 \in Ids :
       b1 # b2 /\ Exists(b1) /\ Exists(b2) /\ bookings[b1].sound /\ bookings[b2].sound =>
          ~Clash(bookings[b1].is, bookings[b2].is)

\* A stay ends after it starts, unless two patches that each move one end raced.
SoundStaysOrdered ==
    \A b \in Ids : Exists(b) /\ bookings[b].sound =>
        bookings[b].is.check_in < bookings[b].is.check_out

\* A canceled booking comes back only through a patch that sets its status, not
\* through a patch of other fields that loaded the booking before the cancel.
CancelSticks ==
    [][\A b \in Ids : Exists(b) /\ Canceled(bookings[b].is) /\ ~Canceled(bookings'[b].is) =>
          \E u \in Users : Write(u) /\ req[u].id = b /\ req[u].asked]_vars

\* What a booking holds in the ledger: its stay, unless it is canceled, or its room
\* or dates were never checked or lost a race
StayOf(b) ==
    IF Exists(b) /\ bookings[b].sound /\ ~Canceled(bookings[b].is)
    THEN [room_id |-> bookings[b].is.room_id, check_in |-> bookings[b].is.check_in,
          check_out |-> bookings[b].is.check_out]
    ELSE None

Ledger == INSTANCE RoomLedger WITH ledger <- [b \in Ids |-> StayOf(b)]

\* The select of check_room_availability and the commit it allows count as one step,
\* at the commit, as long as no other commit comes in between: whatever requests
\* interleave, each booking that is not overtaken enters a ledger that has room for
\* it, and keeps its place until it is canceled, moved or overtaken.
KeepsLedger == Ledger!Spec

\* Claim of the comment on Booking.__table_args__: an index for "room uniqueness
\* during date range".  The index is not unique and nothing else excludes a clash.
RoomUniqueness ==
    \A b1, b2 \in Ids : b1 # b2 /\ Exists(b1) /\ Exists(b2) =>
        ~Clash(bookings[b1].is, bookings[b2].is)
=============================================================================
