---------------------------- MODULE BookingsProofs ----------------------------
(***************************************************************************)
(* Theorems about Bookings, for any number of users, rooms, bookings and   *)
(* dates.  The invariants of the module are not inductive: a booking is    *)
(* placed two steps after the select that cleared it, so the strengthening *)
(* says what a request in flight still knows when nothing raced it.        *)
(***************************************************************************)
EXTENDS Bookings, TLAPS

SameStay(r1, r2) ==
    /\ r1.room_id = r2.room_id
    /\ r1.check_in = r2.check_in
    /\ r1.check_out = r2.check_out

\* A create between its check and its commit
Inserting(u) ==
    req[u].pc = "insert" =>
        /\ req[u].target \in Columns
        /\ Ordered(req[u].target)
        /\ ~req[u].raced => Available(req[u].target, None)

\* A cancel or a patch: its booking exists, and when nothing raced the request
\* its session copy still tells which stay the commit will leave
Updating(u) ==
    req[u].pc \in {"check", "write"} =>
        /\ req[u].id \in Ids
        /\ Exists(req[u].id)
        /\ req[u].target \in Columns
        /\ req[u].changes \in Partial
        /\ ~req[u].raced =>
              SameStay(Patched(bookings[req[u].id].is, req[u].changes), req[u].target)
        /\ req[u].pc = "check" \/ req[u].checked => Ordered(req[u].target)
        /\ req[u].pc = "write" /\ req[u].checked /\ ~req[u].raced =>
              Available(req[u].target, req[u].id)
        /\ req[u].changes.status \notin {None, "canceled"} => req[u].asked

InFlight == \A u \in Users : Inserting(u) /\ Updating(u)

IInv ==
    /\ TypeOK
    /\ InFlight
    /\ SoundNeverClash
    /\ SoundStaysOrdered

\* Available, of the bookings bs
Free(bs, target, id) ==
    \A d \in Ids \ {id} : bs[d] # None => ~Conflicts(target, bs[d].is)

-----------------------------------------------------------------------------
(***************************************************************************)
(* Lemmas about columns and changes.                                       *)
(***************************************************************************)
\* A stay that meets another at night is one the availability check reports.
LEMMA ClashConflicts ==
    ASSUME NEW r1 \in Columns, NEW r2 \in Columns, Clash(r1, r2)
    PROVE  Conflicts(r1, r2) /\ Conflicts(r2, r1)
<1>1. PICK d \in Dates : /\ r1.check_in <= d /\ d < r1.check_out
                         /\ r2.check_in <= d /\ d < r2.check_out
  BY DEF Clash, Nights
<1>2. /\ d \in Nat
      /\ r1.check_in \in Nat /\ r1.check_out \in Nat
      /\ r2.check_in \in Nat /\ r2.check_out \in Nat
  BY ConstantsAssumption DEF Columns
<1>3. r1.check_in < r2.check_out /\ r2.check_in < r1.check_out
  BY <1>1, <1>2
<1> QED
  BY <1>2, <1>3 DEF Clash, Conflicts

\* The availability check refuses a stay exactly when it shares a night with one
\* that is booked: two comparisons of the ends stand for the common nights.
THEOREM AvailabilityIsExact ==
    ASSUME NEW r1 \in Columns, NEW r2 \in Columns,
           Ordered(r1), Ordered(r2), ~Canceled(r1)
    PROVE  Conflicts(r1, r2) <=> Clash(r1, r2)
<1>1. ASSUME Conflicts(r1, r2) PROVE Clash(r1, r2)
  <2>1. /\ r1.check_in \in Nat /\ r1.check_out \in Nat
        /\ r2.check_in \in Nat /\ r2.check_out \in Nat
        /\ r1.check_in \in Dates /\ r2.check_in \in Dates
    BY ConstantsAssumption DEF Columns
  <2> DEFINE later == IF r1.check_in <= r2.check_in THEN r2.check_in ELSE r1.check_in
  <2>2. later \in Nights(r1) /\ later \in Nights(r2)
    BY <1>1, <2>1 DEF Conflicts, Ordered, Nights
  <2> QED
    BY <1>1, <2>2 DEF Conflicts, Clash
<1> QED
  BY <1>1, ClashConflicts

\* A patch of a row leaves a row.
LEMMA PatchedType ==
    ASSUME NEW row \in Columns, NEW p \in Partial
    PROVE  Patched(row, p) \in Columns
BY DEF Columns, Partial, Patched, Or

\* Net changes are a patch, and leave the same row as the whole patch does.
LEMMA NetChangesSuffice ==
    ASSUME NEW row \in Columns, NEW p \in Partial
    PROVE  /\ NetChanges(p, row) \in Partial
           /\ Patched(row, NetChanges(p, row)) = Patched(row, p)
<1>1. NetChanges(p, row) \in Partial
  BY DEF Partial, NetChanges, Net
<1>2. ASSUME NEW x, NEW y PROVE Or(Net(x, y), y) = Or(x, y)
  BY DEF Or, Net
<1>3. Patched(row, NetChanges(p, row)) = Patched(row, p)
  BY <1>2 DEF Patched, NetChanges
<1> QED
  BY <1>1, <1>3

\* Two copies with the same stay meet the same bookings.
LEMMA ConflictsSameStay ==
    ASSUME NEW r1, NEW r2, NEW other, SameStay(r1, r2)
    PROVE  Conflicts(r1, other) <=> Conflicts(r2, other)
BY DEF SameStay, Conflicts

\* A harmless commit on the other booking makes no new conflict.
LEMMA HarmlessConflicts ==
    ASSUME NEW row, NEW old, NEW new, Harmless(old, new), Conflicts(row, new)
    PROVE  Conflicts(row, old)
BY DEF Harmless, Conflicts

\* A harmless commit on a booking leaves what a patch of it will leave.
LEMMA HarmlessPatched ==
    ASSUME NEW old, NEW new, NEW p, Harmless(old, new)
    PROVE  SameStay(Patched(old, p), Patched(new, p))
BY DEF Harmless, SameStay, Patched

-----------------------------------------------------------------------------
\* No bookings, no requests: everything the invariant says of one holds.
THEOREM InitIInv == Init => IInv
<1> SUFFICES ASSUME Init PROVE IInv
  OBVIOUS
<1>1. \A u \in Users : req[u] = Idle
  BY DEF Init
<1>2. \A b \in Ids : ~Exists(b)
  BY DEF Init, Exists
<1>3. Idle \in Request
  BY DEF Idle, Request
<1>4. TypeOK
  BY <1>3 DEF Init, TypeOK
<1>5. InFlight
  <2>0. Idle.pc = "idle"
    BY DEF Idle
  <2>1. \A u \in Users : req[u].pc = "idle"
    BY <1>1, <2>0
  <2>2. \A u \in Users : Inserting(u)
    BY <2>1 DEF Inserting
  <2>3. \A u \in Users : Updating(u)
    BY <2>1 DEF Updating
  <2> QED
    BY <2>2, <2>3 DEF InFlight
<1>6. SoundNeverClash /\ SoundStaysOrdered
  BY <1>2 DEF SoundNeverClash, SoundStaysOrdered
<1> QED
  BY <1>4, <1>5, <1>6 DEF IInv

-----------------------------------------------------------------------------
(***************************************************************************)
(* Steps that only read bookings: one request changes, on the database as  *)
(* it is.                                                                  *)
(***************************************************************************)
LEMMA ReadStep ==
    ASSUME IInv, NEW u \in Users, NEW r \in Request,
           req' = [req EXCEPT ![u] = r], UNCHANGED bookings,
           Inserting(u)', Updating(u)'
    PROVE  IInv'
<1>1. TypeOK'
  BY DEF IInv, TypeOK
<1>2. InFlight'
  <2>1. SUFFICES ASSUME NEW v \in Users, v # u PROVE Inserting(v)' /\ Updating(v)'
    BY DEF InFlight
  <2>2. req'[v] = req[v]
    BY <2>1 DEF IInv, TypeOK
  <2>3. Inserting(v) /\ Updating(v)
    BY DEF IInv, InFlight
  <2>4. Inserting(v)'
    BY <2>2, <2>3 DEF Inserting, Available, Exists
  <2>5. Updating(v)'
    BY <2>2, <2>3 DEF Updating, Available, Exists
  <2> QED
    BY <2>4, <2>5
<1>3. SoundNeverClash' /\ SoundStaysOrdered'
  BY DEF IInv, SoundNeverClash, SoundStaysOrdered, Exists
<1> QED
  BY <1>1, <1>2, <1>3 DEF IInv

\* create_booking reads and checks; only its own request changes.
LEMMA BeginCreateKeeps ==
    ASSUME IInv, NEW u \in Users, NEW row \in Offers, BeginCreate(u, row)
    PROVE  IInv'
<1> DEFINE r == [Idle EXCEPT !.pc = "insert", !.target = row, !.checked = TRUE]
<1>1. row \in Columns
  BY ConstantsAssumption
<1>2. r \in Request
  BY <1>1 DEF Idle, Request
<1>3. req' = [req EXCEPT ![u] = r] /\ UNCHANGED bookings
  BY DEF BeginCreate
<1>4. req'[u] = r
  BY <1>3 DEF IInv, TypeOK
<1>5. r.pc = "insert" /\ r.target = row
  BY DEF Idle
<1> HIDE DEF r
<1>6. Inserting(u)'
  BY <1>1, <1>3, <1>4, <1>5 DEF BeginCreate, Inserting, Available, Exists
<1>7. Updating(u)'
  BY <1>4, <1>5 DEF Updating
<1> QED
  BY <1>2, <1>3, <1>6, <1>7, ReadStep

\* cancel_booking loads the row it will write.
LEMMA BeginCancelKeeps ==
    ASSUME IInv, NEW u \in Users, NEW b \in Ids, BeginCancel(u, b)
    PROVE  IInv'
<1> DEFINE row == bookings[b].is
<1> DEFINE r == [Idle EXCEPT !.pc = "write", !.id = b,
                             !.target = [row EXCEPT !.status = "canceled"],
                             !.changes = OnlyStatus("canceled")]
<1>1. row \in Columns /\ Exists(b)
  BY DEF BeginCancel, Exists, IInv, TypeOK, Row
<1>2. r.target \in Columns /\ r.changes \in Partial
  BY <1>1, ConstantsAssumption DEF Idle, Columns, Partial, OnlyStatus
<1>3. r \in Request
  BY <1>2 DEF Idle, Request
<1>4. req' = [req EXCEPT ![u] = r] /\ UNCHANGED bookings
  BY DEF BeginCancel
<1>5. req'[u] = r
  BY <1>4 DEF IInv, TypeOK
<1>6. /\ r.pc = "write" /\ r.id = b /\ r.checked = FALSE
      /\ r.changes.status = "canceled"
  BY DEF Idle, OnlyStatus
<1>7. SameStay(Patched(row, r.changes), r.target)
  BY <1>1 DEF SameStay, Patched, Or, OnlyStatus, Idle, Columns
<1> HIDE DEF r
<1>8. Inserting(u)'
  BY <1>5, <1>6 DEF Inserting
<1>9. Updating(u)'
  BY <1>1, <1>2, <1>4, <1>5, <1>6, <1>7 DEF Updating, Exists
<1> QED
  BY <1>3, <1>4, <1>8, <1>9, ReadStep

\* update_booking loads the row it will write.
LEMMA BeginPatchKeeps ==
    ASSUME IInv, NEW u \in Users, NEW b \in Ids, NEW p \in Patches, BeginPatch(u, b, p)
    PROVE  IInv'
<1> DEFINE row   == bookings[b].is
           dated == p.check_in # None \/ p.check_out # None
           r     == [Idle EXCEPT !.pc = IF dated THEN "check" ELSE "write", !.id = b,
                                 !.target = Patched(row, p), !.asked = p.status # None,
                                 !.changes = NetChanges(p, row)]
<1>1. row \in Columns /\ Exists(b) /\ p \in Partial
  BY ConstantsAssumption DEF BeginPatch, Exists, IInv, TypeOK, Row
<1>2. /\ r.pc = (IF dated THEN "check" ELSE "write") /\ r.id = b
      /\ r.target = Patched(row, p) /\ r.changes = NetChanges(p, row)
      /\ r.asked = (p.status # None) /\ r.checked = FALSE
  BY DEF Idle
<1>3. r.target \in Columns
  BY <1>1, <1>2, PatchedType
<1>4. r.changes \in Partial /\ Patched(row, r.changes) = r.target
  BY <1>1, <1>2, NetChangesSuffice
<1>5. r \in Request
  BY <1>3, <1>4 DEF Idle, Request
<1>6. req' = [req EXCEPT ![u] = r] /\ UNCHANGED bookings
  BY DEF BeginPatch
<1>7. req'[u] = r
  BY <1>6 DEF IInv, TypeOK
<1>8. r.pc = "check" => Ordered(r.target)
  <2>1. dated => Ordered(Patched(row, p))
    BY DEF BeginPatch
  <2>2. r.pc = "check" => dated
    BY <1>2
  <2> QED
    BY <1>2, <2>1, <2>2
<1>9. r.changes.status # None => r.asked
  <2>1. p.status = None => r.changes.status = None
    BY <1>2 DEF NetChanges, Net
  <2>2. p.status # None => r.asked
    BY Zenon DEF Idle
  <2> QED
    BY <2>1, <2>2
<1> HIDE DEF r
<1>10. Inserting(u)'
  BY <1>2, <1>7 DEF Inserting
<1>11. Updating(u)'
  <2>1. SameStay(Patched(row, r.changes), r.target)
    BY <1>4 DEF SameStay
  <2> QED
    BY <2>1, <1>1, <1>2, <1>3, <1>4, <1>6, <1>7, <1>8, <1>9 DEF Updating, Exists
<1> QED
  BY <1>5, <1>6, <1>10, <1>11, ReadStep

\* update_booking's check of the dates it was given.
LEMMA CheckPatchKeeps ==
    ASSUME IInv, NEW u \in Users, CheckPatch(u)
    PROVE  IInv'
<1>1. Inserting(u) /\ Updating(u) /\ req[u] \in Request
  BY DEF IInv, InFlight, TypeOK
<1>2. CASE Available(req[u].target, req[u].id)
  <2> DEFINE r == [req[u] EXCEPT !.pc = "write", !.checked = TRUE]
  <2>1. r \in Request
    BY <1>1 DEF Request
  <2>2. req' = [req EXCEPT ![u] = r] /\ UNCHANGED bookings
    BY <1>2 DEF CheckPatch, IInv, TypeOK
  <2>3. req'[u] = r
    BY <2>2 DEF IInv, TypeOK
  <2>4. /\ r.pc = "write" /\ r.checked = TRUE /\ r.id = req[u].id
        /\ r.target = req[u].target /\ r.changes = req[u].changes
        /\ r.asked = req[u].asked /\ r.raced = req[u].raced
    BY <1>1 DEF Request
  <2> HIDE DEF r
  <2>5. Inserting(u)'
    BY <2>3, <2>4 DEF Inserting
  <2>6. Updating(u)'
    BY <1>1, <1>2, <2>2, <2>3, <2>4 DEF Updating, CheckPatch, Available, Exists
  <2> QED
    BY <2>1, <2>2, <2>5, <2>6, ReadStep
<1>3. CASE ~Available(req[u].target, req[u].id)
  <2>1. Idle \in Request /\ Idle.pc = "idle"
    BY DEF Idle, Request
  <2>2. req' = [req EXCEPT ![u] = Idle] /\ UNCHANGED bookings
    BY <1>3 DEF CheckPatch
  <2>3. req'[u] = Idle
    BY <2>2 DEF IInv, TypeOK
  <2>4. Inserting(u)' /\ Updating(u)'
    BY <2>1, <2>3 DEF Inserting, Updating
  <2> QED
    BY <2>1, <2>2, <2>4, ReadStep
<1> QED
  BY <1>2, <1>3

-----------------------------------------------------------------------------
(***************************************************************************)
(* Commits: the bookings change under the requests in flight, and those    *)
(* that a commit may have harmed are marked.                               *)
(***************************************************************************)
\* What a reply leaves of the requests: the sender's is over, the others keep all
\* but the mark.
LEMMA ReplyMarks ==
    ASSUME TypeOK, NEW u \in Users, NEW harmless \in BOOLEAN, Reply(u, harmless)
    PROVE  /\ req' \in [Users -> Request]
           /\ req'[u].pc = "idle"
           /\ \A v \in Users \ {u} :
                 /\ req'[v].pc = req[v].pc
                 /\ req'[v].id = req[v].id
                 /\ req'[v].target = req[v].target
                 /\ req'[v].changes = req[v].changes
                 /\ req'[v].asked = req[v].asked
                 /\ req'[v].checked = req[v].checked
                 /\ req[v].pc # "idle" /\ ~req'[v].raced => harmless /\ ~req[v].raced
<1>1. Idle \in Request /\ Idle.pc = "idle"
  BY DEF Idle, Request
<1>2. req'[u] = Idle
  BY DEF Reply
<1>3. ASSUME NEW v \in Users, v # u
      PROVE  req'[v] = IF req[v].pc = "idle" \/ harmless THEN req[v]
                       ELSE [req[v] EXCEPT !.raced = TRUE]
  BY <1>3 DEF Reply
<1>4. ASSUME NEW v \in Users PROVE req[v] \in Request
  BY DEF TypeOK
<1>5. ASSUME NEW v \in Users PROVE [req[v] EXCEPT !.raced = TRUE] \in Request
  BY <1>4 DEF Request
<1>6. \A v \in Users : req'[v] \in Request
  BY <1>1, <1>2, <1>3, <1>4, <1>5
<1>7. req' \in [Users -> Request]
  BY <1>6 DEF Reply
<1>8. ASSUME NEW v \in Users \ {u}
      PROVE  /\ req'[v].pc = req[v].pc
             /\ req'[v].id = req[v].id
             /\ req'[v].target = req[v].target
             /\ req'[v].changes = req[v].changes
             /\ req'[v].asked = req[v].asked
             /\ req'[v].checked = req[v].checked
             /\ req[v].pc # "idle" /\ ~req'[v].raced => harmless /\ ~req[v].raced
  <2>1. CASE req[v].pc = "idle" \/ harmless
    BY <1>3, <2>1
  <2>2. CASE ~(req[v].pc = "idle" \/ harmless)
    <3>1. req'[v] = [req[v] EXCEPT !.raced = TRUE]
      BY <1>3, <2>2
    <3>2. req'[v].raced
      BY <1>4, <3>1, Zenon DEF Request
    <3>3. /\ req'[v].pc = req[v].pc
          /\ req'[v].id = req[v].id
          /\ req'[v].target = req[v].target
          /\ req'[v].changes = req[v].changes
          /\ req'[v].asked = req[v].asked
          /\ req'[v].checked = req[v].checked
      BY <1>4, <3>1 DEF Request
    <3> QED
      BY <3>2, <3>3
  <2> QED
    BY <2>1, <2>2
<1> QED
  BY <1>1, <1>2, <1>7, <1>8

\* A commit on booking b that replies, creating b or changing its columns, keeps
\* what the other requests know: b is there, and when they are not marked it is
\* no more in the way than it was.
LEMMA CommitSparesOthers ==
    ASSUME IInv, NEW u \in Users, NEW b \in Ids, NEW row \in Row,
           NEW harmless \in BOOLEAN, Reply(u, harmless),
           bookings' = [bookings EXCEPT ![b] = row],
           harmless /\ Exists(b) => Harmless(bookings[b].is, row.is),
           harmless /\ ~Exists(b) => Canceled(row.is)
    PROVE  InFlight'
<1>1. row # None
  BY ConstantsAssumption
<1>2. /\ bookings'[b] = row
      /\ \A d \in Ids \ {b} : bookings'[d] = bookings[d]
  BY DEF IInv, TypeOK
<1>3. /\ Exists(b)'
      /\ \A d \in Ids : Exists(d) => Exists(d)'
      /\ \A d \in Ids \ {b} : Exists(d)' => Exists(d)
  BY <1>1, <1>2 DEF Exists
<1>4. ASSUME harmless, NEW target, NEW id, Free(bookings, target, id)
      PROVE  Free(bookings', target, id)
  <2>1. SUFFICES ASSUME NEW d \in Ids \ {id}, Exists(d)',
                        Conflicts(target, bookings'[d].is)
                 PROVE  FALSE
    BY DEF Free, Exists
  <2>2. CASE d # b
    BY <1>2, <1>3, <1>4, <2>1, <2>2 DEF Free, Exists
  <2>3. CASE d = b /\ Exists(b)
    <3>1. Conflicts(target, bookings[b].is)
      BY <1>2, <1>4, <2>1, <2>3, HarmlessConflicts
    <3> QED
      BY <1>4, <2>1, <2>3, <3>1 DEF Free, Exists
  <2>4. CASE d = b /\ ~Exists(b)
    BY <1>2, <1>4, <2>1, <2>4 DEF Conflicts
  <2> QED
    BY <2>2, <2>3, <2>4
<1>5. ASSUME harmless, NEW d \in Ids, Exists(d), NEW p, NEW target,
             SameStay(Patched(bookings[d].is, p), target)
      PROVE  SameStay(Patched(bookings'[d].is, p), target)
  <2>1. CASE d # b
    BY <1>2, <1>5, <2>1
  <2>2. CASE d = b
    <3>1. SameStay(Patched(bookings[d].is, p), Patched(bookings'[d].is, p))
      BY <1>2, <1>5, <2>2, HarmlessPatched
    <3> QED
      BY <1>5, <3>1 DEF SameStay
  <2> QED
    BY <2>1, <2>2
<1>6. req'[u].pc = "idle"
  BY ReplyMarks DEF IInv
<1>7. Inserting(u)' /\ Updating(u)'
  BY <1>6 DEF Inserting, Updating
<1>8. SUFFICES ASSUME NEW v \in Users \ {u} PROVE Inserting(v)' /\ Updating(v)'
  BY <1>7 DEF InFlight
<1>9. /\ req'[v].pc = req[v].pc
      /\ req'[v].id = req[v].id
      /\ req'[v].target = req[v].target
      /\ req'[v].changes = req[v].changes
      /\ req'[v].asked = req[v].asked
      /\ req'[v].checked = req[v].checked
      /\ req[v].pc # "idle" /\ ~req'[v].raced => harmless /\ ~req[v].raced
  BY ReplyMarks DEF IInv
<1>10. Inserting(v) /\ Updating(v)
  BY DEF IInv, InFlight
<1>11. Inserting(v)'
  <2>1. SUFFICES ASSUME req[v].pc = "insert"
                 PROVE  /\ req[v].target \in Columns
                        /\ Ordered(req[v].target)
                        /\ ~req'[v].raced => Free(bookings', req[v].target, None)
    BY <1>9 DEF Inserting, Ordered, Available, Free, Exists
  <2>2. /\ req[v].target \in Columns
        /\ Ordered(req[v].target)
        /\ ~req[v].raced => Free(bookings, req[v].target, None)
    BY <1>10, <2>1 DEF Inserting, Available, Free, Exists
  <2>3. ~req'[v].raced => Free(bookings', req[v].target, None)
    BY <1>4, <1>9, <2>1, <2>2
  <2> QED
    BY <2>2, <2>3
<1>12. Updating(v)'
  <2> DEFINE q == req[v]
  <2>1. SUFFICES ASSUME q.pc \in {"check", "write"}
                 PROVE  /\ q.id \in Ids
                        /\ Exists(q.id)
                        /\ bookings'[q.id] # None
                        /\ q.target \in Columns
                        /\ q.changes \in Partial
                        /\ ~req'[v].raced =>
                              SameStay(Patched(bookings'[q.id].is, q.changes), q.target)
                        /\ q.pc = "check" \/ q.checked => Ordered(q.target)
                        /\ q.pc = "write" /\ q.checked /\ ~req'[v].raced =>
                              Free(bookings', q.target, q.id)
                        /\ q.changes.status \notin {None, "canceled"} => q.asked
    BY <1>9 DEF Updating, Ordered, Available, Free, Exists, SameStay, Patched
  <2>2. /\ q.id \in Ids
        /\ Exists(q.id)
        /\ q.target \in Columns
        /\ q.changes \in Partial
        /\ ~q.raced => SameStay(Patched(bookings[q.id].is, q.changes), q.target)
        /\ q.pc = "check" \/ q.checked => Ordered(q.target)
        /\ q.pc = "write" /\ q.checked /\ ~q.raced => Free(bookings, q.target, q.id)
        /\ q.changes.status \notin {None, "canceled"} => q.asked
    BY <1>10, <2>1 DEF Updating, Available, Free, Exists
  <2>3. bookings'[q.id] # None
    BY <1>3, <2>2 DEF Exists
  <2>4. ~req'[v].raced => harmless /\ ~q.raced
    BY <1>9, <2>1
  <2>5. ~req'[v].raced => SameStay(Patched(bookings'[q.id].is, q.changes), q.target)
    BY <1>5, <2>2, <2>4
  <2>6. q.pc = "write" /\ q.checked /\ ~req'[v].raced => Free(bookings', q.target, q.id)
    BY <1>4, <2>2, <2>4
  <2> QED
    BY <2>2, <2>3, <2>5, <2>6
<1> QED
  BY <1>11, <1>12

\* A commit on booking b whose row, if sound, clashes with no sound booking, leaves
\* the sound bookings apart.
LEMMA CommitNeverClash ==
    ASSUME IInv, NEW b \in Ids, NEW row \in Row,
           bookings' = [bookings EXCEPT ![b] = row],
           row.sound => \A d \in Ids \ {b} : Exists(d) /\ bookings[d].sound =>
                           ~Clash(row.is, bookings[d].is)
    PROVE  SoundNeverClash'
<1>1. /\ bookings'[b] = row
      /\ \A d \in Ids \ {b} : bookings'[d] = bookings[d]
  BY DEF IInv, TypeOK
<1>2. SUFFICES ASSUME NEW b1 \in Ids, NEW b2 \in Ids, b1 # b2,
                      bookings'[b1] # None, bookings'[b2] # None,
                      bookings'[b1].sound, bookings'[b2].sound,
                      Clash(bookings'[b1].is, bookings'[b2].is)
               PROVE  FALSE
  BY DEF SoundNeverClash, Exists
<1>3. Clash(bookings'[b2].is, bookings'[b1].is)
  BY <1>2 DEF Clash
<1>4. CASE b1 = b
  BY <1>1, <1>2, <1>4 DEF Exists
<1>5. CASE b2 = b
  BY <1>1, <1>2, <1>3, <1>5 DEF Exists
<1>6. CASE b1 # b /\ b2 # b
  BY <1>1, <1>2, <1>6 DEF IInv, SoundNeverClash, Exists
<1> QED
  BY <1>4, <1>5, <1>6

\* A row whose stay is free, but for booking b itself, clashes with no other.
LEMMA FreeNeverClashes ==
    ASSUME IInv, NEW b \in Ids, NEW id \in {None, b}, NEW row \in Columns,
           NEW target \in Columns, SameStay(row, target),
           Free(bookings, target, id),
           NEW d \in Ids \ {b}, Exists(d)
    PROVE  ~Clash(row, bookings[d].is)
<1>1. bookings[d].is \in Columns
  BY DEF Exists, IInv, TypeOK, Row
<1>2. ~Conflicts(target, bookings[d].is)
  BY ConstantsAssumption DEF Free, Exists
<1>3. ~Conflicts(row, bookings[d].is)
  BY <1>2, ConflictsSameStay
<1> QED
  BY <1>1, <1>3, ClashConflicts

\* The INSERT of a booking, the conflicting ones of the room known to its request.
LEMMA InsertKeeps ==
    ASSUME IInv, NEW u \in Users, Insert(u)
    PROVE  IInv'
<1>1. PICK b \in Ids :
         /\ ~Exists(b)
         /\ bookings' = [bookings EXCEPT ![b] =
               [is |-> req[u].target, booker |-> u, sound |-> ~req[u].raced]]
  BY DEF Insert
<1> DEFINE row == [is |-> req[u].target, booker |-> u, sound |-> ~req[u].raced]
<1>2. /\ req[u].pc = "insert"
      /\ Reply(u, Canceled(req[u].target))
  BY DEF Insert
<1>3. /\ req[u].target \in Columns
      /\ Ordered(req[u].target)
      /\ ~req[u].raced => Free(bookings, req[u].target, None)
  BY <1>2 DEF IInv, InFlight, Inserting, Available, Free, Exists
<1>4. row \in Row
  BY <1>3 DEF Row
<1>5. row.is = req[u].target /\ (row.sound => ~req[u].raced)
  OBVIOUS
<1>6. bookings' = [bookings EXCEPT ![b] = row]
  BY <1>1
<1>7. Canceled(req[u].target) \in BOOLEAN
  BY DEF Canceled
<1> HIDE DEF row
<1>8. TypeOK'
  BY <1>2, <1>4, <1>6, <1>7, ReplyMarks DEF IInv, TypeOK
<1>9. InFlight'
  <2> DEFINE harmless == Canceled(req[u].target)
  <2>1. harmless => Canceled(row.is)
    BY <1>5
  <2>2. harmless \in BOOLEAN /\ Reply(u, harmless) /\ ~Exists(b)
    BY <1>1, <1>2, <1>7
  <2> HIDE DEF harmless
  <2> QED
    BY <1>4, <1>6, <2>1, <2>2, CommitSparesOthers
<1>10. SoundNeverClash'
  <2>1. SameStay(row.is, req[u].target)
    BY <1>5 DEF SameStay
  <2>2. row.sound => \A d \in Ids \ {b} : Exists(d) => ~Clash(row.is, bookings[d].is)
    BY <1>3, <1>5, <2>1, FreeNeverClashes
  <2> QED
    BY <1>4, <1>6, <2>2, CommitNeverClash
<1>11. SoundStaysOrdered'
  BY <1>3, <1>5, <1>6 DEF IInv, TypeOK, SoundStaysOrdered, Ordered, Exists
<1> QED
  BY <1>8, <1>9, <1>10, <1>11 DEF IInv

\* The UPDATE of the columns a cancel or a patch changed.
LEMMA WriteKeeps ==
    ASSUME IInv, NEW u \in Users, Write(u)
    PROVE  IInv'
<1> DEFINE b        == req[u].id
           old      == bookings[b].is
           new      == Patched(old, req[u].changes)
           harmless == Harmless(old, new)
           row      == [bookings[b] EXCEPT
                          !.is = new,
                          !.sound = IF harmless THEN @ ELSE req[u].checked /\ ~req[u].raced]
<1>1. /\ req[u].pc = "write"
      /\ Reply(u, harmless)
  BY DEF Write
<1>2. /\ b \in Ids
      /\ Exists(b)
      /\ req[u].target \in Columns
      /\ req[u].changes \in Partial
      /\ ~req[u].raced => SameStay(new, req[u].target)
      /\ req[u].checked => Ordered(req[u].target)
      /\ req[u].checked /\ ~req[u].raced => Free(bookings, req[u].target, b)
  BY <1>1 DEF IInv, InFlight, Updating, Available, Free, Exists
<1>3. bookings[b] \in Row
  BY <1>2 DEF Exists, IInv, TypeOK
<1>4. new \in Columns
  BY <1>2, <1>3, PatchedType DEF Row
<1>5. harmless \in BOOLEAN
  BY DEF Harmless
<1>6. req[u].checked \in BOOLEAN /\ req[u].raced \in BOOLEAN
  BY DEF IInv, TypeOK, Request
<1>7. /\ row \in Row
      /\ row.is = new
      /\ row.sound = IF harmless THEN bookings[b].sound ELSE req[u].checked /\ ~req[u].raced
  BY <1>3, <1>4, <1>5, <1>6 DEF Row
<1>8. bookings' = [bookings EXCEPT ![b] = row]
  BY <1>2 DEF Write, IInv, TypeOK
<1> HIDE DEF row, harmless, new, old, b
<1>9. TypeOK'
  BY <1>1, <1>5, <1>7, <1>8, ReplyMarks DEF IInv, TypeOK
<1>10. harmless => Harmless(bookings[b].is, row.is)
  BY <1>7 DEF harmless, old
<1>11. InFlight'
  BY <1>1, <1>2, <1>5, <1>7, <1>8, <1>10, CommitSparesOthers
<1>12. ~harmless /\ row.sound => req[u].checked /\ ~req[u].raced
  BY <1>5, <1>6, <1>7
<1>13. SoundNeverClash'
  <2>1. ASSUME row.sound, NEW d \in Ids \ {b}, Exists(d), bookings[d].sound
        PROVE  ~Clash(row.is, bookings[d].is)
    <3>1. CASE harmless
      <4>1. bookings[b].sound
        BY <1>7, <2>1, <3>1
      <4>2. ~Clash(bookings[b].is, bookings[d].is)
        BY <1>2, <2>1, <4>1 DEF IInv, SoundNeverClash
      <4> QED
        BY <1>10, <3>1, <4>2 DEF Clash, Harmless, Nights
    <3>2. CASE ~harmless
      BY <1>2, <1>4, <1>7, <1>12, <2>1, <3>2, FreeNeverClashes
    <3> QED
      BY <3>1, <3>2
  <2> QED
    BY <1>2, <1>7, <1>8, <2>1, CommitNeverClash
<1>14. SoundStaysOrdered'
  <2>1. ASSUME row.sound PROVE row.is.check_in < row.is.check_out
    <3>1. CASE harmless
      <4>1. bookings[b].is.check_in < bookings[b].is.check_out
        BY <1>2, <1>7, <2>1, <3>1 DEF IInv, SoundStaysOrdered
      <4> QED
        BY <1>10, <3>1, <4>1 DEF Harmless
    <3>2. CASE ~harmless
      BY <1>2, <1>7, <1>12, <2>1, <3>2 DEF SameStay, Ordered
    <3> QED
      BY <3>1, <3>2
  <2> QED
    BY <1>2, <1>8, <2>1 DEF IInv, TypeOK, SoundStaysOrdered, Exists
<1> QED
  BY <1>9, <1>11, <1>13, <1>14 DEF IInv

-----------------------------------------------------------------------------
(***************************************************************************)
(* Theorems.                                                               *)
(***************************************************************************)
\* Every step of create_booking, update_booking and cancel_booking keeps IInv.
THEOREM StepKeepsIInv == IInv /\ [Next]_vars => IInv'
<1> SUFFICES ASSUME IInv, [Next]_vars PROVE IInv'
  OBVIOUS
<1>1. ASSUME NEW u \in Users, NEW row \in Offers, BeginCreate(u, row) PROVE IInv'
  BY <1>1, BeginCreateKeeps
<1>2. ASSUME NEW u \in Users, Insert(u) PROVE IInv'
  BY <1>2, InsertKeeps
<1>3. ASSUME NEW u \in Users, NEW b \in Ids, BeginCancel(u, b) PROVE IInv'
  BY <1>3, BeginCancelKeeps
<1>4. ASSUME NEW u \in Users, NEW b \in Ids, NEW p \in Patches, BeginPatch(u, b, p)
      PROVE  IInv'
  BY <1>4, BeginPatchKeeps
<1>5. ASSUME NEW u \in Users, CheckPatch(u) PROVE IInv'
  BY <1>5, CheckPatchKeeps
<1>6. ASSUME NEW u \in Users, Write(u) PROVE IInv'
  BY <1>6, WriteKeeps
<1>7. CASE UNCHANGED vars
  <2>1. bookings' = bookings /\ req' = req
    BY <1>7 DEF vars
  <2>2. TypeOK'
    BY <2>1 DEF IInv, TypeOK
  <2>3. InFlight'
    BY <2>1 DEF IInv, InFlight, Inserting, Updating, Available, Exists
  <2>4. SoundNeverClash' /\ SoundStaysOrdered'
    BY <2>1 DEF IInv, SoundNeverClash, SoundStaysOrdered, Exists
  <2> QED
    BY <2>2, <2>3, <2>4 DEF IInv
<1> QED
  BY <1>1, <1>2, <1>3, <1>4, <1>5, <1>6, <1>7 DEF Next

\* The inductive invariant holds in every state of the bookings.
THEOREM IInvAlways == Spec => []IInv
<1>1. Init => IInv
  BY InitIInv
<1>2. IInv /\ [Next]_vars => IInv'
  BY StepKeepsIInv
<1> QED
  BY <1>1, <1>2, PTL DEF Spec

\* Bookings and requests keep their types: no patch leaves a required column unset.
THEOREM BookingsTypeCorrect == Spec => []TypeOK
<1>1. IInv => TypeOK
  BY DEF IInv
<1> QED
  BY <1>1, IInvAlways, PTL

\* No two bookings whose availability check was still true at their commit hold
\* the same room for the same night.
THEOREM NeverClash == Spec => []SoundNeverClash
<1>1. IInv => SoundNeverClash
  BY DEF IInv
<1> QED
  BY <1>1, IInvAlways, PTL

\* A stay that no race touched ends after it starts.
THEOREM StaysOrdered == Spec => []SoundStaysOrdered
<1>1. IInv => SoundStaysOrdered
  BY DEF IInv
<1> QED
  BY <1>1, IInvAlways, PTL

\* Bookings change at the commits of an INSERT and an UPDATE only.
LEMMA OnlyCommits ==
    ASSUME [Next]_vars, bookings' # bookings
    PROVE  \E u \in Users : Insert(u) \/ Write(u)
<1>1. ASSUME NEW u \in Users,
             \/ \E row \in Offers : BeginCreate(u, row)
             \/ \E b \in Ids : BeginCancel(u, b)
             \/ \E b \in Ids, p \in Patches : BeginPatch(u, b, p)
             \/ CheckPatch(u)
      PROVE  UNCHANGED bookings
  BY <1>1 DEF BeginCreate, BeginCancel, BeginPatch, CheckPatch
<1>2. ~UNCHANGED vars
  BY DEF vars
<1> QED
  BY <1>1, <1>2 DEF Next

\* A row that is not canceled after the commit of changes to a canceled one was
\* given another status by them.
LEMMA RevivedByStatus ==
    ASSUME NEW old \in Columns, NEW p \in Partial,
           Canceled(old), ~Canceled(Patched(old, p))
    PROVE  p.status \notin {None, "canceled"}
BY DEF Canceled, Patched, Or

\* Only the commit of a request whose client sent a status revives a canceled
\* booking, whatever the request had loaded before the cancel.
THEOREM CancelStays == Spec => CancelSticks
<1>1. ASSUME IInv, [Next]_vars, NEW b \in Ids, Exists(b), Canceled(bookings[b].is),
             ~Canceled(bookings'[b].is)
      PROVE  \E u \in Users : Write(u) /\ req[u].id = b /\ req[u].asked
  <2>1. bookings[b] \in Row /\ bookings[b].is \in Columns
    BY <1>1 DEF IInv, TypeOK, Exists, Row
  <2>2. bookings' # bookings
    BY <1>1
  <2>3. ASSUME NEW u \in Users, Insert(u) PROVE FALSE
    <3>1. PICK d \in Ids : ~Exists(d) /\ \A c \in Ids \ {d} : bookings'[c] = bookings[c]
      BY <1>1, <2>3 DEF Insert, IInv, TypeOK
    <3> QED
      BY <1>1, <3>1
  <2>4. PICK u \in Users : Write(u)
    BY <1>1, <2>2, <2>3, OnlyCommits
  <2>5. /\ req[u].id \in Ids
        /\ req[u].changes \in Partial
        /\ req[u].changes.status \notin {None, "canceled"} => req[u].asked
    BY <1>1, <2>4 DEF Write, IInv, InFlight, Updating
  <2>6. req[u].id = b
    <3>1. \A c \in Ids \ {req[u].id} : bookings'[c] = bookings[c]
      BY <1>1, <2>4, <2>5 DEF Write, IInv, TypeOK
    <3> QED
      BY <1>1, <3>1
  <2>7. bookings'[b].is = Patched(bookings[b].is, req[u].changes)
    BY <1>1, <2>1, <2>4, <2>6 DEF Write, IInv, TypeOK, Row
  <2>8. req[u].changes.status \notin {None, "canceled"}
    BY <1>1, <2>1, <2>5, <2>7, RevivedByStatus
  <2> QED
    BY <2>4, <2>5, <2>6, <2>8
<1>2. IInv /\ [Next]_vars =>
        [\A b \in Ids : Exists(b) /\ Canceled(bookings[b].is) /\ ~Canceled(bookings'[b].is) =>
            \E u \in Users : Write(u) /\ req[u].id = b /\ req[u].asked]_vars
  BY <1>1
<1> QED
  BY <1>2, IInvAlways, PTL DEF Spec, CancelSticks

-----------------------------------------------------------------------------
(***************************************************************************)
(* The bookings implement a ledger of rooms.                               *)
(***************************************************************************)
ledger == [b \in Ids |-> StayOf(b)]

\* The stays in the ledger last a night or more, and no two share one.
StaysApart ==
    \A b \in Ids : StayOf(b) # None =>
       /\ StayOf(b).check_in < StayOf(b).check_out
       /\ \A d \in Ids \ {b} : StayOf(d) # None => Ledger!Apart(StayOf(b), StayOf(d))

\* What the invariants say of two bookings is what the ledger asks of two stays.
LEMMA HeldApart == IInv => StaysApart
<1> SUFFICES ASSUME IInv, NEW b \in Ids, StayOf(b) # None
             PROVE  /\ StayOf(b).check_in < StayOf(b).check_out
                    /\ \A d \in Ids \ {b} : StayOf(d) # None =>
                          Ledger!Apart(StayOf(b), StayOf(d))
  BY DEF StaysApart
<1>1. ASSUME NEW c \in Ids, StayOf(c) # None
      PROVE  /\ Exists(c) /\ bookings[c].sound /\ ~Canceled(bookings[c].is)
             /\ StayOf(c).room_id = bookings[c].is.room_id
             /\ StayOf(c).check_in = bookings[c].is.check_in
             /\ StayOf(c).check_out = bookings[c].is.check_out
  BY <1>1 DEF StayOf
<1>2. ASSUME NEW d \in Ids \ {b}, StayOf(d) # None
      PROVE  Ledger!Apart(StayOf(b), StayOf(d))
  <2>1. ~Clash(bookings[b].is, bookings[d].is)
    BY <1>1, <1>2 DEF IInv, SoundNeverClash
  <2> QED
    BY <1>1, <1>2, <2>1 DEF Clash, Nights, Ledger!Apart, Ledger!Nights
<1>3. StayOf(b).check_in < StayOf(b).check_out
  BY <1>1 DEF IInv, SoundStaysOrdered
<1> QED
  BY <1>2, <1>3

\* A step that touches one booking only is a step of the ledger, or none.
LEMMA OneBookingInLedger ==
    ASSUME IInv, IInv', NEW b \in Ids, \A d \in Ids \ {b} : bookings'[d] = bookings[d]
    PROVE  Ledger!Next
<1>1. \A d \in Ids \ {b} : StayOf(d)' = StayOf(d)
  BY DEF StayOf, Exists
<1>2. ledger' = [ledger EXCEPT ![b] = StayOf(b)']
  BY <1>1 DEF ledger
<1>3. StaysApart'
  <2>1. IInv' => StaysApart'
    BY HeldApart, PTL
  <2> QED
    BY <2>1
<1>4. CASE StayOf(b)' = None
  <2>1. Ledger!StrikeOut(b)
    BY <1>2, <1>4 DEF Ledger!StrikeOut, ledger
  <2> QED
    BY <2>1 DEF Ledger!Next
<1>5. CASE StayOf(b)' # None
  <2>1. StayOf(b)' \in Ledger!Stay
    <3>1. bookings'[b] \in Row /\ bookings'[b].is \in Columns
      BY <1>5 DEF IInv, TypeOK, StayOf, Exists, Row
    <3> QED
      BY <1>5, <3>1 DEF StayOf, Ledger!Stay, Columns
  <2>2. StayOf(b)'.check_in < StayOf(b)'.check_out
    BY <1>3, <1>5 DEF StaysApart
  <2>3. ASSUME NEW d \in Ids \ {b}, ledger[d] # None
        PROVE  Ledger!Apart(StayOf(b)', ledger[d])
    <3>1. ledger[d] = StayOf(d)'
      BY <1>1 DEF ledger
    <3> QED
      BY <1>3, <1>5, <2>3, <3>1 DEF StaysApart, Ledger!Apart, Ledger!Nights
  <2>4. Ledger!Enter(b, StayOf(b)')
    BY <1>2, <2>2, <2>3 DEF Ledger!Enter, ledger
  <2> QED
    BY <2>1, <2>4 DEF Ledger!Next
<1> QED
  BY <1>4, <1>5

\* The select of check_room_availability and the commit it allows take effect at
\* once, at the commit, whatever other requests do in between: the bookings that
\* are not overtaken are a ledger that enters a stay only where its nights are free.
THEOREM BookingsKeepLedger == Spec => KeepsLedger
<1>1. Init => Ledger!Init
  BY DEF Init, Ledger!Init, StayOf, Exists
<1>2. IInv /\ IInv' /\ [Next]_vars => [Ledger!Next]_ledger
  <2> SUFFICES ASSUME IInv, IInv', [Next]_vars, ledger' # ledger
               PROVE  Ledger!Next
    OBVIOUS
  <2>1. bookings' # bookings
    BY DEF ledger, StayOf, Exists
  <2>2. PICK u \in Users : Insert(u) \/ Write(u)
    BY <2>1, OnlyCommits
  <2>3. CASE Insert(u)
    <3>1. PICK b \in Ids : \A d \in Ids \ {b} : bookings'[d] = bookings[d]
      BY <2>3 DEF Insert, IInv, TypeOK
    <3> QED
      BY <3>1, OneBookingInLedger
  <2>4. CASE Write(u)
    <3>1. req[u].id \in Ids
      BY <2>4 DEF Write, IInv, InFlight, Updating
    <3>2. DOMAIN bookings = Ids
      BY DEF IInv, TypeOK
    <3>3. \A d \in Ids \ {req[u].id} : bookings'[d] = bookings[d]
      BY <2>4, <3>2, Zenon DEF Write
    <3> QED
      BY <3>1, <3>3, OneBookingInLedger
  <2> QED
    BY <2>2, <2>3, <2>4
<1> QED
  BY <1>1, <1>2, IInvAlways, PTL DEF Spec, KeepsLedger, Ledger!Spec, ledger

-----------------------------------------------------------------------------
(***************************************************************************)
(* Without races.  Locking the room to be booked and the booking to be     *)
(* changed, from the first select to the commit, and checking every patch  *)
(* that moves or revives a booking: the theorem below says that this is    *)
(* enough for the claim of Booking.__table_args__, and MCBookings breaks   *)
(* the claim as soon as either is given up.                                *)
(***************************************************************************)
InHand(u) == req[u].pc # "idle"

\* Requests in flight are for different rooms and different bookings
Locked ==
    \A u, v \in Users : u # v /\ InHand(u) /\ InHand(v) =>
        /\ req[u].target.room_id # req[v].target.room_id
        /\ req[u].id # None => req[u].id # req[v].id

\* A commit that the availability check did not precede moves and revives nothing
UncheckedHarmless ==
    \A u \in Users : req[u].pc = "write" /\ ~req[u].checked =>
        Harmless(bookings[req[u].id].is,
                 Patched(bookings[req[u].id].is, req[u].changes))

AllOrdered == \A b \in Ids : Exists(b) => Ordered(bookings[b].is)

\* What a request knew at its select still holds at its commit
Knows(u) ==
    /\ req[u].pc = "insert" => Free(bookings, req[u].target, None)
    /\ req[u].pc \in {"check", "write"} =>
          SameStay(Patched(bookings[req[u].id].is, req[u].changes), req[u].target)
    /\ req[u].pc = "write" /\ req[u].checked =>
          Free(bookings, req[u].target, req[u].id)

Isolated ==
    /\ RoomUniqueness
    /\ AllOrdered
    /\ \A u \in Users : Knows(u)

\* A step that only reads bookings.
LEMMA IsolatedRead ==
    ASSUME IInv, Isolated, NEW u \in Users, NEW r, req' = [req EXCEPT ![u] = r],
           UNCHANGED bookings, Knows(u)'
    PROVE  Isolated'
<1>1. ASSUME NEW v \in Users, v # u PROVE Knows(v)'
  <2>1. req'[v] = req[v]
    BY <1>1 DEF IInv, TypeOK
  <2> QED
    BY <2>1 DEF Isolated, Knows, Free
<1>2. RoomUniqueness' /\ AllOrdered'
  BY DEF Isolated, RoomUniqueness, AllOrdered, Exists
<1> QED
  BY <1>1, <1>2 DEF Isolated

\* A commit on booking b by the request of u: under the locks it is out of the way
\* of what the other requests know.
LEMMA IsolatedCommit ==
    ASSUME IInv, Isolated, Locked, NEW u \in Users, InHand(u), NEW b \in Ids,
           NEW row \in Row, bookings' = [bookings EXCEPT ![b] = row],
           NEW harmless \in BOOLEAN, Reply(u, harmless),
           req[u].id = b \/ ~Exists(b),
           row.is.room_id = req[u].target.room_id,
           Ordered(row.is),
           \A d \in Ids \ {b} : Exists(d) => ~Clash(row.is, bookings[d].is)
    PROVE  Isolated'
<1>1. /\ bookings'[b] = row
      /\ \A d \in Ids \ {b} : bookings'[d] = bookings[d]
  BY DEF IInv, TypeOK
<1>2. RoomUniqueness'
  <2>1. SUFFICES ASSUME NEW b1 \in Ids, NEW b2 \in Ids, b1 # b2,
                        bookings'[b1] # None, bookings'[b2] # None,
                        Clash(bookings'[b1].is, bookings'[b2].is)
                 PROVE  FALSE
    BY DEF RoomUniqueness, Exists
  <2>2. Clash(bookings'[b2].is, bookings'[b1].is)
    BY <2>1 DEF Clash
  <2>3. CASE b1 = b
    BY <1>1, <2>1, <2>3 DEF Exists
  <2>4. CASE b2 = b
    BY <1>1, <2>1, <2>2, <2>4 DEF Exists
  <2>5. CASE b1 # b /\ b2 # b
    BY <1>1, <2>1, <2>5 DEF Isolated, RoomUniqueness, Exists
  <2> QED
    BY <2>3, <2>4, <2>5
<1>3. AllOrdered'
  BY <1>1 DEF Isolated, AllOrdered, Exists, Ordered
<1>4. ASSUME NEW v \in Users PROVE Knows(v)'
  <2>1. req'[u].pc = "idle"
    BY ReplyMarks DEF IInv
  <2>2. CASE v = u
    BY <2>1, <2>2 DEF Knows
  <2>3. CASE v # u /\ ~InHand(v)
    <3>1. req'[v].pc = "idle"
      BY <2>3, ReplyMarks DEF IInv, InHand
    <3> QED
      BY <3>1 DEF Knows
  <2>4. CASE v # u /\ InHand(v)
    <3> DEFINE q == req[v]
    <3>1. /\ req'[v].pc = q.pc /\ req'[v].id = q.id /\ req'[v].target = q.target
          /\ req'[v].changes = q.changes /\ req'[v].checked = q.checked
      BY <2>4, ReplyMarks DEF IInv
    <3>2. row.is.room_id # q.target.room_id
      BY <2>4 DEF Locked
    <3>3. ASSUME NEW id, Free(bookings, q.target, id) PROVE Free(bookings', q.target, id)
      BY <1>1, <3>2, <3>3 DEF Free, Conflicts
    <3>4. ASSUME q.pc \in {"check", "write"} PROVE bookings'[q.id] = bookings[q.id]
      <4>1. q.id \in Ids /\ Exists(q.id)
        BY <3>4 DEF IInv, InFlight, Updating
      <4>2. q.id # b
        BY <2>4, <4>1, ConstantsAssumption DEF Locked
      <4> QED
        BY <1>1, <4>1, <4>2
    <3>5. Knows(v)
      BY DEF Isolated
    <3> QED
      BY <3>1, <3>3, <3>4, <3>5 DEF Knows, SameStay, Patched
  <2> QED
    BY <2>2, <2>3, <2>4
<1> QED
  BY <1>2, <1>3, <1>4 DEF Isolated

\* A handler that loads or checks: what it finds is what it knows.
LEMMA IsolatedBegin ==
    ASSUME IInv, Isolated, NEW u \in Users
    PROVE  /\ \A row \in Offers : BeginCreate(u, row) => Isolated'
           /\ \A b \in Ids : BeginCancel(u, b) => Isolated'
           /\ \A b \in Ids, p \in Patches : BeginPatch(u, b, p) => Isolated'
           /\ CheckPatch(u) => Isolated'
<1>1. ASSUME NEW row \in Offers, BeginCreate(u, row) PROVE Isolated'
  <2> DEFINE r == [Idle EXCEPT !.pc = "insert", !.target = row, !.checked = TRUE]
  <2>1. req' = [req EXCEPT ![u] = r] /\ UNCHANGED bookings /\ req'[u] = r
    BY <1>1 DEF BeginCreate, IInv, TypeOK
  <2>2. r.pc = "insert" /\ r.target = row
    BY DEF Idle
  <2>3. Free(bookings, row, None)
    BY <1>1 DEF BeginCreate, Available, Free, Exists
  <2> HIDE DEF r
  <2>4. Knows(u)'
    BY <2>1, <2>2, <2>3 DEF Knows, Free
  <2> QED
    BY <2>1, <2>4, IsolatedRead
<1>2. ASSUME NEW b \in Ids, BeginCancel(u, b) PROVE Isolated'
  <2> DEFINE row == bookings[b].is
             r   == [Idle EXCEPT !.pc = "write", !.id = b,
                                 !.target = [row EXCEPT !.status = "canceled"],
                                 !.changes = OnlyStatus("canceled")]
  <2>1. req' = [req EXCEPT ![u] = r] /\ UNCHANGED bookings /\ req'[u] = r
    BY <1>2 DEF BeginCancel, IInv, TypeOK
  <2>2. r.pc = "write" /\ r.id = b /\ r.checked = FALSE
    BY DEF Idle
  <2>3. row \in Columns
    BY <1>2 DEF BeginCancel, Exists, IInv, TypeOK, Row
  <2>4. SameStay(Patched(row, r.changes), r.target)
    BY <2>3 DEF SameStay, Patched, Or, OnlyStatus, Idle, Columns
  <2> HIDE DEF r
  <2>5. Knows(u)'
    BY <2>1, <2>2, <2>4 DEF Knows
  <2> QED
    BY <2>1, <2>5, IsolatedRead
<1>3. ASSUME NEW b \in Ids, NEW p \in Patches, BeginPatch(u, b, p) PROVE Isolated'
  <2> DEFINE row   == bookings[b].is
             dated == p.check_in # None \/ p.check_out # None
             r     == [Idle EXCEPT !.pc = IF dated THEN "check" ELSE "write", !.id = b,
                                   !.target = Patched(row, p), !.asked = p.status # None,
                                   !.changes = NetChanges(p, row)]
  <2>1. req' = [req EXCEPT ![u] = r] /\ UNCHANGED bookings /\ req'[u] = r
    BY <1>3 DEF BeginPatch, IInv, TypeOK
  <2>2. /\ r.id = b /\ r.checked = FALSE /\ r.pc # "insert"
        /\ r.target = Patched(row, p) /\ r.changes = NetChanges(p, row)
    BY DEF Idle
  <2>3. row \in Columns /\ p \in Partial
    BY <1>3, ConstantsAssumption DEF BeginPatch, Exists, IInv, TypeOK, Row
  <2>4. Patched(row, r.changes) = r.target
    BY <2>2, <2>3, NetChangesSuffice
  <2> HIDE DEF r
  <2>5. Knows(u)'
    BY <2>1, <2>2, <2>4 DEF Knows, SameStay
  <2> QED
    BY <2>1, <2>5, IsolatedRead
<1>4. ASSUME CheckPatch(u), Available(req[u].target, req[u].id) PROVE Isolated'
  <2> DEFINE r == [req[u] EXCEPT !.pc = "write", !.checked = TRUE]
  <2>1. req' = [req EXCEPT ![u] = r] /\ UNCHANGED bookings /\ req'[u] = r
    BY <1>4 DEF CheckPatch, IInv, TypeOK
  <2>2. req[u] \in Request
    BY DEF IInv, TypeOK
  <2>3. /\ r.pc = "write" /\ r.id = req[u].id /\ r.target = req[u].target
        /\ r.changes = req[u].changes
    BY <2>2 DEF Request
  <2>4. Free(bookings, req[u].target, req[u].id)
    BY <1>4 DEF Available, Free, Exists
  <2>5. req[u].pc = "check" /\ Knows(u)
    BY <1>4 DEF CheckPatch, Isolated
  <2> HIDE DEF r
  <2>6. Knows(u)'
    BY <2>1, <2>3, <2>4, <2>5 DEF Knows, Free
  <2> QED
    BY <2>1, <2>6, IsolatedRead
<1>5. ASSUME CheckPatch(u), ~Available(req[u].target, req[u].id) PROVE Isolated'
  <2>1. req' = [req EXCEPT ![u] = Idle] /\ UNCHANGED bookings /\ req'[u] = Idle
    BY <1>5 DEF CheckPatch, IInv, TypeOK
  <2>2. Idle.pc = "idle"
    BY DEF Idle
  <2>3. Knows(u)'
    BY <2>1, <2>2 DEF Knows
  <2> QED
    BY <2>1, <2>3, IsolatedRead
<1> QED
  BY <1>1, <1>2, <1>3, <1>4, <1>5

\* The INSERT, on a room that only its request has in hand.
LEMMA IsolatedInsert ==
    ASSUME IInv, Isolated, Locked, NEW u \in Users, Insert(u)
    PROVE  Isolated'
<1> DEFINE target == req[u].target
           row    == [is |-> target, booker |-> u, sound |-> ~req[u].raced]
<1>1. PICK b \in Ids : ~Exists(b) /\ bookings' = [bookings EXCEPT ![b] = row]
  BY DEF Insert
<1>2. req[u].pc = "insert" /\ Reply(u, Canceled(target)) /\ InHand(u)
  BY DEF Insert, InHand
<1>3. target \in Columns /\ Ordered(target)
  BY <1>2 DEF IInv, InFlight, Inserting
<1>4. row \in Row /\ row.is = target
  BY <1>3 DEF Row
<1>5. Free(bookings, target, None)
  BY <1>2 DEF Isolated, Knows
<1>6. \A d \in Ids \ {b} : Exists(d) => ~Clash(row.is, bookings[d].is)
  <2>1. SameStay(row.is, target)
    BY <1>4 DEF SameStay
  <2> QED
    BY <1>3, <1>4, <1>5, <2>1, FreeNeverClashes
<1>7. Canceled(target) \in BOOLEAN
  BY DEF Canceled
<1> HIDE DEF row
<1> QED
  BY <1>1, <1>2, <1>3, <1>4, <1>6, <1>7, IsolatedCommit

\* The UPDATE of a cancel or a patch: checked, or harmless.
LEMMA IsolatedWrite ==
    ASSUME IInv, Isolated, Locked, UncheckedHarmless, NEW u \in Users, Write(u)
    PROVE  Isolated'
<1> DEFINE b        == req[u].id
           old      == bookings[b].is
           new      == Patched(old, req[u].changes)
           harmless == Harmless(old, new)
           sound    == IF harmless THEN bookings[b].sound ELSE req[u].checked /\ ~req[u].raced
           row      == [bookings[b] EXCEPT !.is = new, !.sound = sound]
<1>1. req[u].pc = "write" /\ Reply(u, harmless) /\ InHand(u)
  BY DEF Write, InHand
<1>2. /\ b \in Ids /\ Exists(b)
      /\ req[u].target \in Columns /\ req[u].changes \in Partial
      /\ req[u].checked => Ordered(req[u].target)
  BY <1>1 DEF IInv, InFlight, Updating
<1>3. bookings[b] \in Row
  BY <1>2 DEF Exists, IInv, TypeOK
<1>4. new \in Columns
  BY <1>2, <1>3, PatchedType DEF Row
<1>5. harmless \in BOOLEAN
  BY DEF Harmless
<1>6. sound \in BOOLEAN
  BY <1>3, <1>5 DEF IInv, TypeOK, Request, Row
<1>7. row \in Row /\ row.is = new
  BY <1>3, <1>4, <1>6 DEF Row
<1>8. bookings' = [bookings EXCEPT ![b] = row]
  BY <1>2 DEF Write, IInv, TypeOK
<1>9. SameStay(new, req[u].target)
  BY <1>1 DEF Isolated, Knows
<1>10. Ordered(new) /\ \A d \in Ids \ {b} : Exists(d) => ~Clash(new, bookings[d].is)
  <2>1. CASE req[u].checked
    <3>1. Free(bookings, req[u].target, b)
      BY <1>1, <2>1 DEF Isolated, Knows
    <3>2. \A d \in Ids \ {b} : Exists(d) => ~Clash(new, bookings[d].is)
      BY <1>2, <1>4, <1>9, <3>1, FreeNeverClashes
    <3> QED
      BY <1>2, <1>9, <2>1, <3>2 DEF Ordered, SameStay
  <2>2. CASE ~req[u].checked
    <3>1. harmless
      BY <1>1, <2>2 DEF UncheckedHarmless
    <3>2. \A d \in Ids \ {b} : Exists(d) => ~Clash(old, bookings[d].is)
      BY <1>2 DEF Isolated, RoomUniqueness
    <3>3. Ordered(old)
      BY <1>2 DEF Isolated, AllOrdered
    <3> HIDE DEF old, new
    <3> QED
      BY <3>1, <3>2, <3>3 DEF Clash, Harmless, Nights, Ordered
  <2> QED
    BY <2>1, <2>2
<1>11. req[u].id = b /\ new.room_id = req[u].target.room_id
  BY <1>9 DEF SameStay
<1> HIDE DEF row, harmless, new, b
<1> QED
  BY <1>1, <1>2, <1>5, <1>7, <1>8, <1>10, <1>11, IsolatedCommit

\* No room is booked twice for a night and every stay ends after it starts, with no
\* exception for races, when requests lock the room and the booking they are about
\* and no unchecked patch moves or revives one.
THEOREM LockedRoomsAreUnique ==
    Spec /\ []Locked /\ []UncheckedHarmless => [](RoomUniqueness /\ AllOrdered)
<1>1. Init => Isolated
  <2> SUFFICES ASSUME Init PROVE Isolated
    OBVIOUS
  <2>1. \A b \in Ids : ~Exists(b)
    BY DEF Init, Exists
  <2>2. \A u \in Users : req[u].pc = "idle"
    BY DEF Init, Idle
  <2> QED
    BY <2>1, <2>2 DEF Isolated, RoomUniqueness, AllOrdered, Knows
<1>2. IInv /\ Isolated /\ Locked /\ UncheckedHarmless /\ [Next]_vars => Isolated'
  <2> SUFFICES ASSUME IInv, Isolated, Locked, UncheckedHarmless, [Next]_vars
               PROVE  Isolated'
    OBVIOUS
  <2>1. CASE UNCHANGED vars
    BY <2>1 DEF vars, Isolated, RoomUniqueness, AllOrdered, Knows, Free, Exists
  <2>2. CASE Next
    BY <2>2, IsolatedBegin, IsolatedInsert, IsolatedWrite DEF Next
  <2> QED
    BY <2>1, <2>2
<1>3. Isolated => RoomUniqueness /\ AllOrdered
  BY DEF Isolated
<1> QED
  BY <1>1, <1>2, <1>3, IInvAlways, PTL DEF Spec
=============================================================================
