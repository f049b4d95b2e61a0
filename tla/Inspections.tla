------------------------------ MODULE Inspections ------------------------------
(***************************************************************************)
(* Properties and the inspections that users ask for.                      *)
(*                                                                         *)
(* An inspection may be changed, by its requester or by the staff, while   *)
(* it is pending.  The handler looks at the copy it loaded; the UPDATE     *)
(* writes the columns that differ from that copy, wherever the row has got *)
(* to.  So two requests that both found it pending both go through, and    *)
(* only the net changes keep a decision from being taken back.             *)
(*                                                                         *)
(* A property does not take its inspections along: the ORM sets to NULL    *)
(* the property_id of those it finds, the database that of the others.     *)
(***************************************************************************)
EXTENDS Integers, FiniteSets

CONSTANTS
    Users,          \* accounts with the role user
    Staff,          \* accounts with the role staff or admin
    Properties,     \* primary keys of properties (bound: properties ever)
    Inspections,    \* primary keys of inspections (bound: inspections ever)
    Requests,       \* requests in flight at once
    None,           \* NULL; no row yet; a field the client leaves out
    Gone            \* a deleted row: its key does not come back

InspectionStatus == {"pending", "confirmed", "completed", "cancelled"}

Inspection == [requester_id : Users \cup Staff,
               property_id : Properties \cup {None},
               status : InspectionStatus]   \* and a date, which nothing looks at

ASSUME ConstantsAssumption ==
    /\ None \notin Inspection /\ Gone \notin Inspection
    /\ None \notin Users \cup Staff \cup Properties \cup Inspections
    /\ None \notin InspectionStatus
    /\ None # Gone

VARIABLES
    properties,    \* Properties -> "listed", None or Gone
    inspections,   \* Inspections -> Inspection, None or Gone
    req            \* Requests -> the request in flight

vars == <<properties, inspections, req>>

Request == [pc : {"idle", "update", "delete", "look", "drop"},
            user : Users \cup Staff \cup {None},
            inspection : Inspections \cup {None},
            property : Properties \cup {None},
            status : InspectionStatus \cup {None},  \* asked for, unless left out
            loaded : InspectionStatus \cup {None},  \* the status it had
            found : SUBSET Inspections]             \* inspections to set to NULL

TypeOK ==
    /\ properties \in [Properties -> {"listed", None, Gone}]
    /\ inspections \in [Inspections -> Inspection \cup {None, Gone}]
    /\ req \in [Requests -> Request]

-----------------------------------------------------------------------------
Stands(i) == inspections[i] \notin {None, Gone}

\* The backref Property.inspections
InspectionsOf(p) == {i \in Inspections : Stands(i) /\ inspections[i].property_id = p}

\* is_owner or is_admin_or_staff
Allowed(u, i) == u \in Staff \/ inspections[i].requester_id = u

Idle == [pc |-> "idle", user |-> None, inspection |-> None, property |-> None,
         status |-> None, loaded |-> None, found |-> {}]

Reply(r) == req' = [req EXCEPT ![r] = Idle]

\* Mutant: every column set is written
FlushedAll(stored, loaded, set) == IF set = None THEN stored ELSE set

\* Mutant: model_dump() without exclude_unset, what is left out is NULL
FlushedUnset(stored, loaded, set) == set

\* What a flush makes of a column that was loaded and then set: the attribute wins
\* if it was set to something else, the stored value if not
Flushed(stored, loaded, set) == IF set \in {None, loaded} THEN stored ELSE set

\* property_id of the inspections is becomes NULL
Unlinked(is) ==
    [i \in Inspections |->
        IF Stands(i) /\ i \in is
        THEN [requester_id |-> inspections[i].requester_id, property_id |-> None,
              status |-> inspections[i].status]
        ELSE inspections[i]]

Init ==
    /\ properties = [p \in Properties |-> None]
    /\ inspections = [i \in Inspections |-> None]
    /\ req = [r \in Requests |-> Idle]

-----------------------------------------------------------------------------
\* create_property, with images; without other_images it fails on *None
CreateProperty(p) ==
    /\ properties[p] = None
    /\ properties' = [properties EXCEPT ![p] = "listed"]
    /\ UNCHANGED <<inspections, req>>

\* create_inspection, of a property that exists (a foreign key)
CreateInspection(i, u, p) ==
    /\ inspections[i] = None
    /\ properties[p] = "listed"
    /\ inspections' = [inspections EXCEPT ![i] =
          [requester_id |-> u, property_id |-> p, status |-> "pending"]]
    /\ UNCHANGED <<properties, req>>

\* update_inspection: load it (404), its requester or the staff (403), pending (400)
BeginUpdate(r, u, i, status) ==
    /\ req[r].pc = "idle"
    /\ Stands(i) /\ Allowed(u, i)
    /\ inspections[i].status = "pending"
    /\ req' = [req EXCEPT ![r] =
          [pc |-> "update", user |-> u, inspection |-> i, property |-> None,
           status |-> status, loaded |-> inspections[i].status, found |-> {}]]
    /\ UNCHANGED <<properties, inspections>>

\* ... the UPDATE; of a row that is gone it raises
CommitUpdate(r) ==
    /\ req[r].pc = "update"
    /\ LET i == req[r].inspection
       IN /\ Stands(i)
          /\ inspections' = [inspections EXCEPT ![i] =
                [requester_id |-> inspections[i].requester_id,
                 property_id |-> inspections[i].property_id,
                 status |-> Flushed(inspections[i].status, req[r].loaded, req[r].status)]]
    /\ Reply(r)
    /\ UNCHANGED properties

\* delete_inspection: load it (404), its requester or the staff (403), ...
BeginDelete(r, u, i) ==
    /\ req[r].pc = "idle"
    /\ Stands(i) /\ Allowed(u, i)
    /\ req' = [req EXCEPT ![r] =
          [pc |-> "delete", user |-> u, inspection |-> i, property |-> None,
           status |-> None, loaded |-> None, found |-> {}]]
    /\ UNCHANGED <<properties, inspections>>

\* ... whatever its status; of a row that is gone the DELETE only warns
CommitDelete(r) ==
    /\ req[r].pc = "delete"
    /\ inspections' = [inspections EXCEPT ![req[r].inspection] = Gone]
    /\ Reply(r)
    /\ UNCHANGED properties

-----------------------------------------------------------------------------
\* delete_property, by the staff: load the property (404), ...
BeginDrop(r, u, p) ==
    /\ req[r].pc = "idle"
    /\ properties[p] = "listed"
    /\ req' = [req EXCEPT ![r] =
          [pc |-> "look", user |-> u, inspection |-> None, property |-> p,
           status |-> None, loaded |-> None, found |-> {}]]
    /\ UNCHANGED <<properties, inspections>>

\* ... its inspections in the flush, ...
Look(r) ==
    /\ req[r].pc = "look"
    /\ req' = [req EXCEPT ![r] =
          [pc |-> "drop", user |-> req[r].user, inspection |-> None,
           property |-> req[r].property, status |-> None, loaded |-> None,
           found |-> InspectionsOf(req[r].property)]]
    /\ UNCHANGED <<properties, inspections>>

\* Mutant: the deletion cascades to the inspections
CommitDropAll(r) ==
    /\ req[r].pc = "drop"
    /\ LET p == req[r].property
       IN /\ \A i \in req[r].found : Stands(i)
          /\ properties' = [properties EXCEPT ![p] = Gone]
          /\ inspections' = [i \in Inspections |->
                IF i \in InspectionsOf(p) THEN Gone ELSE inspections[i]]
    /\ Reply(r)

\* Mutant: inspections.property_id without a foreign key
CommitDropFound(r) ==
    /\ req[r].pc = "drop"
    /\ LET p == req[r].property
       IN /\ \A i \in req[r].found : Stands(i)
          /\ properties' = [properties EXCEPT ![p] = Gone]
          /\ inspections' = Unlinked(req[r].found)
    /\ Reply(r)

\* ... their UPDATE, which raises when one of them is gone, and the DELETE: the
\* database sets to NULL what was added since
CommitDrop(r) ==
    /\ req[r].pc = "drop"
    /\ LET p == req[r].property
       IN /\ \A i \in req[r].found : Stands(i)
          /\ properties' = [properties EXCEPT ![p] = Gone]
          /\ inspections' = Unlinked(req[r].found \cup InspectionsOf(p))
    /\ Reply(r)

\* 400, 403, 404 or 500, and rollback
Fail(r) ==
    /\ req[r].pc # "idle"
    /\ Reply(r)
    /\ UNCHANGED <<properties, inspections>>

Next ==
    \/ \E p \in Properties : CreateProperty(p)
    \/ \E i \in Inspections, u \in Users \cup Staff, p \in Properties :
          CreateInspection(i, u, p)
    \/ \E r \in Requests :
          \/ \E u \in Users \cup Staff, i \in Inspections,
                s \in InspectionStatus \cup {None} : BeginUpdate(r, u, i, s)
          \/ CommitUpdate(r)
          \/ \E u \in Users \cup Staff, i \in Inspections : BeginDelete(r, u, i)
          \/ CommitDelete(r)
          \/ \E u \in Staff, p \in Properties : BeginDrop(r, u, p)
          \/ Look(r)
          \/ CommitDrop(r)
          \/ Fail(r)

Spec == Init /\ [][Next]_vars

-----------------------------------------------------------------------------
(***************************************************************************)
(* Properties.                                                             *)
(***************************************************************************)
\* An inspection never refers to a property that is gone, whether it was committed
\* before or after the deletion looked for inspections (delete_property; SET NULL).
PropertiesStand ==
    \A i \in Inspections :
       Stands(i) /\ inspections[i].property_id # None =>
          properties[inspections[i].property_id] = "listed"

\* An inspection that was decided (confirmed, completed or cancelled) is never
\* pending again, not by a request that loaded it pending and asked for "pending"
\* either.  ("Only inspections with status 'pending' can be modified" is not true of two
\* requests that both found it pending: the later decides it anew.)
DecidedStaysDecided ==
    [][\A i \in Inspections :
          /\ Stands(i) /\ Stands(i)'
          /\ inspections[i].status # "pending"
          => inspections'[i].status # "pending"]_vars

\* An inspection goes only when its requester or a member of the staff deletes it,
\* never with its property.
InspectionsGoByHand ==
    [][\A i \in Inspections :
          Stands(i) /\ ~Stands(i)' =>
             \E r \in Requests :
                /\ req[r].pc = "delete" /\ req[r].inspection = i
                /\ Allowed(req[r].user, i)]_vars
=============================================================================
