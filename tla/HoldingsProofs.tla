----------------------------- MODULE HoldingsProofs -----------------------------
(***************************************************************************)
(* Proofs about Holdings: about Inspections and about Investments, for any *)
(* number of accounts, properties, inspections, references, durations and  *)
(* requests.  A request that changes an inspection still says what it      *)
(* loaded and for whom (Knows); a transaction that is paid with is the one *)
(* appended in the same commit, and nothing shortens the ledger.           *)
(***************************************************************************)
EXTENDS Holdings, SequenceTheorems, TLAPS

\* What a request in flight knows of its inspection or its property
Knows(q) ==
    /\ q.pc = "update" =>
          /\ q.inspection \in Inspections /\ inspections[q.inspection] # None
          /\ q.loaded = "pending"
    /\ q.pc = "delete" =>
          /\ q.inspection \in Inspections /\ inspections[q.inspection] # None
          /\ Stands(q.inspection) => Allowed(q.user, q.inspection)
    /\ q.pc \in {"look", "drop"} => q.property \in Properties

InFlight == \A r \in Requests : Knows(req[r])

IInv == TypeOK /\ PropertiesStand /\ InFlight

\* A step that changes the requester of no inspection and lets none return
Persist ==
    \A i \in Inspections :
       /\ inspections[i] # None => inspections'[i] # None
       /\ inspections[i] # None /\ inspections'[i] \notin {None, Gone} =>
             /\ Stands(i)
             /\ inspections'[i].requester_id = inspections[i].requester_id

\* A step that unlinks the inspections is from their properties and does no more
Unlinks(is) ==
    \A i \in Inspections :
       /\ Stands(i)' <=> Stands(i)
       /\ inspections[i] # None <=> inspections'[i] # None
       /\ Stands(i) =>
             /\ inspections'[i].requester_id = inspections[i].requester_id
             /\ inspections'[i].status = inspections[i].status
             /\ inspections'[i].property_id =
                   IF i \in is THEN None ELSE inspections[i].property_id

-----------------------------------------------------------------------------
(***************************************************************************)
(* Inspections.                                                            *)
(***************************************************************************)
\* An idle request knows nothing.
LEMMA IdleKnows == Idle \in Request /\ Knows(Idle)
  BY DEF Idle, Request, Knows

\* The invariant holds initially.
LEMMA InitIInv == Init => IInv
  BY IdleKnows DEF Init, IInv, TypeOK, PropertiesStand, InFlight, Stands

\* What a request knows outlasts a step that persists.
LEMMA KnowsPersists ==
    ASSUME TypeOK, Persist, NEW q \in Request, Knows(q)
    PROVE  Knows(q)'
<1>1. ASSUME NEW i \in Inspections, i = q.inspection, inspections[i] # None
      PROVE  /\ inspections'[i] # None
             /\ (Stands(i) => Allowed(q.user, i)) =>
                    (Stands(i)' => Allowed(q.user, i)')
  BY <1>1 DEF Persist, Stands, Allowed
<1>2. q.pc = "update" =>
         /\ q.inspection \in Inspections /\ inspections'[q.inspection] # None
         /\ q.loaded = "pending"
  BY <1>1 DEF Knows
<1>3. ASSUME q.pc = "delete"
      PROVE  /\ q.inspection \in Inspections /\ inspections'[q.inspection] # None
             /\ Stands(q.inspection)' => Allowed(q.user, q.inspection)'
  <2>1. PICK i \in Inspections : i = q.inspection /\ inspections[i] # None
    BY <1>3 DEF Knows
  <2>2. Stands(i) => Allowed(q.user, i)
    BY <1>3, <2>1 DEF Knows
  <2>3. Stands(i)' => Allowed(q.user, i)'
    BY <2>1, <2>2, <1>1
  <2> QED  BY <2>1, <2>3, <1>1
<1> QED  BY <1>2, <1>3 DEF Knows

\* One request moves on, to what it knows already; the others stay.
LEMMA RequestsKept ==
    ASSUME TypeOK, InFlight, Persist, NEW r \in Requests, NEW q \in Request, Knows(q),
           req' = [req EXCEPT ![r] = q]
    PROVE  InFlight' /\ req' \in [Requests -> Request]
<1>1. req' \in [Requests -> Request]
  BY DEF TypeOK
<1>2. ASSUME NEW x \in Requests
      PROVE  Knows(req[x])'
  <2>1. PICK k \in Request : k = req'[x] /\ Knows(k)
    BY <1>1 DEF TypeOK, InFlight
  <2>2. Knows(k)'
    BY <2>1, KnowsPersists
  <2> QED  BY <2>1, <2>2 DEF Knows, Stands, Allowed
<1> QED  BY <1>1, <1>2 DEF InFlight

\* A step without a request keeps what they know.
LEMMA RequestsStay ==
    ASSUME TypeOK, InFlight, Persist, UNCHANGED req
    PROVE  InFlight'
<1> SUFFICES ASSUME NEW x \in Requests PROVE Knows(req[x])'
  BY DEF InFlight
<1>1. PICK k \in Request : k = req[x] /\ Knows(k)
  BY DEF TypeOK, InFlight
<1>2. Knows(k)'
  BY <1>1, KnowsPersists
<1> QED  BY <1>1, <1>2 DEF Knows, Stands, Allowed

\* A step that commits nothing.
LEMMA QuietStep ==
    ASSUME IInv, NEW r \in Requests, NEW q \in Request, Knows(q),
           req' = [req EXCEPT ![r] = q], UNCHANGED <<properties, inspections>>
    PROVE  IInv'
<1>1. Persist
  BY DEF Persist, Stands
<1>2. InFlight' /\ req' \in [Requests -> Request]
  BY <1>1, RequestsKept DEF IInv
<1>3. TypeOK' /\ PropertiesStand'
  BY <1>2 DEF IInv, TypeOK, PropertiesStand, Stands
<1> QED  BY <1>2, <1>3 DEF IInv

\* A property more.
LEMMA CreatePropertyKeeps ==
    ASSUME IInv, NEW p \in Properties, CreateProperty(p)
    PROVE  IInv'
<1>1. TypeOK'
  BY DEF CreateProperty, IInv, TypeOK
<1>2. \A x \in Properties : properties[x] = "listed" => properties'[x] = "listed"
  BY DEF CreateProperty, IInv, TypeOK
<1>3. \A i \in Inspections :
         Stands(i) => inspections[i].property_id \in Properties \cup {None}
  BY DEF IInv, TypeOK, Stands, Inspection
<1>4. PropertiesStand'
  BY <1>2, <1>3 DEF CreateProperty, IInv, PropertiesStand, Stands
<1>5. InFlight'
  BY DEF CreateProperty, IInv, InFlight, Knows, Stands, Allowed
<1> QED  BY <1>1, <1>4, <1>5 DEF IInv

\* An inspection more, of a property that is listed.
LEMMA CreateInspectionKeeps ==
    ASSUME IInv, NEW i \in Inspections, NEW u \in Users \cup Staff,
           NEW p \in Properties, CreateInspection(i, u, p)
    PROVE  IInv'
<1> DEFINE row == [requester_id |-> u, property_id |-> p, status |-> "pending"]
<1>1. row \in Inspection /\ row.property_id = p
  BY DEF Inspection, InspectionStatus
<1>2. /\ \A j \in Inspections : inspections'[j] = IF j = i THEN row ELSE inspections[j]
      /\ inspections[i] = None /\ properties[p] = "listed"
      /\ UNCHANGED <<properties, req>>
  BY DEF CreateInspection, IInv, TypeOK
<1>3. inspections' \in [Inspections -> Inspection \cup {None, Gone}]
  BY <1>1 DEF CreateInspection, IInv, TypeOK
<1> HIDE DEF row
<1>4. TypeOK'
  BY <1>2, <1>3 DEF IInv, TypeOK
<1>5. PropertiesStand'
  BY <1>1, <1>2 DEF IInv, PropertiesStand, Stands
<1>6. Persist
  BY <1>1, <1>2, ConstantsAssumption DEF Persist, Stands
<1>7. InFlight'
  BY <1>2, <1>6, RequestsStay DEF IInv
<1> QED  BY <1>4, <1>5, <1>7 DEF IInv

\* Loading a pending inspection to change it.
LEMMA BeginUpdateKeeps ==
    ASSUME IInv, NEW r \in Requests, NEW u \in Users \cup Staff, NEW i \in Inspections,
           NEW s \in InspectionStatus \cup {None}, BeginUpdate(r, u, i, s)
    PROVE  IInv'
<1> DEFINE q == [pc |-> "update", user |-> u, inspection |-> i, property |-> None,
                 status |-> s, loaded |-> inspections[i].status, found |-> {}]
<1>1. inspections[i].status = "pending" /\ inspections[i] # None
  BY DEF BeginUpdate, Stands
<1>2. q \in Request /\ Knows(q)
  BY <1>1 DEF Request, Knows, InspectionStatus
<1>3. req' = [req EXCEPT ![r] = q] /\ UNCHANGED <<properties, inspections>>
  BY DEF BeginUpdate
<1> HIDE DEF q
<1> QED  BY <1>2, <1>3, QuietStep

\* Loading an inspection to delete it.
LEMMA BeginDeleteKeeps ==
    ASSUME IInv, NEW r \in Requests, NEW u \in Users \cup Staff, NEW i \in Inspections,
           BeginDelete(r, u, i)
    PROVE  IInv'
<1> DEFINE q == [pc |-> "delete", user |-> u, inspection |-> i, property |-> None,
                 status |-> None, loaded |-> None, found |-> {}]
<1>1. q \in Request /\ Knows(q)
  BY DEF BeginDelete, Request, Knows, Stands
<1>2. req' = [req EXCEPT ![r] = q] /\ UNCHANGED <<properties, inspections>>
  BY DEF BeginDelete
<1> HIDE DEF q
<1> QED  BY <1>1, <1>2, QuietStep

\* Loading a property to delete it.
LEMMA BeginDropKeeps ==
    ASSUME IInv, NEW r \in Requests, NEW u \in Staff, NEW p \in Properties,
           BeginDrop(r, u, p)
    PROVE  IInv'
<1> DEFINE q == [pc |-> "look", user |-> u, inspection |-> None, property |-> p,
                 status |-> None, loaded |-> None, found |-> {}]
<1>1. q \in Request /\ Knows(q)
  BY DEF Request, Knows
<1>2. req' = [req EXCEPT ![r] = q] /\ UNCHANGED <<properties, inspections>>
  BY DEF BeginDrop
<1> HIDE DEF q
<1> QED  BY <1>1, <1>2, QuietStep

\* Looking for its inspections.
LEMMA LookKeeps ==
    ASSUME IInv, NEW r \in Requests, Look(r)
    PROVE  IInv'
<1> DEFINE q == [pc |-> "drop", user |-> req[r].user, inspection |-> None,
                 property |-> req[r].property, status |-> None, loaded |-> None,
                 found |-> InspectionsOf(req[r].property)]
<1>1. req[r] \in Request /\ Knows(req[r])
  BY DEF IInv, TypeOK, InFlight
<1>2. q \in Request
  BY <1>1 DEF Request, InspectionsOf
<1>3. Knows(q)
  BY <1>1 DEF Look, Knows
<1>4. req' = [req EXCEPT ![r] = q] /\ UNCHANGED <<properties, inspections>>
  BY DEF Look
<1> HIDE DEF q
<1> QED  BY <1>2, <1>3, <1>4, QuietStep

\* What a commit of an update makes of its inspection.
LEMMA UpdateEffect ==
    ASSUME IInv, NEW r \in Requests, CommitUpdate(r)
    PROVE  \E i \in Inspections, row \in Inspection :
              /\ i = req[r].inspection /\ Stands(i) /\ Stands(i)'
              /\ req[r].pc = "update" /\ req[r].loaded = "pending"
              /\ row.requester_id = inspections[i].requester_id
              /\ row.property_id = inspections[i].property_id
              /\ inspections[i].status # "pending" => row.status # "pending"
              /\ \A j \in Inspections :
                    inspections'[j] = IF j = i THEN row ELSE inspections[j]
              /\ inspections' \in [Inspections -> Inspection \cup {None, Gone}]
<1>1. PICK i \in Inspections :
         i = req[r].inspection /\ Stands(i) /\ inspections[i] \in Inspection
  BY DEF CommitUpdate, IInv, TypeOK, InFlight, Knows, Stands
<1>2. /\ req[r].pc = "update" /\ req[r].loaded = "pending"
      /\ req[r].status \in InspectionStatus \cup {None}
  BY DEF CommitUpdate, IInv, TypeOK, InFlight, Knows, Request
<1> DEFINE s == Flushed(inspections[i].status, req[r].loaded, req[r].status)
           row == [requester_id |-> inspections[i].requester_id,
                   property_id |-> inspections[i].property_id, status |-> s]
<1>3. /\ s \in InspectionStatus
      /\ inspections[i].status # "pending" => s # "pending"
  BY <1>1, <1>2 DEF Flushed, Inspection
<1>4. row \in Inspection
  BY <1>1, <1>3 DEF Inspection
<1>5. inspections' = [inspections EXCEPT ![i] = row]
  BY <1>1 DEF CommitUpdate
<1>6. row.requester_id = inspections[i].requester_id
      /\ row.property_id = inspections[i].property_id /\ row.status = s
  OBVIOUS
<1> HIDE DEF row, s
<1>7. /\ \A j \in Inspections : inspections'[j] = IF j = i THEN row ELSE inspections[j]
      /\ inspections' \in [Inspections -> Inspection \cup {None, Gone}]
  BY <1>4, <1>5 DEF IInv, TypeOK
<1>8. Stands(i)'
  BY <1>4, <1>7, ConstantsAssumption DEF Stands
<1> QED  BY <1>1, <1>2, <1>3, <1>4, <1>6, <1>7, <1>8

\* Changing an inspection.
LEMMA CommitUpdateKeeps ==
    ASSUME IInv, NEW r \in Requests, CommitUpdate(r)
    PROVE  IInv'
<1>1. PICK i \in Inspections, row \in Inspection :
         /\ i = req[r].inspection /\ Stands(i)
         /\ row.requester_id = inspections[i].requester_id
         /\ row.property_id = inspections[i].property_id
         /\ \A j \in Inspections :
               inspections'[j] = IF j = i THEN row ELSE inspections[j]
         /\ inspections' \in [Inspections -> Inspection \cup {None, Gone}]
  BY UpdateEffect
<1>2. Persist
  BY <1>1, ConstantsAssumption DEF Persist, Stands
<1>3. InFlight' /\ req' \in [Requests -> Request]
  BY <1>2, IdleKnows, RequestsKept DEF CommitUpdate, Reply, IInv
<1>4. TypeOK'
  BY <1>1, <1>3 DEF CommitUpdate, IInv, TypeOK
<1>5. PropertiesStand'
  BY <1>1 DEF CommitUpdate, IInv, PropertiesStand, Stands
<1> QED  BY <1>3, <1>4, <1>5 DEF IInv

\* Deleting an inspection.
LEMMA CommitDeleteKeeps ==
    ASSUME IInv, NEW r \in Requests, CommitDelete(r)
    PROVE  IInv'
<1>1. PICK i \in Inspections : i = req[r].inspection
  BY DEF CommitDelete, IInv, InFlight, Knows
<1>2. \A j \in Inspections : inspections'[j] = IF j = i THEN Gone ELSE inspections[j]
  BY <1>1 DEF CommitDelete, IInv, TypeOK
<1>3. Persist
  BY <1>2, ConstantsAssumption DEF Persist, Stands
<1>4. InFlight' /\ req' \in [Requests -> Request]
  BY <1>3, IdleKnows, RequestsKept DEF CommitDelete, Reply, IInv
<1>5. TypeOK'
  BY <1>4 DEF CommitDelete, IInv, TypeOK
<1>6. PropertiesStand'
  BY <1>2 DEF CommitDelete, IInv, PropertiesStand, Stands
<1> QED  BY <1>4, <1>5, <1>6 DEF IInv

\* Unlinking changes property_id only.
LEMMA UnlinkEffect ==
    ASSUME IInv, NEW is, inspections' = Unlinked(is)
    PROVE  Unlinks(is) /\ inspections' \in [Inspections -> Inspection \cup {None, Gone}]
<1> DEFINE row(i) == [requester_id |-> inspections[i].requester_id,
                      property_id |-> None, status |-> inspections[i].status]
<1>1. ASSUME NEW i \in Inspections
      PROVE  inspections'[i] = IF Stands(i) /\ i \in is THEN row(i) ELSE inspections[i]
  BY DEF Unlinked
<1>2. ASSUME NEW i \in Inspections, Stands(i)
      PROVE  row(i) \in Inspection
  <2>1. inspections[i] \in Inspection
    BY <1>2 DEF IInv, TypeOK, Stands
  <2> QED  BY <2>1 DEF Inspection
<1>3. inspections' \in [Inspections -> Inspection \cup {None, Gone}]
  BY <1>2 DEF Unlinked, IInv, TypeOK
<1>4. ASSUME NEW i \in Inspections
      PROVE  /\ Stands(i)' <=> Stands(i)
             /\ inspections[i] # None <=> inspections'[i] # None
             /\ Stands(i) =>
                   /\ inspections'[i].requester_id = inspections[i].requester_id
                   /\ inspections'[i].status = inspections[i].status
                   /\ inspections'[i].property_id =
                         IF i \in is THEN None ELSE inspections[i].property_id
  <2>1. CASE Stands(i) /\ i \in is
    <3>1. inspections'[i] = row(i) /\ row(i) \in Inspection
      BY <2>1, <1>1, <1>2
    <3>2. inspections'[i] \notin {None, Gone}
      BY <3>1, ConstantsAssumption
    <3> QED  BY <2>1, <3>1, <3>2 DEF Stands
  <2>2. CASE ~(Stands(i) /\ i \in is)
    BY <2>2, <1>1 DEF Stands
  <2> QED  BY <2>1, <2>2
<1> QED  BY <1>3, <1>4 DEF Unlinks

\* Deleting a property.
LEMMA CommitDropKeeps ==
    ASSUME IInv, NEW r \in Requests, CommitDrop(r)
    PROVE  IInv'
<1>1. PICK p \in Properties : p = req[r].property
  BY DEF CommitDrop, IInv, InFlight, Knows
<1>2. PICK is : /\ is = req[r].found \cup InspectionsOf(p)
                /\ inspections' = Unlinked(is)
  BY <1>1 DEF CommitDrop
<1>3. Unlinks(is) /\ inspections' \in [Inspections -> Inspection \cup {None, Gone}]
  BY <1>2, UnlinkEffect
<1>4. Persist
  BY <1>3 DEF Unlinks, Persist, Stands
<1>5. InFlight' /\ req' \in [Requests -> Request]
  BY <1>4, IdleKnows, RequestsKept DEF CommitDrop, Reply, IInv
<1>6. TypeOK'
  BY <1>3, <1>5 DEF CommitDrop, IInv, TypeOK
<1>7. PropertiesStand'
  <2> SUFFICES ASSUME NEW i \in Inspections, Stands(i)',
                      inspections'[i].property_id # None
               PROVE  properties'[inspections'[i].property_id] = "listed"
    BY DEF PropertiesStand
  <2>1. /\ Stands(i) /\ i \notin is
        /\ inspections'[i].property_id = inspections[i].property_id
    BY <1>3 DEF Unlinks
  <2>2. PICK x \in Properties : x = inspections[i].property_id
    BY <2>1 DEF IInv, TypeOK, Stands, Inspection
  <2>3. properties[x] = "listed" /\ x # p
    BY <2>1, <2>2, <1>2, ConstantsAssumption DEF IInv, PropertiesStand, InspectionsOf
  <2>4. properties'[x] = properties[x]
    BY <2>3, <1>1 DEF CommitDrop, IInv, TypeOK
  <2> QED  BY <2>1, <2>2, <2>3, <2>4
<1> QED  BY <1>5, <1>6, <1>7 DEF IInv

\* Every step preserves the invariant of Inspections.
LEMMA NextIInv == IInv /\ [Next]_vars => IInv'
<1> SUFFICES ASSUME IInv, [Next]_vars PROVE IInv'
  OBVIOUS
<1>1. ASSUME NEW r \in Requests, Fail(r)
      PROVE  IInv'
  BY <1>1, IdleKnows, QuietStep DEF Fail, Reply
<1>2. CASE UNCHANGED vars
  BY <1>2 DEF vars, IInv, TypeOK, PropertiesStand, InFlight, Knows, Stands, Allowed
<1> QED
  BY <1>1, <1>2, CreatePropertyKeeps, CreateInspectionKeeps, BeginUpdateKeeps,
     CommitUpdateKeeps, BeginDeleteKeeps, CommitDeleteKeeps, BeginDropKeeps, LookKeeps,
     CommitDropKeeps DEF Next

-----------------------------------------------------------------------------
(***************************************************************************)
(* Investments.                                                            *)
(***************************************************************************)
Accounts == Users \cup Staff

MoneyInv == Money!TypeOK /\ Money!PaidOnce

\* A ledger that only grows keeps what is known of the investments and the requests.
LEMMA TypesGrow ==
    ASSUME Len(transactions) \in Nat, Len(transactions') \in Nat,
           Len(transactions) <= Len(transactions'),
           Len(investments) \in Nat, Len(investments') \in Nat,
           Len(investments) <= Len(investments')
    PROVE  /\ Money!Investment \subseteq Money!Investment'
           /\ Money!Request \subseteq Money!Request'
<1>1. 1..Len(transactions) \subseteq 1..Len(transactions')
      /\ 1..Len(investments) \subseteq 1..Len(investments')
  OBVIOUS
<1>2. Money!Investment \subseteq Money!Investment'
  BY <1>1 DEF Money!Investment
<1>3. Money!Request \subseteq Money!Request'
  BY <1>1 DEF Money!Request
<1> QED  BY <1>2, <1>3

\* The rows are sequences.
LEMMA Rows ==
    ASSUME Money!TypeOK
    PROVE  /\ Len(transactions) \in Nat /\ DOMAIN transactions = 1..Len(transactions)
           /\ Len(investments) \in Nat /\ DOMAIN investments = 1..Len(investments)
           /\ \A k \in 1..Len(transactions) : transactions[k] \in Money!Transaction
           /\ \A i \in 1..Len(investments) : investments[i] \in Money!Investment
<1>1. transactions \in Seq(Money!Transaction) /\ investments \in Seq(Money!Investment)
  BY DEF Money!TypeOK
<1> QED  BY <1>1, LenProperties, ElementOfSeq

\* One transaction more, with a reference of its own.
LEMMA InsertEffect ==
    ASSUME Money!TypeOK, NEW t \in References, NEW u \in Accounts, Money!Insert(t, u)
    PROVE  /\ transactions' \in Seq(Money!Transaction)
           /\ Len(transactions') = Len(transactions) + 1
           /\ \A k \in 1..Len(transactions) :
                 /\ transactions'[k] = transactions[k]
                 /\ transactions[k].trx_id # t
           /\ transactions'[Len(transactions) + 1] = [trx_id |-> t, user_id |-> u]
<1> DEFINE row == [trx_id |-> t, user_id |-> u]
<1>1. row \in Money!Transaction
  BY DEF Money!Transaction, Accounts
<1>2. transactions \in Seq(Money!Transaction)
  BY DEF Money!TypeOK
<1>3. transactions' = Append(transactions, row)
  BY DEF Money!Insert
<1>4. \A k \in 1..Len(transactions) : transactions[k].trx_id # t
  BY Rows DEF Money!Insert, Money!Unused
<1> HIDE DEF row
<1> QED  BY <1>1, <1>2, <1>3, <1>4, AppendProperties DEF row

\* The ledger grows by one and the investments stay.
LEMMA InsertKeeps ==
    ASSUME MoneyInv, NEW t \in References, NEW u \in Accounts, Money!Insert(t, u),
           UNCHANGED investments
    PROVE  /\ transactions' \in Seq(Money!Transaction)
           /\ investments' \in Seq(Money!Investment')
           /\ Money!Request \subseteq Money!Request'
           /\ Money!PaidOnce'
<1> DEFINE n == Len(transactions)
<1>1. Money!TypeOK
  BY DEF MoneyInv
<1>2. /\ transactions' \in Seq(Money!Transaction) /\ Len(transactions') = n + 1
      /\ \A k \in 1..n : transactions'[k] = transactions[k] /\ transactions[k].trx_id # t
      /\ transactions'[n + 1] = [trx_id |-> t, user_id |-> u]
  BY <1>1, InsertEffect
<1>3. n \in Nat /\ Len(investments) \in Nat
  BY <1>1, Rows
<1>4. Money!Investment \subseteq Money!Investment' /\ Money!Request \subseteq Money!Request'
  BY <1>2, <1>3, TypesGrow
<1>5. investments' \in Seq(Money!Investment')
  BY <1>1, <1>4, SeqMonotonic DEF Money!TypeOK
<1>6. DOMAIN transactions' = 1..(n + 1) /\ DOMAIN transactions = 1..n
  BY <1>1, <1>2, Rows, LenProperties
<1>7. DOMAIN investments = 1..Len(investments)
      /\ \A i \in 1..Len(investments) : investments[i].trx \in 1..n
  <2>1. \A i \in 1..Len(investments) : investments[i] \in Money!Investment
    BY <1>1, Rows
  <2> QED  BY <1>1, <2>1, Rows DEF Money!Investment
<1>8. Money!PaidOnce
  BY DEF MoneyInv
<1> HIDE DEF n
<1>9. ASSUME NEW j \in 1..(n + 1), NEW k \in 1..(n + 1),
             transactions'[j].trx_id = transactions'[k].trx_id
      PROVE  j = k
  <2>1. transactions'[n + 1].trx_id = t
    BY <1>2
  <2>2. CASE j = n + 1
    BY <2>1, <2>2, <1>2, <1>3, <1>9
  <2>3. CASE k = n + 1
    BY <2>1, <2>3, <1>2, <1>3, <1>9
  <2>4. CASE j \in 1..n /\ k \in 1..n
    BY <2>4, <1>2, <1>6, <1>8, <1>9 DEF Money!PaidOnce
  <2> QED  BY <1>3, <2>2, <2>3, <2>4
<1>10. Money!PaidOnce'
  <2>1. 1..n \subseteq 1..(n + 1)
    BY <1>3
  <2>2. UNCHANGED investments
    OBVIOUS
  <2> QED  BY <2>1, <2>2, <1>2, <1>6, <1>7, <1>8, <1>9 DEF Money!PaidOnce
<1> QED  BY <1>2, <1>4, <1>5, <1>10

\* A request that answers or that goes on with a q of the right type.
LEMMA PayTyped ==
    ASSUME Money!TypeOK, Money!Request \subseteq Money!Request',
           NEW r \in Requests, NEW q, q \in Money!Request', pay' = [pay EXCEPT ![r] = q]
    PROVE  pay' \in [Requests -> Money!Request']
<1>1. pay \in [Requests -> Money!Request']
  BY DEF Money!TypeOK
<1> QED  BY <1>1

\* An idle request is well formed.
LEMMA IdlePay == [pc |-> "idle"] \in Money!Request /\ [pc |-> "idle"] \in Money!Request'
  BY DEF Money!Request

\* A deposit.
LEMMA DepositKeeps ==
    ASSUME MoneyInv, NEW t \in References, NEW u \in Accounts, Money!Deposit(u, t)
    PROVE  MoneyInv'
<1>1. Money!Insert(t, u) /\ UNCHANGED investments /\ UNCHANGED pay
  BY DEF Money!Deposit
<1>2. /\ transactions' \in Seq(Money!Transaction)
      /\ investments' \in Seq(Money!Investment')
      /\ Money!Request \subseteq Money!Request' /\ Money!PaidOnce'
  BY <1>1, InsertKeeps
<1>3. pay' \in [Requests -> Money!Request']
  BY <1>1, <1>2 DEF MoneyInv, Money!TypeOK
<1> QED  BY <1>2, <1>3 DEF MoneyInv, Money!TypeOK, Money!Transaction

\* A withdrawal.
LEMMA CommitWithdrawKeeps ==
    ASSUME MoneyInv, NEW r \in Requests, Money!CommitWithdraw(r)
    PROVE  MoneyInv'
<1>1. PICK t \in References, u \in Accounts : t = pay[r].trx_id /\ u = pay[r].user
  <2>1. pay[r] \in Money!Request /\ pay[r].pc = "withdraw"
    BY DEF Money!CommitWithdraw, MoneyInv, Money!TypeOK
  <2> QED  BY <2>1 DEF Money!Request, Accounts
<1>2. Money!Insert(t, u) /\ UNCHANGED investments
  BY <1>1 DEF Money!CommitWithdraw
<1>3. /\ transactions' \in Seq(Money!Transaction)
      /\ investments' \in Seq(Money!Investment')
      /\ Money!Request \subseteq Money!Request' /\ Money!PaidOnce'
  BY <1>2, InsertKeeps
<1>4. pay' = [pay EXCEPT ![r] = [pc |-> "idle"]]
  BY DEF Money!CommitWithdraw, Money!Reply
<1>5. pay' \in [Requests -> Money!Request']
  BY <1>3, <1>4, IdlePay, PayTyped DEF MoneyInv
<1> QED  BY <1>3, <1>5 DEF MoneyInv, Money!TypeOK, Money!Transaction

\* An investment with its transaction.
LEMMA InvestKeeps ==
    ASSUME MoneyInv, NEW t \in References, NEW u \in Accounts, NEW days \in Durations,
           Money!Invest(u, t, days)
    PROVE  MoneyInv'
<1> DEFINE n == Len(transactions)
           m == Len(investments)
           row == [user_id |-> u, trx |-> n + 1, duration |-> days, deleted |-> FALSE]
<1>1. Money!TypeOK /\ Money!PaidOnce /\ Money!Insert(t, u) /\ UNCHANGED pay
  BY DEF MoneyInv, Money!Invest
<1>2. /\ transactions' \in Seq(Money!Transaction) /\ Len(transactions') = n + 1
      /\ \A k \in 1..n : transactions'[k] = transactions[k] /\ transactions[k].trx_id # t
      /\ transactions'[n + 1] = [trx_id |-> t, user_id |-> u]
  BY <1>1, InsertEffect
<1>3. n \in Nat /\ m \in Nat /\ DOMAIN transactions = 1..n /\ DOMAIN investments = 1..m
  BY <1>1, Rows
<1>4. DOMAIN transactions' = 1..(n + 1)
  BY <1>2, LenProperties
<1>5. \A i \in 1..m : investments[i].trx \in 1..n
  <2>1. \A i \in 1..m : investments[i] \in Money!Investment
    BY <1>1, Rows
  <2> QED  BY <2>1 DEF Money!Investment
<1>6. investments' = Append(investments, row)
  BY DEF Money!Invest
<1>7. Money!Investment \subseteq Money!Investment'
  <2>1. 1..n \subseteq 1..Len(transactions')
    BY <1>2, <1>3
  <2> QED  BY <2>1 DEF Money!Investment
<1>8. row \in Money!Investment' /\ investments \in Seq(Money!Investment')
  <2>1. n + 1 \in 1..Len(transactions')
    BY <1>2, <1>3
  <2>2. row \in Money!Investment'
    BY <2>1 DEF Money!Investment, Accounts
  <2> QED  BY <2>2, <1>1, <1>7, SeqMonotonic DEF Money!TypeOK
<1>9. row.trx = n + 1 /\ row.user_id = u
  OBVIOUS
<1> HIDE DEF row
<1>10. /\ investments' \in Seq(Money!Investment') /\ Len(investments') = m + 1
       /\ \A i \in 1..m : investments'[i] = investments[i]
       /\ investments'[m + 1] = row
  BY <1>6, <1>8, AppendProperties
<1>11. DOMAIN investments' = 1..(m + 1)
  BY <1>10, LenProperties
<1>12. Money!Request \subseteq Money!Request'
  BY <1>2, <1>3, <1>10, TypesGrow
<1>13. pay' \in [Requests -> Money!Request']
  BY <1>1, <1>12 DEF Money!TypeOK
<1> HIDE DEF n, m
<1>14. ASSUME NEW j \in 1..(n + 1), NEW k \in 1..(n + 1),
              transactions'[j].trx_id = transactions'[k].trx_id
       PROVE  j = k
  <2>1. transactions'[n + 1].trx_id = t
    BY <1>2
  <2>2. CASE j = n + 1
    BY <2>1, <2>2, <1>2, <1>3, <1>14
  <2>3. CASE k = n + 1
    BY <2>1, <2>3, <1>2, <1>3, <1>14
  <2>4. CASE j \in 1..n /\ k \in 1..n
    BY <2>4, <1>1, <1>2, <1>3, <1>14 DEF Money!PaidOnce
  <2> QED  BY <1>3, <2>2, <2>3, <2>4
<1>15. ASSUME NEW h \in 1..(m + 1), NEW i \in 1..(m + 1)
       PROVE  /\ investments'[i].trx \in 1..(n + 1)
              /\ investments'[h].trx = investments'[i].trx => h = i
              /\ transactions'[investments'[i].trx].user_id = investments'[i].user_id
  <2>1. ASSUME NEW k \in 1..m
        PROVE  investments'[k].trx \in 1..n /\ investments'[k].trx # n + 1
    BY <1>3, <1>5, <1>10
  <2>2. investments'[m + 1].trx = n + 1 /\ investments'[m + 1].user_id = u
    BY <1>9, <1>10
  <2>3. transactions'[n + 1].user_id = u
    BY <1>2
  <2>4. i \in 1..m => transactions'[investments'[i].trx].user_id = investments'[i].user_id
    BY <1>1, <1>2, <1>3, <1>5, <1>10 DEF Money!PaidOnce
  <2>5. h \in 1..m /\ i \in 1..m /\ investments'[h].trx = investments'[i].trx => h = i
    BY <1>1, <1>3, <1>10 DEF Money!PaidOnce
  <2>6. (h \in 1..m \/ h = m + 1) /\ (i \in 1..m \/ i = m + 1)
    BY <1>3
  <2>7. n + 1 \in 1..(n + 1) /\ 1..n \subseteq 1..(n + 1)
    BY <1>3
  <2> QED  BY <2>1, <2>2, <2>3, <2>4, <2>5, <2>6, <2>7
<1>16. Money!PaidOnce'
  BY <1>4, <1>11, <1>14, <1>15 DEF Money!PaidOnce
<1> QED  BY <1>2, <1>10, <1>13, <1>16 DEF MoneyInv, Money!TypeOK, Money!Transaction

\* A step of one request that commits nothing.
LEMMA QuietPay ==
    ASSUME MoneyInv, NEW r \in Requests, NEW q, q \in Money!Request,
           pay' = [pay EXCEPT ![r] = q], UNCHANGED <<transactions, investments>>
    PROVE  MoneyInv'
<1>1. Money!Request' = Money!Request /\ Money!Investment' = Money!Investment
  BY DEF Money!Request, Money!Investment
<1>2. pay' \in [Requests -> Money!Request']
  BY <1>1 DEF MoneyInv, Money!TypeOK
<1>3. Money!PaidOnce'
  BY DEF MoneyInv, Money!PaidOnce
<1> QED  BY <1>1, <1>2, <1>3 DEF MoneyInv, Money!TypeOK, Money!Transaction

\* Deleting an investment marks its row and keeps the ledger.
LEMMA CommitDeletePayKeeps ==
    ASSUME MoneyInv, NEW r \in Requests, Money!CommitDelete(r)
    PROVE  MoneyInv'
<1>1. PICK i \in 1..Len(investments) : i = pay[r].investment
  <2>1. pay[r] \in Money!Request /\ pay[r].pc = "delete"
    BY DEF Money!CommitDelete, MoneyInv, Money!TypeOK
  <2> QED  BY <2>1 DEF Money!Request
<1> DEFINE row == [user_id |-> investments[i].user_id, trx |-> investments[i].trx,
                   duration |-> investments[i].duration, deleted |-> TRUE]
<1>2. investments' = [investments EXCEPT ![i] = row]
  BY <1>1 DEF Money!CommitDelete, Money!Deleted
<1>3. /\ investments \in Seq(Money!Investment) /\ DOMAIN investments = 1..Len(investments)
      /\ Len(investments) \in Nat /\ Len(transactions) \in Nat
      /\ investments[i] \in Money!Investment
  BY Rows DEF MoneyInv, Money!TypeOK
<1>4. row \in Money!Investment
  BY <1>3 DEF Money!Investment
<1>5. row.trx = investments[i].trx /\ row.user_id = investments[i].user_id
  OBVIOUS
<1> HIDE DEF row
<1>6. /\ investments' \in Seq(Money!Investment) /\ Len(investments') = Len(investments)
      /\ \A j \in 1..Len(investments) :
            investments'[j] = IF j = i THEN row ELSE investments[j]
  BY <1>2, <1>3, <1>4, ExceptSeq
<1>7. UNCHANGED transactions /\ pay' = [pay EXCEPT ![r] = [pc |-> "idle"]]
  BY DEF Money!CommitDelete, Money!Reply
<1>8. Money!Investment \subseteq Money!Investment' /\ Money!Request \subseteq Money!Request'
  BY <1>3, <1>6, <1>7, TypesGrow
<1>9. /\ investments' \in Seq(Money!Investment')
      /\ pay' \in [Requests -> Money!Request']
  BY <1>6, <1>7, <1>8, SeqMonotonic, IdlePay, PayTyped DEF MoneyInv
<1>10. DOMAIN investments' = 1..Len(investments)
  BY <1>6, LenProperties
<1>11. \A j \in 1..Len(investments) :
         /\ investments'[j].trx = investments[j].trx
         /\ investments'[j].user_id = investments[j].user_id
  BY <1>5, <1>6
<1>12. Money!PaidOnce'
  BY <1>3, <1>7, <1>10, <1>11 DEF MoneyInv, Money!PaidOnce
<1> QED  BY <1>7, <1>9, <1>12 DEF MoneyInv, Money!TypeOK, Money!Transaction

\* The invariant holds initially.
LEMMA InitMoney == Money!Init => MoneyInv
<1> SUFFICES ASSUME Money!Init PROVE MoneyInv
  OBVIOUS
<1>1. transactions = <<>> /\ investments = <<>>
  BY DEF Money!Init
<1>2. DOMAIN transactions = {} /\ DOMAIN investments = {}
  BY <1>1
<1>3. transactions \in Seq(Money!Transaction) /\ investments \in Seq(Money!Investment)
  BY <1>1, EmptySeq
<1>4. pay \in [Requests -> Money!Request]
  BY IdlePay DEF Money!Init
<1> QED  BY <1>2, <1>3, <1>4 DEF MoneyInv, Money!TypeOK, Money!PaidOnce

\* Every step of Investments preserves its invariant.
LEMMA NextMoney == MoneyInv /\ Money!Next => MoneyInv'
<1> SUFFICES ASSUME MoneyInv, Money!Next PROVE MoneyInv'
  OBVIOUS
<1>1. ASSUME NEW r \in Requests, NEW u \in Accounts, NEW t \in References,
             Money!BeginWithdraw(r, u, t)
      PROVE  MoneyInv'
  <2> DEFINE q == [pc |-> "withdraw", user |-> u, trx_id |-> t]
  <2>1. q \in Money!Request
    BY DEF Money!Request, Accounts
  <2>2. pay' = [pay EXCEPT ![r] = q] /\ UNCHANGED <<transactions, investments>>
    BY <1>1 DEF Money!BeginWithdraw
  <2> HIDE DEF q
  <2> QED  BY <2>1, <2>2, QuietPay
<1>2. ASSUME NEW r \in Requests, NEW u \in Accounts, NEW i \in DOMAIN investments,
             Money!BeginDelete(r, u, i)
      PROVE  MoneyInv'
  <2> DEFINE q == [pc |-> "delete", user |-> u, investment |-> i]
  <2>1. i \in 1..Len(investments)
    BY Rows DEF MoneyInv
  <2>2. q \in Money!Request
    BY <2>1 DEF Money!Request, Accounts
  <2>3. pay' = [pay EXCEPT ![r] = q] /\ UNCHANGED <<transactions, investments>>
    BY <1>2 DEF Money!BeginDelete
  <2> HIDE DEF q
  <2> QED  BY <2>2, <2>3, QuietPay
<1>3. ASSUME NEW r \in Requests, Money!Fail(r)
      PROVE  MoneyInv'
  BY <1>3, IdlePay, QuietPay DEF Money!Fail, Money!Reply
<1> QED
  BY <1>1, <1>2, <1>3, DepositKeeps, InvestKeeps, CommitWithdrawKeeps,
     CommitDeletePayKeeps DEF Money!Next, Accounts

\* The rate of an investment is that of the highest band its days reach.
LEMMA RateOfBand ==
    ASSUME NEW days \in Int
    PROVE  LET reached == {b \in Money!Bands : b[1] <= days}
           IN /\ reached = {} => Money!Rate(days) = 0
              /\ \A b \in reached :
                    (\A c \in reached : c[1] <= b[1]) => Money!Rate(days) = b[2]
<1> DEFINE reached == {b \in Money!Bands : b[1] <= days}
<1>1. \A b : b \in reached <=> /\ \/ b = <<30, 2>> \/ b = <<91, 10>>
                                  \/ b = <<182, 15>> \/ b = <<365, 30>>
                               /\ b[1] <= days
  BY DEF Money!Bands
<1> HIDE DEF reached
<1>2. /\ days >= 30 => <<30, 2>> \in reached
      /\ days >= 91 => <<91, 10>> \in reached
      /\ days >= 182 => <<182, 15>> \in reached
      /\ days >= 365 => <<365, 30>> \in reached
  BY <1>1
<1>3. Money!Rate(days) = IF days >= 365 THEN 30
                         ELSE IF days >= 182 THEN 15
                         ELSE IF days >= 91 THEN 10
                         ELSE IF days >= 30 THEN 2 ELSE 0
  BY DEF Money!Rate
<1>4. reached = {} => Money!Rate(days) = 0
  BY <1>2, <1>3
<1>5. ASSUME NEW b \in reached, \A c \in reached : c[1] <= b[1]
      PROVE  Money!Rate(days) = b[2]
  <2>1. CASE b = <<30, 2>>
    BY <2>1, <1>1, <1>2, <1>3, <1>5
  <2>2. CASE b = <<91, 10>>
    BY <2>2, <1>1, <1>2, <1>3, <1>5
  <2>3. CASE b = <<182, 15>>
    BY <2>3, <1>1, <1>2, <1>3, <1>5
  <2>4. CASE b = <<365, 30>>
    BY <2>4, <1>1, <1>2, <1>3, <1>5
  <2> QED  BY <1>1, <2>1, <2>2, <2>3, <2>4
<1> QED  BY <1>4, <1>5 DEF reached

\* Every investment has a rate by the bands.
LEMMA RatesAreBands == MoneyInv => RatesFollowBands
<1> SUFFICES ASSUME MoneyInv PROVE RatesFollowBands
  OBVIOUS
<1>1. ASSUME NEW i \in DOMAIN investments
      PROVE  investments[i].duration \in Int
  <2>1. investments[i] \in Money!Investment
    BY Rows DEF MoneyInv
  <2> QED  BY <2>1, DurationsAssumption DEF Money!Investment
<1> QED  BY <1>1, RateOfBand DEF RatesFollowBands, Money!RatesFollowBands

-----------------------------------------------------------------------------
(***************************************************************************)
(* Theorems.                                                               *)
(***************************************************************************)
\* The invariants of the two parts.
THEOREM HoldingsInvariant == HoldingsSpec => [](IInv /\ MoneyInv)
<1>1. HoldingsInit => IInv /\ MoneyInv
  BY InitIInv, InitMoney DEF HoldingsInit
<1>2. IInv /\ MoneyInv /\ [HoldingsNext]_<<vars, moneyVars>> => (IInv /\ MoneyInv)'
  <2> SUFFICES ASSUME IInv, MoneyInv, [HoldingsNext]_<<vars, moneyVars>>
               PROVE  IInv' /\ MoneyInv'
    OBVIOUS
  <2>1. ASSUME UNCHANGED moneyVars
        PROVE  MoneyInv'
    <3>1. Money!Request' = Money!Request /\ Money!Investment' = Money!Investment
      BY <2>1 DEF moneyVars, Money!Request, Money!Investment
    <3>2. Money!TypeOK'
      BY <2>1, <3>1 DEF MoneyInv, moneyVars, Money!TypeOK, Money!Transaction
    <3>3. Money!PaidOnce'
      BY <2>1 DEF MoneyInv, moneyVars, Money!PaidOnce
    <3> QED  BY <3>2, <3>3 DEF MoneyInv
  <2>2. [Next]_vars
    BY DEF HoldingsNext
  <2>3. Money!Next \/ UNCHANGED moneyVars
    BY DEF HoldingsNext
  <2> QED  BY <2>1, <2>2, <2>3, NextIInv, NextMoney
<1> QED  BY <1>1, <1>2, PTL DEF HoldingsSpec

\* Every variable of Inspections keeps its type.
THEOREM InspectionsTypeCorrect == HoldingsSpec => []TypeOK
<1>1. IInv => TypeOK
  BY DEF IInv
<1> QED  BY <1>1, HoldingsInvariant, PTL

\* Every variable of Investments keeps its type.
THEOREM InvestmentsTypeCorrect == HoldingsSpec => []MoneyTypeOK
<1>1. MoneyInv => MoneyTypeOK
  BY DEF MoneyInv, MoneyTypeOK
<1> QED  BY <1>1, HoldingsInvariant, PTL

\* No inspection refers to a property that is gone.
THEOREM NoDanglingInspection == HoldingsSpec => []PropertiesStand
<1>1. IInv => PropertiesStand
  BY DEF IInv
<1> QED  BY <1>1, HoldingsInvariant, PTL

\* A reference pays once, and for an investment of its own account.
THEOREM PaymentsCountOnce == HoldingsSpec => []PaidOnce
<1>1. MoneyInv => PaidOnce
  BY DEF MoneyInv, PaidOnce
<1> QED  BY <1>1, HoldingsInvariant, PTL

\* For durations of any length the rates follow the bands.
THEOREM RatesStayInBands == HoldingsSpec => []RatesFollowBands
  BY RatesAreBands, HoldingsInvariant, PTL

\* What the steps that do not change an inspection leave alone.
LEMMA OtherSteps ==
    ASSUME NEW r \in Requests,
           \/ \E u \in Users \cup Staff, i \in Inspections,
                 s \in InspectionStatus \cup {None} : BeginUpdate(r, u, i, s)
           \/ \E u \in Users \cup Staff, i \in Inspections : BeginDelete(r, u, i)
           \/ \E u \in Staff, p \in Properties : BeginDrop(r, u, p)
           \/ Look(r) \/ Fail(r)
    PROVE  UNCHANGED inspections
  BY DEF BeginUpdate, BeginDelete, BeginDrop, Look, Fail

\* A new inspection leaves the others alone.
LEMMA OthersStay ==
    ASSUME TypeOK, NEW j \in Inspections, NEW u, NEW p, CreateInspection(j, u, p),
           NEW i \in Inspections, Stands(i)
    PROVE  inspections'[i] = inspections[i] /\ Stands(i)'
<1>1. i # j
  BY DEF CreateInspection, Stands
<1>2. inspections'[i] = inspections[i]
  BY <1>1 DEF CreateInspection, TypeOK
<1> QED  BY <1>2 DEF Stands

\* A decision is not taken back, and is changed only by an update in flight.
LEMMA DecisionSteps ==
    ASSUME IInv, Next, NEW i \in Inspections, Stands(i), Stands(i)',
           inspections[i].status # "pending"
    PROVE  /\ inspections'[i].status # "pending"
           /\ inspections'[i].status # inspections[i].status =>
                 \E r \in Requests : req[r].pc = "update" /\ req[r].inspection = i
<1>1. ASSUME NEW p \in Properties, CreateProperty(p)
      PROVE  UNCHANGED inspections
  BY <1>1 DEF CreateProperty
<1>2. ASSUME NEW j \in Inspections, NEW u \in Users \cup Staff, NEW p \in Properties,
             CreateInspection(j, u, p)
      PROVE  inspections'[i] = inspections[i]
  BY <1>2, OthersStay DEF IInv
<1>3. ASSUME NEW r \in Requests, CommitUpdate(r)
      PROVE  /\ inspections'[i].status # "pending"
             /\ inspections'[i].status # inspections[i].status =>
                   req[r].pc = "update" /\ req[r].inspection = i
  <2>1. PICK k \in Inspections, row \in Inspection :
           /\ k = req[r].inspection /\ req[r].pc = "update"
           /\ inspections[k].status # "pending" => row.status # "pending"
           /\ \A j \in Inspections :
                 inspections'[j] = IF j = k THEN row ELSE inspections[j]
    BY <1>3, UpdateEffect
  <2> QED  BY <2>1
<1>4. ASSUME NEW r \in Requests, CommitDelete(r)
      PROVE  inspections'[i] = inspections[i]
  <2>1. inspections'[i] \in {inspections[i], Gone}
    BY <1>4 DEF CommitDelete, IInv, TypeOK
  <2> QED  BY <2>1 DEF Stands
<1>5. ASSUME NEW r \in Requests, CommitDrop(r)
      PROVE  inspections'[i].status = inspections[i].status
  <2>1. PICK is : inspections' = Unlinked(is)
    BY <1>5 DEF CommitDrop
  <2> QED  BY <2>1, UnlinkEffect DEF Unlinks
<1> QED  BY <1>1, <1>2, <1>3, <1>4, <1>5, OtherSteps DEF Next

\* A decision is never taken back.
THEOREM DecisionsStay == HoldingsSpec => DecidedStaysDecided
<1> DEFINE Step == \A i \in Inspections :
                      /\ Stands(i) /\ Stands(i)'
                      /\ inspections[i].status # "pending"
                      => inspections'[i].status # "pending"
<1>1. IInv /\ [HoldingsNext]_<<vars, moneyVars>> => [Step]_vars
  BY DecisionSteps DEF HoldingsNext
<1>2. [][Step]_vars <=> DecidedStaysDecided
  BY DEF DecidedStaysDecided
<1> HIDE DEF Step
<1> QED  BY <1>1, <1>2, HoldingsInvariant, PTL DEF HoldingsSpec

\* Inspections go only by a request of somebody who may.
LEMMA GoingSteps ==
    ASSUME IInv, Next, NEW i \in Inspections, Stands(i), ~Stands(i)'
    PROVE  \E r \in Requests : /\ req[r].pc = "delete" /\ req[r].inspection = i
                               /\ Allowed(req[r].user, i)
<1>0. inspections' # inspections
  BY DEF Stands
<1>1. ASSUME NEW p \in Properties, CreateProperty(p)
      PROVE  FALSE
  BY <1>0, <1>1 DEF CreateProperty
<1>2. ASSUME NEW j \in Inspections, NEW u \in Users \cup Staff, NEW p \in Properties,
             CreateInspection(j, u, p)
      PROVE  FALSE
  BY <1>2, OthersStay DEF IInv
<1>3. ASSUME NEW r \in Requests, CommitUpdate(r)
      PROVE  FALSE
  <2>1. PICK k \in Inspections :
           /\ Stands(k)'
           /\ \A j \in Inspections : j # k => inspections'[j] = inspections[j]
    BY <1>3, UpdateEffect
  <2> QED  BY <2>1 DEF Stands
<1>4. ASSUME NEW r \in Requests, CommitDelete(r)
      PROVE  /\ req[r].pc = "delete" /\ req[r].inspection = i
             /\ Allowed(req[r].user, i)
  <2>1. inspections'[i] = IF i = req[r].inspection THEN Gone ELSE inspections[i]
    BY <1>4 DEF CommitDelete, IInv, TypeOK
  <2>2. req[r].inspection = i /\ req[r].pc = "delete"
    BY <2>1, <1>4 DEF Stands, CommitDelete
  <2> QED  BY <2>2 DEF IInv, InFlight, Knows
<1>5. ASSUME NEW r \in Requests, CommitDrop(r)
      PROVE  FALSE
  <2>1. PICK is : inspections' = Unlinked(is)
    BY <1>5 DEF CommitDrop
  <2>2. Stands(i)' <=> Stands(i)
    BY <2>1, UnlinkEffect DEF Unlinks
  <2> QED  BY <2>2
<1> QED  BY <1>0, <1>1, <1>2, <1>3, <1>4, <1>5, OtherSteps DEF Next

\* An inspection goes by the hand of its requester or of the staff, not with its
\* property.
THEOREM InspectionsStay == HoldingsSpec => InspectionsGoByHand
<1> DEFINE Step == \A i \in Inspections :
                      Stands(i) /\ ~Stands(i)' =>
                         \E r \in Requests :
                            /\ req[r].pc = "delete" /\ req[r].inspection = i
                            /\ Allowed(req[r].user, i)
<1>1. IInv /\ [HoldingsNext]_<<vars, moneyVars>> => [Step]_vars
  BY GoingSteps DEF HoldingsNext
<1>2. [][Step]_vars <=> InspectionsGoByHand
  BY DEF InspectionsGoByHand
<1> HIDE DEF Step
<1> QED  BY <1>1, <1>2, HoldingsInvariant, PTL DEF HoldingsSpec

-----------------------------------------------------------------------------
(***************************************************************************)
(* Without races.  When no two updates in flight are about one inspection, *)
(* as they would be if update_inspection took its row FOR UPDATE, what it  *)
(* answers is true: "Only inspections with status 'pending' can be         *)
(* modified".                                                              *)
(***************************************************************************)
UpdatesApart ==
    \A r, s \in Requests :
       r # s /\ req[r].pc = "update" /\ req[s].pc = "update" =>
          req[r].inspection # req[s].inspection

\* A step changes the status of an inspection only from "pending"
OnlyPendingChange ==
    [][\A i \in Inspections :
          /\ Stands(i) /\ Stands(i)'
          /\ inspections[i].status # "pending"
          => inspections'[i].status = inspections[i].status]_vars

\* An inspection that somebody is about to update is pending still
Undecided ==
    \A r \in Requests :
       req[r].pc = "update" /\ Stands(req[r].inspection) =>
          inspections[req[r].inspection].status = "pending"

\* No update begins and the inspections to update keep their status.
LEMMA UndecidedKept ==
    ASSUME IInv, Undecided,
           \A x \in Requests : req'[x].pc = "update" => req'[x] = req[x],
           \A x \in Requests, i \in Inspections :
              /\ req'[x].pc = "update" /\ req[x].pc = "update" /\ req[x].inspection = i
              /\ Stands(i)'
              => Stands(i) /\ inspections'[i].status = inspections[i].status
    PROVE  Undecided'
<1> SUFFICES ASSUME NEW x \in Requests, req'[x].pc = "update",
                    Stands(req[x].inspection)'
             PROVE  inspections'[req'[x].inspection].status = "pending"
  BY DEF Undecided
<1>1. req'[x] = req[x]
  OBVIOUS
<1>2. PICK i \in Inspections : i = req[x].inspection
  BY <1>1 DEF IInv, InFlight, Knows
<1>3. Stands(i)'
  BY <1>1, <1>2 DEF Stands
<1>4. Stands(i) /\ inspections'[i].status = inspections[i].status
  BY <1>1, <1>2, <1>3
<1>5. inspections[i].status = "pending"
  BY <1>1, <1>2, <1>4 DEF Undecided
<1> QED  BY <1>1, <1>2, <1>4, <1>5

\* Every step leaves them undecided.
LEMMA NextUndecided == IInv /\ Undecided /\ UpdatesApart /\ [Next]_vars => Undecided'
<1> SUFFICES ASSUME IInv, Undecided, UpdatesApart, [Next]_vars PROVE Undecided'
  OBVIOUS
<1>0. Idle.pc = "idle"
  BY DEF Idle
<1>1. CASE UNCHANGED vars
  BY <1>1 DEF vars, Undecided, Stands
<1>2. ASSUME NEW p \in Properties, CreateProperty(p) PROVE Undecided'
  BY <1>2 DEF CreateProperty, Undecided, Stands
<1>3. ASSUME NEW j \in Inspections, NEW u \in Users \cup Staff, NEW p \in Properties,
             CreateInspection(j, u, p)
      PROVE  Undecided'
  <2>1. UNCHANGED req
    BY <1>3 DEF CreateInspection
  <2>2. ASSUME NEW x \in Requests, NEW i \in Inspections,
               req[x].pc = "update", req[x].inspection = i
        PROVE  inspections'[i] = inspections[i]
    <3>1. inspections[i] # None
      BY <2>2 DEF IInv, InFlight, Knows
    <3> QED  BY <1>3, <3>1 DEF CreateInspection, IInv, TypeOK
  <2> QED  BY <2>1, <2>2, UndecidedKept DEF Stands
<1>4. ASSUME NEW r \in Requests, NEW u \in Users \cup Staff, NEW i \in Inspections,
             NEW s \in InspectionStatus \cup {None}, BeginUpdate(r, u, i, s)
      PROVE  Undecided'
  <2> DEFINE q == [pc |-> "update", user |-> u, inspection |-> i, property |-> None,
                   status |-> s, loaded |-> inspections[i].status, found |-> {}]
  <2>1. /\ \A x \in Requests : req'[x] = IF x = r THEN q ELSE req[x]
        /\ UNCHANGED inspections /\ inspections[i].status = "pending"
    BY <1>4 DEF BeginUpdate, IInv, TypeOK
  <2>2. q.inspection = i
    OBVIOUS
  <2> HIDE DEF q
  <2> QED  BY <2>1, <2>2 DEF Undecided, Stands
<1>5. ASSUME NEW r \in Requests, NEW q, q.pc # "update", req' = [req EXCEPT ![r] = q],
             UNCHANGED inspections
      PROVE  Undecided'
  <2>1. \A x \in Requests : req'[x] = IF x = r THEN q ELSE req[x]
    BY <1>5 DEF IInv, TypeOK
  <2> QED  BY <1>5, <2>1 DEF Undecided, Stands
<1>6. ASSUME NEW r \in Requests, NEW u \in Users \cup Staff, NEW i \in Inspections,
             BeginDelete(r, u, i)
      PROVE  Undecided'
  BY <1>5, <1>6 DEF BeginDelete
<1>7. ASSUME NEW r \in Requests, NEW u \in Staff, NEW p \in Properties,
             BeginDrop(r, u, p)
      PROVE  Undecided'
  BY <1>5, <1>7 DEF BeginDrop
<1>8. ASSUME NEW r \in Requests, Look(r) \/ Fail(r) PROVE Undecided'
  BY <1>0, <1>5, <1>8 DEF Look, Fail, Reply
<1>9. ASSUME NEW r \in Requests, CommitUpdate(r) PROVE Undecided'
  <2>1. PICK i \in Inspections, row \in Inspection :
           /\ i = req[r].inspection /\ req[r].pc = "update"
           /\ \A j \in Inspections :
                 inspections'[j] = IF j = i THEN row ELSE inspections[j]
    BY <1>9, UpdateEffect
  <2>2. \A x \in Requests : req'[x] = IF x = r THEN Idle ELSE req[x]
    BY <1>9 DEF CommitUpdate, Reply, IInv, TypeOK
  <2>3. ASSUME NEW x \in Requests, NEW j \in Inspections,
               req'[x].pc = "update", req[x].pc = "update", req[x].inspection = j
        PROVE  inspections'[j] = inspections[j]
    BY <1>0, <2>1, <2>2, <2>3 DEF UpdatesApart
  <2> QED  BY <1>0, <2>2, <2>3, UndecidedKept DEF Stands
<1>10. ASSUME NEW r \in Requests, CommitDelete(r) PROVE Undecided'
  <2>1. \A j \in Inspections : inspections'[j] \in {inspections[j], Gone}
    BY <1>10 DEF CommitDelete, IInv, TypeOK
  <2>2. \A x \in Requests : req'[x] = IF x = r THEN Idle ELSE req[x]
    BY <1>10 DEF CommitDelete, Reply, IInv, TypeOK
  <2> QED  BY <1>0, <2>1, <2>2, UndecidedKept DEF Stands
<1>11. ASSUME NEW r \in Requests, CommitDrop(r) PROVE Undecided'
  <2>1. PICK is : inspections' = Unlinked(is)
    BY <1>11 DEF CommitDrop
  <2>2. \A j \in Inspections : /\ Stands(j)' <=> Stands(j)
                               /\ Stands(j) =>
                                     inspections'[j].status = inspections[j].status
    BY <2>1, UnlinkEffect DEF Unlinks
  <2>3. \A x \in Requests : req'[x] = IF x = r THEN Idle ELSE req[x]
    BY <1>11 DEF CommitDrop, Reply, IInv, TypeOK
  <2> QED  BY <1>0, <2>2, <2>3, UndecidedKept
<1> QED
  BY <1>1, <1>2, <1>3, <1>4, <1>6, <1>7, <1>8, <1>9, <1>10, <1>11 DEF Next

\* With the updates of an inspection one at a time, a status that is not "pending" is
\* the last one, whatever its requester and the staff ask for.
THEOREM LockedDecisionsAreFinal == HoldingsSpec /\ []UpdatesApart => OnlyPendingChange
<1> DEFINE Step == \A i \in Inspections :
                      /\ Stands(i) /\ Stands(i)'
                      /\ inspections[i].status # "pending"
                      => inspections'[i].status = inspections[i].status
<1>1. HoldingsInit => Undecided
  BY DEF HoldingsInit, Init, Undecided, Idle
<1>2. IInv /\ Undecided /\ UpdatesApart /\ [HoldingsNext]_<<vars, moneyVars>> => Undecided'
  BY NextUndecided DEF HoldingsNext
<1>3. IInv /\ Undecided /\ [HoldingsNext]_<<vars, moneyVars>> => [Step]_vars
  <2> SUFFICES ASSUME IInv, Undecided, Next, NEW i \in Inspections, Stands(i), Stands(i)',
                      inspections[i].status # "pending"
               PROVE  inspections'[i].status = inspections[i].status
    BY DEF HoldingsNext
  <2>1. ASSUME NEW r \in Requests, req[r].pc = "update", req[r].inspection = i
        PROVE  FALSE
    BY <2>1 DEF Undecided
  <2> QED  BY <2>1, DecisionSteps
<1>4. [][Step]_vars <=> OnlyPendingChange
  BY DEF OnlyPendingChange
<1> HIDE DEF Step
<1> QED  BY <1>1, <1>2, <1>3, <1>4, HoldingsInvariant, PTL DEF HoldingsSpec
=============================================================================
