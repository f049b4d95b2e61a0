---------------------------- MODULE RatingsProofs ----------------------------
(***************************************************************************)
(* Proofs about Ratings, for any number of users, assets and ratings.  The *)
(* aggregates of a hotel stay exact because a request that has not been    *)
(* overtaken still holds the aggregates of the row it will write, and its  *)
(* rating, if it deletes one, is still there (InFlight).  StarsOf counts a *)
(* rating once for each of its stars, so that one rating more or less      *)
(* changes five cardinalities by at most one each.                         *)
(***************************************************************************)
EXTENDS Ratings, FiniteSetTheorems, TLAPS

Holding == {"find", "delete"}

\* What a request in flight knows of its asset and its rating
Knows(q, u) ==
    /\ q.pc = "rate" =>
          /\ q.asset \in Assets /\ q.score \in Scores /\ q.copy \in Totals
          /\ ~q.overtaken /\ assets[q.asset] # None => q.copy = assets[q.asset]
    /\ q.pc \in {"load", "find", "delete"} =>
          /\ q.asset \in Assets /\ q.score \in Scores /\ q.rating \in Ids
          /\ ratings[q.rating] # None
          /\ Rated(q.rating) =>
                /\ ratings[q.rating].rateable_id = q.asset
                /\ ratings[q.rating].score = q.score
                /\ ratings[q.rating].commenter_id = u
          /\ ~q.overtaken => Rated(q.rating) \/ assets[q.asset] = None
    /\ q.pc \in Holding =>
          /\ q.copy = None => assets[q.asset] = None
          /\ ~q.overtaken /\ assets[q.asset] # None => q.copy = assets[q.asset]
    /\ q.pc = "drop" =>
          /\ q.asset \in Assets
          /\ \A r \in q.found : /\ ratings[r] # None
                                /\ Rated(r) => ratings[r].rateable_id = q.asset

InFlight == \A u \in Users : Knows(req[u], u)

\* The foreign key of a rating is NULL only when its asset is gone
Unlinked ==
    \A r \in Ids : Rated(r) /\ ~ratings[r].linked => assets[ratings[r].rateable_id] = None

IInv == TypeOK /\ AggregatesExact /\ InFlight /\ Unlinked

-----------------------------------------------------------------------------
(***************************************************************************)
(* Counting.                                                               *)
(***************************************************************************)
Level(a, k) == {r \in RatingsOf(a) : ratings[r].score >= k}

\* Sets of ratings are finite.
LEMMA LevelFinite ==
    ASSUME NEW a, NEW k
    PROVE  /\ IsFiniteSet(Level(a, k)) /\ Cardinality(Level(a, k)) \in Nat
           /\ IsFiniteSet(RatingsOf(a)) /\ Cardinality(RatingsOf(a)) \in Nat
<1>1. Level(a, k) \subseteq Ids /\ RatingsOf(a) \subseteq Ids
  BY DEF Level, RatingsOf
<1>2. IsFiniteSet(Level(a, k)) /\ IsFiniteSet(RatingsOf(a))
  BY <1>1, FS_Subset, ConstantsAssumption
<1> QED  BY <1>2, FS_CardinalityType

\* The stars of an asset whose ratings stay the same.
LEMMA StarsSame ==
    ASSUME NEW h, RatingsOf(h)' = RatingsOf(h),
           \A i \in RatingsOf(h) : ratings'[i] = ratings[i]
    PROVE  StarsOf(h)' = StarsOf(h)
<1>1. ASSUME NEW k
      PROVE  AtLeast(h, k)' = AtLeast(h, k)
  <2>1. {i \in RatingsOf(h)' : ratings'[i].score >= k}
           = {i \in RatingsOf(h) : ratings[i].score >= k}
    OBVIOUS
  <2> QED  BY <2>1 DEF AtLeast
<1> QED  BY <1>1 DEF StarsOf

\* A new rating of an asset counts one more at each level up to its score.
LEMMA InsertCounts ==
    ASSUME TypeOK, NEW a \in Assets, NEW s \in Scores, NEW r \in Ids, NEW row \in Row,
           ratings[r] = None, row.rateable_id = a, row.score = s,
           ratings' = [ratings EXCEPT ![r] = row]
    PROVE  /\ Cardinality(RatingsOf(a)') = Cardinality(RatingsOf(a)) + 1
           /\ StarsOf(a)' = StarsOf(a) + s
           /\ \A h \in Assets \ {a} : RatingsOf(h)' = RatingsOf(h) /\ StarsOf(h)' = StarsOf(h)
<1>1. \A i \in Ids : ratings'[i] = IF i = r THEN row ELSE ratings[i]
  BY DEF TypeOK
<1>2. /\ RatingsOf(a)' = RatingsOf(a) \cup {r} /\ r \notin RatingsOf(a)
      /\ \A h \in Assets \ {a} : RatingsOf(h)' = RatingsOf(h)
  BY <1>1, ConstantsAssumption DEF RatingsOf, Rated
<1>3. ASSUME NEW h \in Assets \ {a}
      PROVE  StarsOf(h)' = StarsOf(h)
  <2>1. \A i \in RatingsOf(h) : ratings'[i] = ratings[i]
    BY <1>1, <1>2, ConstantsAssumption DEF RatingsOf, Rated
  <2> QED  BY <2>1, <1>2, StarsSame
<1>4. ASSUME NEW k \in 1..5
      PROVE  AtLeast(a, k)' = AtLeast(a, k) + (IF s >= k THEN 1 ELSE 0)
  <2>1. Level(a, k)' = IF s >= k THEN Level(a, k) \cup {r} ELSE Level(a, k)
    BY <1>1, <1>2 DEF Level, RatingsOf
  <2>2. r \notin Level(a, k)
    BY <1>2 DEF Level
  <2>3. /\ IsFiniteSet(Level(a, k)) /\ Cardinality(Level(a, k)) \in Nat
        /\ s \in Int /\ k \in Int
    BY LevelFinite, ConstantsAssumption DEF ReviewScores
  <2>4. CASE s >= k
    <3>1. Cardinality(Level(a, k) \cup {r}) = Cardinality(Level(a, k)) + 1
      BY <2>2, <2>3, <2>4, FS_AddElement
    <3> QED  BY <3>1, <2>1, <2>4 DEF AtLeast, Level
  <2>5. CASE ~(s >= k)
    <3>1. Level(a, k)' = Level(a, k)
      BY <2>1, <2>5
    <3>2. AtLeast(a, k)' = AtLeast(a, k) /\ AtLeast(a, k) \in Nat
      BY <3>1, <2>3 DEF AtLeast, Level
    <3> QED  BY <3>2, <2>5
  <2> QED  BY <2>4, <2>5
<1>5. \A k \in 1..5 : AtLeast(a, k) \in Nat
  BY LevelFinite DEF AtLeast, Level
<1>6. StarsOf(a)' = StarsOf(a) + s
  <2>1. s \in 1..5
    BY ConstantsAssumption DEF ReviewScores
  <2> QED  BY <1>4, <1>5, <2>1 DEF StarsOf
<1>7. Cardinality(RatingsOf(a)') = Cardinality(RatingsOf(a)) + 1
  BY <1>2, LevelFinite, FS_AddElement
<1> QED  BY <1>2, <1>3, <1>6, <1>7

\* A deleted rating counts one less at each level up to its score.
LEMMA DeleteCounts ==
    ASSUME TypeOK, NEW a \in Assets, NEW s \in Scores, NEW r \in Ids,
           Rated(r), ratings[r].rateable_id = a, ratings[r].score = s,
           ratings' = [ratings EXCEPT ![r] = Gone]
    PROVE  /\ Cardinality(RatingsOf(a)') = Cardinality(RatingsOf(a)) - 1
           /\ Cardinality(RatingsOf(a)) > 0
           /\ StarsOf(a)' = StarsOf(a) - s
           /\ \A h \in Assets \ {a} : RatingsOf(h)' = RatingsOf(h) /\ StarsOf(h)' = StarsOf(h)
<1>1. \A i \in Ids : ratings'[i] = IF i = r THEN Gone ELSE ratings[i]
  BY DEF TypeOK
<1>2. /\ RatingsOf(a)' = RatingsOf(a) \ {r} /\ r \in RatingsOf(a)
      /\ \A h \in Assets \ {a} : RatingsOf(h)' = RatingsOf(h)
  BY <1>1, ConstantsAssumption DEF RatingsOf, Rated
<1>3. ASSUME NEW h \in Assets \ {a}
      PROVE  StarsOf(h)' = StarsOf(h)
  <2>1. \A i \in RatingsOf(h) : ratings'[i] = ratings[i]
    BY <1>1, <1>2, ConstantsAssumption DEF RatingsOf, Rated
  <2> QED  BY <2>1, <1>2, StarsSame
<1>4. ASSUME NEW k \in 1..5
      PROVE  AtLeast(a, k)' = AtLeast(a, k) - (IF s >= k THEN 1 ELSE 0)
  <2>1. Level(a, k)' = IF s >= k THEN Level(a, k) \ {r} ELSE Level(a, k)
    BY <1>1, <1>2 DEF Level, RatingsOf
  <2>2. r \in Level(a, k) <=> s >= k
    BY <1>2 DEF Level
  <2>3. /\ IsFiniteSet(Level(a, k)) /\ Cardinality(Level(a, k)) \in Nat
        /\ s \in Int /\ k \in Int
    BY LevelFinite, ConstantsAssumption DEF ReviewScores
  <2>4. CASE s >= k
    <3>1. Cardinality(Level(a, k) \ {r}) = Cardinality(Level(a, k)) - 1
      BY <2>2, <2>3, <2>4, FS_RemoveElement
    <3> QED  BY <3>1, <2>1, <2>4 DEF AtLeast, Level
  <2>5. CASE ~(s >= k)
    <3>1. Level(a, k)' = Level(a, k)
      BY <2>1, <2>5
    <3>2. AtLeast(a, k)' = AtLeast(a, k) /\ AtLeast(a, k) \in Nat
      BY <3>1, <2>3 DEF AtLeast, Level
    <3> QED  BY <3>2, <2>5
  <2> QED  BY <2>4, <2>5
<1>5. \A k \in 1..5 : AtLeast(a, k) \in Nat
  BY LevelFinite DEF AtLeast, Level
<1>6. StarsOf(a)' = StarsOf(a) - s
  <2>1. s \in 1..5
    BY ConstantsAssumption DEF ReviewScores
  <2> QED  BY <1>4, <1>5, <2>1 DEF StarsOf
<1>7. /\ Cardinality(RatingsOf(a)') = Cardinality(RatingsOf(a)) - 1
      /\ Cardinality(RatingsOf(a)) > 0
  <2>1. Cardinality(RatingsOf(a) \ {r}) = Cardinality(RatingsOf(a)) - 1
    BY <1>2, LevelFinite, FS_RemoveElement
  <2>2. Cardinality(RatingsOf(a) \ {r}) \in Nat /\ Cardinality(RatingsOf(a)) \in Nat
    BY LevelFinite, FS_RemoveElement, FS_CardinalityType
  <2> QED  BY <1>2, <2>1, <2>2
<1> QED  BY <1>2, <1>3, <1>6, <1>7

-----------------------------------------------------------------------------
(***************************************************************************)
(* Steps.                                                                  *)
(***************************************************************************)
\* An idle request is well formed and knows nothing.
LEMMA IdleKnows ==
    ASSUME NEW u \in Users
    PROVE  Idle \in Request /\ Knows(Idle, u)
  BY DEF Idle, Request, Knows, Holding

\* The invariant holds initially.
LEMMA InitIInv == Init => IInv
<1> SUFFICES ASSUME Init PROVE IInv
  OBVIOUS
<1>1. \A r \in Ids : ~Rated(r)
  BY DEF Init, Rated
<1>2. \A a \in Assets : RatingsOf(a) = {}
  BY <1>1 DEF RatingsOf
<1>3. TypeOK
  BY IdleKnows DEF Init, TypeOK, Totals
<1>4. AggregatesExact
  <2> SUFFICES ASSUME NEW h \in Hotels PROVE
        Cardinality(RatingsOf(h)) = 0 /\ StarsOf(h) = 0
    BY DEF AggregatesExact, Init, Assets
  <2>1. \A k \in 1..5 : {r \in RatingsOf(h) : ratings[r].score >= k} = {}
    BY <1>2 DEF Assets
  <2>2. Cardinality({}) = 0
    BY FS_EmptySet
  <2>3. \A k \in 1..5 : AtLeast(h, k) = 0
    BY <2>1, <2>2 DEF AtLeast
  <2>4. StarsOf(h) = 0
    BY <2>3 DEF StarsOf
  <2> QED  BY <2>2, <2>4, <1>2 DEF Assets
<1>5. InFlight /\ Unlinked
  BY <1>1, IdleKnows DEF Init, InFlight, Unlinked
<1> QED  BY <1>3, <1>4, <1>5 DEF IInv

\* A step that commits nothing keeps the invariant when the request it leaves
\* knows what it should.
LEMMA QuietStep ==
    ASSUME IInv, NEW u \in Users, NEW q \in Request, Knows(q, u),
           req' = [req EXCEPT ![u] = q], UNCHANGED <<assets, ratings, drifted>>
    PROVE  IInv'
<1>1. TypeOK'
  BY DEF IInv, TypeOK
<1>2. AggregatesExact' /\ Unlinked'
  BY DEF IInv, AggregatesExact, Unlinked, RatingsOf, Rated, StarsOf, AtLeast
<1>3. \A v \in Users : req'[v] = IF v = u THEN q ELSE req[v]
  BY DEF IInv, TypeOK
<1>4. InFlight'
  <2> SUFFICES ASSUME NEW v \in Users PROVE Knows(req[v], v)'
    BY DEF InFlight
  <2>1. Knows(req'[v], v)
    BY <1>3 DEF IInv, InFlight
  <2> QED  BY <2>1 DEF Knows, Rated
<1> QED  BY <1>1, <1>2, <1>4 DEF IInv

\* Loading an asset to rate it.
LEMMA BeginRateKeeps ==
    ASSUME IInv, NEW u \in Users, NEW a \in Assets, NEW s \in Scores, BeginRate(u, a, s)
    PROVE  IInv'
<1> DEFINE q == [pc |-> "rate", asset |-> a, rating |-> None, score |-> s,
                 copy |-> assets[a], found |-> {}, overtaken |-> FALSE]
<1>1. assets[a] \in Totals
  BY DEF IInv, TypeOK, BeginRate
<1>2. q \in Request /\ Knows(q, u)
  BY <1>1 DEF Request, Knows, Holding
<1> QED  BY <1>2, QuietStep DEF BeginRate

\* Loading a rating to delete it.
LEMMA BeginDeleteKeeps ==
    ASSUME IInv, NEW u \in Users, NEW r \in Ids, BeginDelete(u, r)
    PROVE  IInv'
<1> DEFINE q == [pc |-> IF ratings[r].linked THEN "load" ELSE "find",
                 asset |-> ratings[r].rateable_id, rating |-> r,
                 score |-> ratings[r].score,
                 copy |-> None, found |-> {}, overtaken |-> FALSE]
<1>1. ratings[r] \in Row /\ ratings[r] # None /\ Rated(r) /\ ratings[r].commenter_id = u
  BY DEF IInv, TypeOK, BeginDelete, Rated
<1>2. q \in Request
  BY <1>1 DEF Request, Row
<1>3. ~ratings[r].linked => assets[ratings[r].rateable_id] = None
  BY <1>1 DEF IInv, Unlinked
<1>4. Knows(q, u)
  BY <1>1, <1>3 DEF Knows, Holding, Row
<1> QED  BY <1>2, <1>4, QuietStep DEF BeginDelete

\* Loading the asset with the rating.
LEMMA LoadAssetKeeps ==
    ASSUME IInv, NEW u \in Users, LoadAsset(u)
    PROVE  IInv'
<1> DEFINE q == [pc |-> "find", asset |-> req[u].asset, rating |-> req[u].rating,
                 score |-> req[u].score, copy |-> assets[req[u].asset],
                 found |-> {}, overtaken |-> req[u].overtaken]
<1>1. req[u] \in Request /\ Knows(req[u], u) /\ req[u].pc = "load"
  BY DEF IInv, TypeOK, InFlight, LoadAsset
<1>2. req[u].asset \in Assets /\ assets[req[u].asset] \in Totals \cup {None}
  BY <1>1 DEF Knows, IInv, TypeOK
<1>3. q \in Request
  BY <1>1, <1>2 DEF Request
<1>4. Knows(q, u)
  BY <1>1, <1>2 DEF Knows, Holding
<1> QED  BY <1>3, <1>4, QuietStep DEF LoadAsset

\* Looking for the asset again.
LEMMA FindAssetKeeps ==
    ASSUME IInv, NEW u \in Users, FindAsset(u)
    PROVE  IInv'
<1> DEFINE q == [pc |-> "delete", asset |-> req[u].asset, rating |-> req[u].rating,
                 score |-> req[u].score,
                 copy |-> IF assets[req[u].asset] = None THEN None ELSE req[u].copy,
                 found |-> {}, overtaken |-> req[u].overtaken]
<1>1. req[u] \in Request /\ Knows(req[u], u) /\ req[u].pc = "find"
  BY DEF IInv, TypeOK, InFlight, FindAsset
<1>2. q \in Request
  BY <1>1 DEF Request
<1>3. Knows(q, u)
  BY <1>1 DEF Knows, Holding
<1> QED  BY <1>2, <1>3, QuietStep DEF FindAsset

\* Looking for the ratings of an asset to be deleted.
LEMMA BeginDropKeeps ==
    ASSUME IInv, NEW u \in Users, NEW a \in Assets, BeginDrop(u, a)
    PROVE  IInv'
<1> DEFINE q == [pc |-> "drop", asset |-> a, rating |-> None, score |-> None,
                 copy |-> None, found |-> Linked(a), overtaken |-> FALSE]
<1>1. q \in Request
  BY DEF Request, Linked, RatingsOf
<1>2. \A r \in Linked(a) : ratings[r] # None /\ ratings[r].rateable_id = a
  BY DEF Linked, RatingsOf, Rated
<1>3. Knows(q, u)
  BY <1>2 DEF Knows, Holding
<1> QED  BY <1>1, <1>3, QuietStep DEF BeginDrop

\* A request that ends without effect.
LEMMA FailKeeps ==
    ASSUME IInv, NEW u \in Users, Fail(u)
    PROVE  IInv'
  BY IdleKnows, QuietStep DEF Fail, Refuse

\* After a commit, the other requests are as they were or know to be overtaken.
LEMMA AfterCommit ==
    ASSUME IInv, NEW u \in Users, NEW a, NEW r, Commit(u, a, r)
    PROVE  /\ req' \in [Users -> Request] /\ req'[u] = Idle
           /\ \A v \in Users \ {u} :
                 /\ req'[v].pc = req[v].pc /\ req'[v].asset = req[v].asset
                 /\ req'[v].rating = req[v].rating /\ req'[v].score = req[v].score
                 /\ req'[v].copy = req[v].copy /\ req'[v].found = req[v].found
                 /\ req'[v].overtaken <=> req[v].overtaken \/ Outdated(req[v], a, r)
           /\ drifted' \subseteq Hotels /\ drifted \subseteq drifted'
           /\ req[u].overtaken /\ a \in Hotels => a \in drifted'
<1>1. req \in [Users -> Request] /\ drifted \subseteq Hotels
  BY DEF IInv, TypeOK
<1>2. \A v \in Users : Overtaken(req[v]) \in Request
  BY <1>1 DEF Overtaken, Request
<1>3. req' \in [Users -> Request] /\ req'[u] = Idle
  BY <1>1, <1>2, IdleKnows DEF Commit
<1>4. ASSUME NEW v \in Users \ {u}
      PROVE  /\ req'[v].pc = req[v].pc /\ req'[v].asset = req[v].asset
             /\ req'[v].rating = req[v].rating /\ req'[v].score = req[v].score
             /\ req'[v].copy = req[v].copy /\ req'[v].found = req[v].found
             /\ req'[v].overtaken <=> req[v].overtaken \/ Outdated(req[v], a, r)
  <2>1. req[v].overtaken \in BOOLEAN
    BY <1>1 DEF Request
  <2>2. req'[v] = IF Outdated(req[v], a, r) THEN Overtaken(req[v]) ELSE req[v]
    BY DEF Commit
  <2>3. CASE Outdated(req[v], a, r)
    BY <2>1, <2>2, <2>3 DEF Overtaken
  <2>4. CASE ~Outdated(req[v], a, r)
    BY <2>1, <2>2, <2>4
  <2> QED  BY <2>3, <2>4
<1>5. /\ drifted' \subseteq Hotels /\ drifted \subseteq drifted'
      /\ req[u].overtaken /\ a \in Hotels => a \in drifted'
  BY <1>1 DEF Commit
<1> QED  BY <1>3, <1>4, <1>5

\* What the other requests know survives a commit to the asset a and the rating r
\* when only these change.
LEMMA OthersKnow ==
    ASSUME IInv, NEW u \in Users, NEW a \in Assets, NEW r, Commit(u, a, r),
           \A b \in Assets \ {a} : assets'[b] = assets[b],
           assets[a] = None => assets'[a] = None,
           assets[a] # None => assets'[a] # None,
           \A i \in Ids : ratings[i] # None =>
               \/ ratings'[i] = ratings[i]
               \/ i = r /\ ratings'[i] = Gone
    PROVE  InFlight'
<1> SUFFICES ASSUME NEW v \in Users PROVE Knows(req[v], v)'
  BY DEF InFlight
<1>1. CASE v = u
  BY <1>1, AfterCommit DEF Knows, Idle, Holding
<1>2. CASE v # u
  <2> DEFINE q == req'[v]
  <2>1. /\ q.pc = req[v].pc /\ q.asset = req[v].asset
        /\ q.rating = req[v].rating /\ q.score = req[v].score
        /\ q.copy = req[v].copy /\ q.found = req[v].found
        /\ q.overtaken <=> req[v].overtaken \/ Outdated(req[v], a, r)
    BY <1>2, AfterCommit
  <2>2. Knows(req[v], v) /\ req[v] \in Request
    BY DEF IInv, InFlight, TypeOK
  <2>4. CASE q.pc = "rate"
    BY <2>1, <2>2, <2>4 DEF Knows, Holding, Outdated
  <2>5. CASE q.pc = "load"
    <3>1. ratings'[q.rating] # None
      BY <2>1, <2>2, <2>5, ConstantsAssumption DEF Knows
    <3> QED  BY <3>1, <2>1, <2>2, <2>5 DEF Knows, Holding, Outdated, Rated
  <2>6. CASE q.pc \in {"find", "delete"}
    <3>1. ratings'[q.rating] # None
      BY <2>1, <2>2, <2>6, ConstantsAssumption DEF Knows
    <3> QED  BY <3>1, <2>1, <2>2, <2>6 DEF Knows, Holding, Outdated, Rated
  <2>7. CASE q.pc = "drop"
    <3>1. q.found \subseteq Ids
      BY <2>1, <2>2 DEF Request
    <3>2. \A i \in q.found : ratings[i] # None /\ (Rated(i) => ratings[i].rateable_id = q.asset)
      BY <2>1, <2>2, <2>7 DEF Knows
    <3>3. \A i \in q.found : ratings'[i] # None /\ (Rated(i)' => ratings'[i].rateable_id = q.asset)
      BY <3>1, <3>2, ConstantsAssumption DEF Rated
    <3>4. q.asset \in Assets
      BY <2>1, <2>2, <2>7 DEF Knows
    <3> QED  BY <3>3, <3>4, <2>7 DEF Knows, Holding
  <2> QED  BY <2>1, <2>2, <2>4, <2>5, <2>6, <2>7 DEF Request, Knows, Holding
<1> QED  BY <1>1, <1>2

\* Aggregates stay exact when the asset a alone changes, and exactly so unless it
\* has drifted.
LEMMA OthersExact ==
    ASSUME IInv, NEW a \in Assets, drifted \subseteq drifted',
           \A b \in Assets \ {a} : assets'[b] = assets[b],
           \A h \in Assets \ {a} : RatingsOf(h)' = RatingsOf(h) /\ StarsOf(h)' = StarsOf(h),
           a \in Hotels /\ assets'[a] # None /\ a \notin drifted' =>
              /\ assets'[a].total_ratings = Cardinality(RatingsOf(a)')
              /\ assets'[a].total_stars = StarsOf(a)'
    PROVE  AggregatesExact'
<1> SUFFICES ASSUME NEW h \in Hotels, assets'[h] # None, h \notin drifted'
             PROVE  /\ assets'[h].total_ratings = Cardinality(RatingsOf(h)')
                    /\ assets'[h].total_stars = StarsOf(h)'
  BY DEF AggregatesExact
<1>1. CASE h = a
  BY <1>1
<1>2. CASE h # a
  <2>1. h \in Assets \ {a} /\ h \notin drifted
    BY <1>2 DEF Assets
  <2> QED  BY <2>1 DEF IInv, AggregatesExact
<1> QED  BY <1>1, <1>2

\* A rating is inserted and counted.
LEMMA CommitRateKeeps ==
    ASSUME IInv, NEW u \in Users, CommitRate(u)
    PROVE  IInv'
<1>0. PICK a \in Assets, s \in Scores, c \in Totals :
         a = req[u].asset /\ s = req[u].score /\ c = req[u].copy
  BY DEF IInv, InFlight, Knows, CommitRate
<1>1. /\ req[u].pc = "rate" /\ a \in Assets /\ s \in Scores /\ c \in Totals
      /\ assets[a] # None
      /\ ~req[u].overtaken => c = assets[a]
      /\ Commit(u, a, None)
  BY <1>0 DEF IInv, InFlight, Knows, CommitRate
<1>2. PICK r \in Ids : ratings[r] = None /\ ratings' = [ratings EXCEPT ![r] =
                   [rateable_id |-> a, score |-> s, commenter_id |-> u, linked |-> TRUE]]
  BY <1>0 DEF CommitRate
<1> DEFINE row == [rateable_id |-> a, score |-> s, commenter_id |-> u, linked |-> TRUE]
<1>3. row \in Row /\ row.rateable_id = a /\ row.score = s /\ row.linked
  BY <1>1 DEF Row
<1>4. s \in 1..5 /\ Add(c, s) \in Totals
  <2>1. s \in 1..5 /\ c.total_ratings \in Nat /\ c.total_stars \in Int
    BY ConstantsAssumption DEF Totals, ReviewScores
  <2> QED  BY <2>1 DEF Totals, Add
<1>5. assets' = IF a \in Hotels THEN [assets EXCEPT ![a] = Add(c, s)] ELSE assets
  BY <1>0 DEF CommitRate, HasTotals
<1>6. /\ assets' \in [Assets -> Totals \cup {None}]
      /\ \A b \in Assets \ {a} : assets'[b] = assets[b]
      /\ assets'[a] # None
      /\ a \in Hotels => assets'[a] = Add(c, s)
  BY <1>1, <1>4, <1>5, ConstantsAssumption DEF IInv, TypeOK
<1>7. /\ Cardinality(RatingsOf(a)') = Cardinality(RatingsOf(a)) + 1
      /\ StarsOf(a)' = StarsOf(a) + s
      /\ \A h \in Assets \ {a} : RatingsOf(h)' = RatingsOf(h) /\ StarsOf(h)' = StarsOf(h)
  <2>1. TypeOK
    BY DEF IInv
  <2> HIDE DEF row
  <2> QED  BY <1>1, <1>2, <1>3, <2>1, InsertCounts DEF row
<1>8. drifted \subseteq drifted' /\ drifted' \subseteq Hotels
      /\ (req[u].overtaken /\ a \in Hotels => a \in drifted')
      /\ req' \in [Users -> Request]
  BY <1>1, AfterCommit
<1>9. ratings' \in [Ids -> Row \cup {None, Gone}]
  BY <1>2, <1>3 DEF IInv, TypeOK
<1>10. TypeOK'
  BY <1>6, <1>8, <1>9 DEF TypeOK
<1>11. a \in Hotels /\ a \notin drifted' =>
          /\ assets'[a].total_ratings = Cardinality(RatingsOf(a)')
          /\ assets'[a].total_stars = StarsOf(a)'
  <2> SUFFICES ASSUME a \in Hotels, a \notin drifted'
               PROVE  /\ assets'[a].total_ratings = Cardinality(RatingsOf(a)')
                      /\ assets'[a].total_stars = StarsOf(a)'
    OBVIOUS
  <2>1. c = assets[a] /\ a \notin drifted
    BY <1>1, <1>8
  <2>2. c.total_ratings = Cardinality(RatingsOf(a)) /\ c.total_stars = StarsOf(a)
    BY <2>1, <1>1 DEF IInv, AggregatesExact
  <2>3. assets'[a].total_ratings = c.total_ratings + 1 /\ assets'[a].total_stars = c.total_stars + s
    BY <1>6 DEF Add
  <2> QED  BY <2>2, <2>3, <1>7
<1>12. AggregatesExact'
  BY <1>1, <1>6, <1>7, <1>8, <1>11, OthersExact
<1>13. InFlight'
  <2>1. \A i \in Ids : ratings[i] # None => ratings'[i] = ratings[i]
    BY <1>2 DEF IInv, TypeOK
  <2> QED  BY <1>1, <1>6, <2>1, OthersKnow
<1>14. Unlinked'
  <2> SUFFICES ASSUME NEW i \in Ids, Rated(i)', ~ratings'[i].linked
               PROVE  assets'[ratings'[i].rateable_id] = None
    BY DEF Unlinked
  <2>1. i # r
    BY <1>2, <1>3 DEF IInv, TypeOK
  <2>2. ratings'[i] = ratings[i] /\ Rated(i)
    BY <1>2, <2>1 DEF IInv, TypeOK, Rated
  <2>3. assets[ratings[i].rateable_id] = None /\ ratings[i].rateable_id \in Assets
    BY <2>2 DEF IInv, Unlinked, TypeOK, Rated, Row
  <2> QED  BY <2>2, <2>3, <1>1, <1>6
<1> QED  BY <1>10, <1>12, <1>13, <1>14 DEF IInv

\* A rating is deleted and counted out.
LEMMA CommitDeleteKeeps ==
    ASSUME IInv, NEW u \in Users, CommitDelete(u)
    PROVE  IInv'
<1>0. PICK a \in Assets, s \in Scores, r \in Ids, c \in Totals \cup {None} :
         /\ a = req[u].asset /\ s = req[u].score
         /\ r = req[u].rating /\ c = req[u].copy
  BY DEF IInv, InFlight, Knows, CommitDelete, TypeOK, Request
<1> DEFINE counted == c # None /\ HasTotals(a)
<1>1. /\ req[u].pc = "delete" /\ a \in Assets /\ s \in Scores /\ r \in Ids
      /\ c \in Totals \cup {None}
      /\ ratings[r] # None
      /\ Rated(r) => ratings[r].rateable_id = a /\ ratings[r].score = s
      /\ ~req[u].overtaken => Rated(r) \/ assets[a] = None
      /\ c = None => assets[a] = None
      /\ ~req[u].overtaken /\ assets[a] # None => c = assets[a]
      /\ Commit(u, a, r)
  BY <1>0 DEF IInv, InFlight, Knows, CommitDelete, Holding
<1>2. ratings' = [ratings EXCEPT ![r] = Gone]
  BY <1>0 DEF CommitDelete
<1>3. s \in 1..5 /\ (c # None => c.total_ratings \in Nat /\ c.total_stars \in Int)
  BY <1>1, ConstantsAssumption DEF Totals, ReviewScores
<1>4. \/ counted /\ assets[a] # None
         /\ assets' = [assets EXCEPT ![a] = Subtract(c, s, assets[a])]
      \/ ~counted /\ assets' = assets
  BY <1>0 DEF CommitDelete
<1>5. assets[a] # None /\ c # None => Subtract(c, s, assets[a]) \in Totals
  <2> SUFFICES ASSUME assets[a] # None, c # None PROVE Subtract(c, s, assets[a]) \in Totals
    OBVIOUS
  <2>1. assets[a].total_ratings \in Nat
    BY <1>1 DEF IInv, TypeOK, Totals
  <2>2. (IF c.total_ratings > 0 THEN c.total_ratings - 1 ELSE assets[a].total_ratings) \in Nat
    BY <2>1, <1>3
  <2>3. c.total_stars - s \in Int
    BY <1>3
  <2> QED  BY <2>2, <2>3 DEF Subtract, Totals
<1>6. /\ assets' \in [Assets -> Totals \cup {None}]
      /\ \A b \in Assets \ {a} : assets'[b] = assets[b]
      /\ assets'[a] = None <=> assets[a] = None
      /\ counted /\ assets[a] # None => assets'[a] = Subtract(c, s, assets[a])
  BY <1>1, <1>4, <1>5, ConstantsAssumption DEF IInv, TypeOK
<1>7. drifted \subseteq drifted' /\ drifted' \subseteq Hotels
      /\ (req[u].overtaken /\ a \in Hotels => a \in drifted')
      /\ req' \in [Users -> Request]
  BY <1>1, AfterCommit
<1>8. TypeOK'
  <2>1. ratings' \in [Ids -> Row \cup {None, Gone}]
    BY <1>2 DEF IInv, TypeOK
  <2> QED  BY <1>6, <1>7, <2>1 DEF TypeOK
<1>11. AggregatesExact'
  <2>1. CASE Rated(r)
    <3>1. /\ Cardinality(RatingsOf(a)') = Cardinality(RatingsOf(a)) - 1
          /\ Cardinality(RatingsOf(a)) > 0
          /\ StarsOf(a)' = StarsOf(a) - s
          /\ \A h \in Assets \ {a} : RatingsOf(h)' = RatingsOf(h) /\ StarsOf(h)' = StarsOf(h)
      <4>1. TypeOK
        BY DEF IInv
      <4> QED  BY <1>1, <1>2, <2>1, <4>1, DeleteCounts
    <3>2. a \in Hotels /\ assets'[a] # None /\ a \notin drifted' =>
            /\ assets'[a].total_ratings = Cardinality(RatingsOf(a)')
            /\ assets'[a].total_stars = StarsOf(a)'
      <4> SUFFICES ASSUME a \in Hotels, assets'[a] # None, a \notin drifted'
                   PROVE  /\ assets'[a].total_ratings = Cardinality(RatingsOf(a)')
                          /\ assets'[a].total_stars = StarsOf(a)'
        OBVIOUS
      <4>1. c = assets[a] /\ a \notin drifted /\ assets[a] # None /\ counted
        BY <1>1, <1>6, <1>7 DEF HasTotals
      <4>2. c.total_ratings = Cardinality(RatingsOf(a)) /\ c.total_stars = StarsOf(a)
        BY <4>1, <1>1 DEF IInv, AggregatesExact
      <4>3. /\ assets'[a].total_ratings = c.total_ratings - 1
            /\ assets'[a].total_stars = c.total_stars - s
        BY <4>1, <4>2, <3>1, <1>6 DEF Subtract
      <4> QED  BY <4>2, <4>3, <3>1
    <3> QED  BY <1>1, <1>6, <1>7, <3>1, <3>2, OthersExact
  <2>2. CASE ~Rated(r)
    <3>1. ratings' = ratings
      BY <1>1, <1>2, <2>2 DEF Rated, IInv, TypeOK
    <3>2. \A h : RatingsOf(h)' = RatingsOf(h) /\ StarsOf(h)' = StarsOf(h)
      BY <3>1 DEF RatingsOf, StarsOf, AtLeast, Rated
    <3>3. a \in Hotels /\ assets'[a] # None => a \in drifted'
      BY <1>1, <1>6, <1>7, <2>2
    <3> QED  BY <1>1, <1>6, <1>7, <3>2, <3>3, OthersExact
  <2> QED  BY <2>1, <2>2
<1>12. \A i \in Ids : i # r => ratings'[i] = ratings[i]
  BY <1>2 DEF IInv, TypeOK
<1>13. ratings'[r] = Gone
  BY <1>1, <1>2 DEF IInv, TypeOK
<1>14. InFlight'
  BY <1>1, <1>6, <1>12, <1>13, OthersKnow
<1>15. Unlinked'
  <2> SUFFICES ASSUME NEW i \in Ids, Rated(i)', ~ratings'[i].linked
               PROVE  assets'[ratings'[i].rateable_id] = None
    BY DEF Unlinked
  <2>1. ratings'[i] = ratings[i] /\ Rated(i)
    BY <1>12, <1>13 DEF Rated
  <2>2. assets[ratings[i].rateable_id] = None /\ ratings[i].rateable_id \in Assets
    BY <2>1 DEF IInv, Unlinked, TypeOK, Rated, Row
  <2> QED  BY <2>1, <2>2, <1>1, <1>6
<1> QED  BY <1>8, <1>11, <1>14, <1>15 DEF IInv

\* An asset is deleted, and the ratings that were found are unlinked.
LEMMA CommitDropKeeps ==
    ASSUME IInv, NEW u \in Users, CommitDrop(u)
    PROVE  IInv'
<1>0. PICK a \in Assets, F \in SUBSET Ids :
         /\ a = req[u].asset /\ F = req[u].found
         /\ \A r \in F : Rated(r) /\ ratings[r].rateable_id = a
  BY DEF IInv, InFlight, Knows, CommitDrop, TypeOK, Request
<1> DEFINE Unlink(r) == [rateable_id |-> ratings[r].rateable_id, score |-> ratings[r].score,
                         commenter_id |-> ratings[r].commenter_id, linked |-> FALSE]
<1>1. /\ assets' = [assets EXCEPT ![a] = None]
      /\ ratings' = [r \in Ids |-> IF r \in F THEN Unlink(r)
                                   ELSE IF r \in Linked(a) THEN Gone ELSE ratings[r]]
      /\ req' = [req EXCEPT ![u] = Idle] /\ drifted' = drifted
  BY <1>0 DEF CommitDrop
<1>2. \A r \in F : Unlink(r) \in Row
  BY <1>0 DEF IInv, TypeOK, Rated, Row
<1>3. TypeOK'
  BY <1>1, <1>2, IdleKnows DEF IInv, TypeOK
<1>4. /\ \A b \in Assets \ {a} : assets'[b] = assets[b]
      /\ assets'[a] = None
  BY <1>1 DEF IInv, TypeOK
<1>5. ASSUME NEW i \in Ids
      PROVE  /\ Rated(i)' => /\ Rated(i) /\ ratings'[i].rateable_id = ratings[i].rateable_id
                              /\ ratings'[i].score = ratings[i].score
                              /\ ratings'[i].commenter_id = ratings[i].commenter_id
             /\ ratings[i] # None => ratings'[i] # None
             /\ Rated(i) /\ ~Rated(i)' => ratings[i].rateable_id = a
             /\ Rated(i)' /\ ratings[i].rateable_id # a => ratings'[i] = ratings[i]
             /\ Rated(i)' /\ i \notin F => ratings'[i] = ratings[i] /\ i \notin Linked(a)
  <2>1. CASE i \in F
    BY <1>0, <1>1, <1>2, <2>1, ConstantsAssumption DEF Rated
  <2>2. CASE i \notin F /\ i \in Linked(a)
    BY <1>1, <2>2, ConstantsAssumption DEF Rated, Linked, RatingsOf
  <2>3. CASE i \notin F /\ i \notin Linked(a)
    BY <1>1, <2>3 DEF Rated
  <2> QED  BY <2>1, <2>2, <2>3
<1>6. AggregatesExact'
  <2>1. ASSUME NEW h \in Assets \ {a}
        PROVE  RatingsOf(h)' = RatingsOf(h) /\ StarsOf(h)' = StarsOf(h)
    <3>1. RatingsOf(h)' = RatingsOf(h)
      BY <1>5 DEF RatingsOf
    <3>2. \A i \in RatingsOf(h) : ratings'[i] = ratings[i]
      BY <1>5, <3>1 DEF RatingsOf
    <3>3. \A k \in 1..5 : AtLeast(h, k)' = AtLeast(h, k)
      <4> SUFFICES ASSUME NEW k \in 1..5 PROVE Level(h, k)' = Level(h, k)
        BY DEF AtLeast, Level
      <4> QED  BY <3>1, <3>2 DEF Level
    <3> QED  BY <3>1, <3>3 DEF StarsOf
  <2> QED  BY <1>1, <1>4, <2>1, OthersExact
<1>7. InFlight'
  <2> SUFFICES ASSUME NEW v \in Users PROVE Knows(req[v], v)'
    BY DEF InFlight
  <2>1. CASE v = u
    <3>1. req'[v] = Idle
      BY <1>1, <2>1 DEF IInv, TypeOK
    <3> QED  BY <3>1 DEF Knows, Idle, Holding
  <2>2. CASE v # u
    <3>1. PICK q \in Request : q = req[v] /\ req'[v] = q /\ Knows(q, v)
      BY <1>1, <2>2 DEF IInv, TypeOK, InFlight
    <3>2. CASE q.pc = "rate"
      BY <1>4, <3>1, <3>2, ConstantsAssumption DEF Knows, Holding, Totals
    <3>3. CASE q.pc \in {"load", "find", "delete"}
      <4>1. /\ q.asset \in Assets /\ q.rating \in Ids /\ ratings[q.rating] # None
            /\ Rated(q.rating) => ratings[q.rating].rateable_id = q.asset
        BY <3>1, <3>3 DEF Knows
      <4>2. /\ ratings'[q.rating] # None
            /\ Rated(q.rating)' => /\ Rated(q.rating)
                                   /\ ratings'[q.rating].rateable_id = ratings[q.rating].rateable_id
                                   /\ ratings'[q.rating].score = ratings[q.rating].score
                                   /\ ratings'[q.rating].commenter_id = ratings[q.rating].commenter_id
            /\ Rated(q.rating) => Rated(q.rating)' \/ q.asset = a
        BY <4>1, <1>5
      <4>3. assets'[q.asset] # None => assets'[q.asset] = assets[q.asset] /\ q.asset # a
        BY <1>4, <4>1
      <4>4. assets[q.asset] = None => assets'[q.asset] = None
        BY <1>4, <4>1
      <4> QED  BY <3>1, <3>3, <4>1, <4>2, <4>3, <4>4, <1>4 DEF Knows, Holding
    <3>4. CASE q.pc = "drop"
      <4>1. /\ q.asset \in Assets /\ q.found \subseteq Ids
            /\ \A i \in q.found : ratings[i] # None /\ (Rated(i) => ratings[i].rateable_id = q.asset)
        BY <3>1, <3>4 DEF Knows, Request
      <4>2. \A i \in q.found : ratings'[i] # None /\ (Rated(i)' => ratings'[i].rateable_id = q.asset)
        BY <4>1, <1>5
      <4> QED  BY <3>1, <3>4, <4>1, <4>2 DEF Knows, Holding
    <3> QED  BY <3>1, <3>2, <3>3, <3>4 DEF Request, Knows, Holding
  <2> QED  BY <2>1, <2>2
<1>8. Unlinked'
  <2> SUFFICES ASSUME NEW i \in Ids, Rated(i)', ~ratings'[i].linked
               PROVE  assets'[ratings'[i].rateable_id] = None
    BY DEF Unlinked
  <2>1. Rated(i) /\ ratings'[i].rateable_id = ratings[i].rateable_id
        /\ ratings[i].rateable_id \in Assets
    BY <1>5 DEF IInv, TypeOK, Rated, Row
  <2>2. CASE ratings[i].rateable_id = a
    BY <2>1, <2>2, <1>4
  <2>3. CASE ratings[i].rateable_id # a
    BY <2>1, <2>3, <1>4, <1>5 DEF IInv, Unlinked
  <2> QED  BY <2>2, <2>3
<1> QED  BY <1>3, <1>6, <1>7, <1>8 DEF IInv

-----------------------------------------------------------------------------
(***************************************************************************)
(* The theorems.                                                           *)
(***************************************************************************)
\* Every step keeps the invariant.
LEMMA NextIInv == IInv /\ [Next]_vars => IInv'
<1> SUFFICES ASSUME IInv, [Next]_vars PROVE IInv'
  OBVIOUS
<1>1. CASE UNCHANGED vars
  <2>0. UNCHANGED <<assets, ratings, req, drifted>>
    BY <1>1 DEF vars
  <2>1. TypeOK' /\ Unlinked' /\ AggregatesExact'
    <3>1. TypeOK' /\ Unlinked'
      BY <2>0 DEF IInv, TypeOK, Unlinked, Rated
    <3>2. AggregatesExact'
      BY <2>0 DEF IInv, AggregatesExact, RatingsOf, Rated, StarsOf, AtLeast
    <3> QED  BY <3>1, <3>2
  <2>2. InFlight'
    <3> SUFFICES ASSUME NEW v \in Users PROVE Knows(req[v], v)'
      BY DEF InFlight
    <3>1. Knows(req[v], v)
      BY DEF IInv, InFlight
    <3> QED  BY <1>1, <3>1 DEF vars, Knows, Rated
  <2> QED  BY <2>1, <2>2 DEF IInv
<1>2. ASSUME NEW u \in Users, NEW a \in Assets, NEW s \in Scores, BeginRate(u, a, s)
      PROVE  IInv'
  BY <1>2, BeginRateKeeps
<1>3. ASSUME NEW u \in Users, NEW r \in Ids, BeginDelete(u, r)
      PROVE  IInv'
  BY <1>3, BeginDeleteKeeps
<1>4. ASSUME NEW u \in Users, NEW a \in Assets, BeginDrop(u, a)
      PROVE  IInv'
  BY <1>4, BeginDropKeeps
<1>5. ASSUME NEW u \in Users,
             CommitRate(u) \/ LoadAsset(u) \/ FindAsset(u) \/ CommitDelete(u)
                \/ CommitDrop(u) \/ Fail(u)
      PROVE  IInv'
  BY <1>5, CommitRateKeeps, LoadAssetKeeps, FindAssetKeeps, CommitDeleteKeeps,
     CommitDropKeeps, FailKeeps
<1> QED  BY <1>1, <1>2, <1>3, <1>4, <1>5 DEF Next

\* Every reachable state satisfies the invariant.
THEOREM RatingsInvariant == Spec => []IInv
<1> QED  BY InitIInv, NextIInv, PTL DEF Spec

\* Every reachable state is well typed: total_ratings is never negative.
THEOREM RatingsTypeCorrect == Spec => []TypeOK
<1>1. IInv => TypeOK
  BY DEF IInv
<1> QED  BY <1>1, RatingsInvariant, PTL

\* The aggregates of a hotel are its ratings' number and sum until a commit of a
\* request that another has overtaken.
THEOREM AggregatesStayExact == Spec => []AggregatesExact
<1>1. IInv => AggregatesExact
  BY DEF IInv
<1> QED  BY <1>1, RatingsInvariant, PTL

\* Ratings go by their commenter's request, or with an asset that was being deleted
\* before they were committed.
THEOREM RatingsGoWithTheirOwner == Spec => RatingsGoByOwner
<1> DEFINE Goes(r) ==
        \E u \in Users :
             \/ /\ req[u].pc = "delete" /\ req[u].rating = r
                /\ ratings[r].commenter_id = u
             \/ /\ req[u].pc = "drop" /\ req[u].asset = ratings[r].rateable_id
                /\ r \notin req[u].found
<1>1. ASSUME IInv, [Next]_vars, NEW r \in Ids, Rated(r), ~Rated(r)'
      PROVE  Goes(r)
  <2>1. ratings' # ratings
    BY <1>1 DEF Rated
  <2>2. PICK u \in Users : CommitRate(u) \/ CommitDelete(u) \/ CommitDrop(u)
    BY <1>1, <2>1 DEF Next, vars, BeginRate, BeginDelete, LoadAsset, FindAsset, BeginDrop,
                      Fail, Refuse
  <2>3. ~CommitRate(u)
    <3> SUFFICES ASSUME CommitRate(u) PROVE FALSE
      OBVIOUS
    <3>1. PICK i \in Ids : ratings[i] = None /\ \A j \in Ids \ {i} : ratings'[j] = ratings[j]
      BY <1>1 DEF CommitRate, IInv, TypeOK
    <3>2. i # r /\ ratings'[r] = ratings[r]
      BY <1>1, <3>1 DEF Rated
    <3> QED  BY <1>1, <3>2 DEF Rated
  <2>4. CASE CommitDelete(u)
    <3>1. req[u].pc = "delete" /\ Knows(req[u], u)
      BY <2>4, <1>1 DEF CommitDelete, IInv, InFlight
    <3>2. ratings' = [ratings EXCEPT ![req[u].rating] = Gone]
      BY <2>4 DEF CommitDelete
    <3>3. req[u].rating = r
      BY <1>1, <3>2 DEF IInv, TypeOK, Rated
    <3> QED  BY <1>1, <3>1, <3>3 DEF Knows
  <2>5. CASE CommitDrop(u)
    <3>1. req[u].pc = "drop" /\ ratings' = [i \in Ids |->
                IF i \in req[u].found
                THEN [rateable_id |-> ratings[i].rateable_id, score |-> ratings[i].score,
                      commenter_id |-> ratings[i].commenter_id, linked |-> FALSE]
                ELSE IF i \in Linked(req[u].asset) THEN Gone
                ELSE ratings[i]]
      BY <2>5 DEF CommitDrop
    <3>2. r \notin req[u].found
      <4> SUFFICES ASSUME r \in req[u].found PROVE FALSE
        OBVIOUS
      <4>1. [rateable_id |-> ratings[r].rateable_id, score |-> ratings[r].score,
             commenter_id |-> ratings[r].commenter_id, linked |-> FALSE] \in Row
        BY <1>1 DEF IInv, TypeOK, Rated, Row
      <4> QED  BY <1>1, <3>1, <4>1, ConstantsAssumption DEF Rated
    <3>3. r \in Linked(req[u].asset)
      BY <1>1, <3>1, <3>2 DEF Rated
    <3> QED  BY <3>1, <3>2, <3>3 DEF Linked, RatingsOf
  <2> QED  BY <2>2, <2>3, <2>4, <2>5
<1>2. IInv /\ [Next]_vars => [\A r \in Ids : Rated(r) /\ ~Rated(r)' => Goes(r)]_vars
  BY <1>1
<1> QED  BY <1>2, RatingsInvariant, PTL DEF Spec, RatingsGoByOwner

-----------------------------------------------------------------------------
(***************************************************************************)
(* Without races.  When the requests in flight are about different assets, *)
(* as they would be if rate_asset, delete_rating and the deletions took    *)
(* the asset's row FOR UPDATE, no aggregate ever drifts and no rating goes *)
(* but by the hand of its commenter.                                       *)
(***************************************************************************)
AssetsApart ==
    \A u, v \in Users : u # v /\ req[u].pc # "idle" /\ req[v].pc # "idle" =>
        req[u].asset # req[v].asset

AlwaysExact ==
    \A h \in Hotels : assets[h] # None =>
        /\ assets[h].total_ratings = Cardinality(RatingsOf(h))
        /\ assets[h].total_stars = StarsOf(h)

\* A step takes a rating away only as the commit of its commenter's delete_rating
OnlyOwnersDelete ==
    [][\A r \in Ids : Rated(r) /\ ~Rated(r)' =>
          \E u \in Users : /\ req[u].pc = "delete" /\ req[u].rating = r
                           /\ ratings[r].commenter_id = u]_vars

\* What a request found is still what there is
Current(q) ==
    /\ ~q.overtaken
    /\ q.pc \in {"load", "find", "delete"} => Rated(q.rating)
    /\ q.pc = "drop" => q.found = Linked(q.asset)

Undrifted ==
    /\ drifted = {}
    /\ \A u \in Users : Current(req[u])

\* A step that commits nothing.
LEMMA CurrentQuiet ==
    ASSUME IInv, Undrifted, NEW u \in Users, NEW q, Current(q),
           req' = [req EXCEPT ![u] = q], UNCHANGED <<assets, ratings, drifted>>
    PROVE  Undrifted'
<1>1. \A v \in Users : req'[v] = IF v = u THEN q ELSE req[v]
  BY DEF IInv, TypeOK
<1>2. ASSUME NEW v \in Users PROVE Current(req[v])'
  <2>1. Current(req'[v])
    BY <1>1 DEF Undrifted
  <2> QED  BY <2>1 DEF Current, Rated, Linked, RatingsOf
<1> QED  BY <1>2 DEF Undrifted

\* A commit of the request of u, which touches the ratings of its own asset only,
\* and does not mark what another request knows of another asset.
LEMMA CurrentCommit ==
    ASSUME IInv, Undrifted, AssetsApart, NEW u \in Users, req[u].pc # "idle",
           req'[u] = Idle, drifted' = {},
           \A v \in Users \ {u} :
              /\ req'[v].pc = req[v].pc /\ req'[v].asset = req[v].asset
              /\ req'[v].rating = req[v].rating /\ req'[v].found = req[v].found
              /\ ~req'[v].overtaken,
           \A i \in Ids :
              \/ ratings'[i] = ratings[i]
              \/ /\ Rated(i) => ratings[i].rateable_id = req[u].asset
                 /\ Rated(i)' => ratings'[i].rateable_id = req[u].asset
    PROVE  Undrifted'
<1> SUFFICES ASSUME NEW v \in Users PROVE Current(req[v])'
  BY DEF Undrifted
<1>1. CASE v = u
  BY <1>1 DEF Current, Idle
<1>2. CASE v # u /\ req[v].pc = "idle"
  BY <1>2 DEF Current
<1>3. CASE v # u /\ req[v].pc # "idle"
  <2>0. PICK q \in Request : q = req[v]
    BY DEF IInv, TypeOK
  <2>1. q.asset # req[u].asset
    BY <1>3, <2>0 DEF AssetsApart
  <2>2. Knows(q, v) /\ Current(q)
    BY <2>0 DEF IInv, InFlight, Undrifted
  <2>3. ASSUME q.pc \in {"load", "find", "delete"} PROVE Rated(q.rating)'
    <3>1. q.rating \in Ids /\ Rated(q.rating) /\ ratings[q.rating].rateable_id = q.asset
      BY <2>2, <2>3 DEF Knows, Current
    <3>2. ratings'[q.rating] = ratings[q.rating]
      BY <2>1, <3>1
    <3> QED  BY <3>1, <3>2 DEF Rated
  <2>4. Linked(q.asset)' = Linked(q.asset)
    <3>1. ASSUME NEW i \in Ids
          PROVE  /\ Rated(i)' /\ ratings'[i].rateable_id = q.asset /\ ratings'[i].linked
                    <=> Rated(i) /\ ratings[i].rateable_id = q.asset /\ ratings[i].linked
      <4>1. CASE ratings'[i] = ratings[i]
        BY <4>1 DEF Rated
      <4>2. CASE ratings'[i] # ratings[i]
        BY <2>1, <4>2
      <4> QED  BY <4>1, <4>2
    <3> QED  BY <3>1 DEF Linked, RatingsOf
  <2>5. PICK p : /\ p = req'[v] /\ ~p.overtaken
                 /\ p.pc = q.pc /\ p.asset = q.asset
                 /\ p.rating = q.rating /\ p.found = q.found
    BY <1>3, <2>0
  <2>6. p.pc \in {"load", "find", "delete"} => Rated(p.rating)'
    BY <2>3, <2>5
  <2>7. p.pc = "drop" => p.found = Linked(p.asset)'
    BY <2>2, <2>4, <2>5 DEF Current
  <2>8. Current(p)'
    BY <2>5, <2>6, <2>7 DEF Current
  <2> QED  BY <2>5, <2>8
<1> QED  BY <1>1, <1>2, <1>3

\* Under the locks, the commit of the request of u to its asset and to rating r
\* overtakes nobody.
LEMMA OvertakesNobody ==
    ASSUME IInv, Undrifted, AssetsApart, NEW u \in Users, req[u].pc # "idle",
           NEW r \in Ids \cup {None}, Commit(u, req[u].asset, r),
           r # None => Rated(r) /\ ratings[r].rateable_id = req[u].asset
    PROVE  /\ req'[u] = Idle /\ drifted' = {}
           /\ \A v \in Users \ {u} :
                 /\ req'[v].pc = req[v].pc /\ req'[v].asset = req[v].asset
                 /\ req'[v].rating = req[v].rating /\ req'[v].found = req[v].found
                 /\ ~req'[v].overtaken
<1>1. drifted' = {}
  BY DEF Commit, Undrifted, Current
<1>2. ASSUME NEW v \in Users \ {u}, Outdated(req[v], req[u].asset, r) PROVE FALSE
  <2>1. req[v].asset # req[u].asset
    BY <1>2 DEF AssetsApart, Outdated
  <2>2. req[v].pc \in {"load", "find", "delete"} /\ req[v].rating = r
    BY <1>2, <2>1 DEF Outdated
  <2>3. /\ Rated(req[v].rating) /\ req[v].rating \in Ids
        /\ ratings[req[v].rating].rateable_id = req[v].asset
    BY <2>2 DEF Undrifted, Current, IInv, InFlight, Knows
  <2> QED  BY <2>1, <2>2, <2>3, ConstantsAssumption
<1>3. \A v \in Users \ {u} : ~req[v].overtaken
  BY DEF Undrifted, Current
<1> QED  BY <1>1, <1>2, <1>3, AfterCommit

\* Steps that commit nothing find what is there.
LEMMA CurrentBegin ==
    ASSUME IInv, Undrifted, NEW u \in Users
    PROVE  /\ \A a \in Assets, s \in Scores : BeginRate(u, a, s) => Undrifted'
           /\ \A r \in Ids : BeginDelete(u, r) => Undrifted'
           /\ \A a \in Assets : BeginDrop(u, a) => Undrifted'
           /\ LoadAsset(u) \/ FindAsset(u) \/ Fail(u) => Undrifted'
<1>1. ASSUME NEW a \in Assets, NEW s \in Scores, BeginRate(u, a, s) PROVE Undrifted'
  <2> DEFINE q == [pc |-> "rate", asset |-> a, rating |-> None, score |-> s,
                   copy |-> assets[a], found |-> {}, overtaken |-> FALSE]
  <2>1. Current(q)
    BY DEF Current
  <2> QED  BY <1>1, <2>1, CurrentQuiet DEF BeginRate
<1>2. ASSUME NEW r \in Ids, BeginDelete(u, r) PROVE Undrifted'
  <2> DEFINE q == [pc |-> IF ratings[r].linked THEN "load" ELSE "find",
                   asset |-> ratings[r].rateable_id, rating |-> r,
                   score |-> ratings[r].score,
                   copy |-> None, found |-> {}, overtaken |-> FALSE]
  <2>1. Current(q)
    BY <1>2 DEF Current, BeginDelete
  <2> QED  BY <1>2, <2>1, CurrentQuiet DEF BeginDelete
<1>3. ASSUME NEW a \in Assets, BeginDrop(u, a) PROVE Undrifted'
  <2> DEFINE q == [pc |-> "drop", asset |-> a, rating |-> None, score |-> None,
                   copy |-> None, found |-> Linked(a), overtaken |-> FALSE]
  <2>1. Current(q)
    BY DEF Current
  <2> QED  BY <1>3, <2>1, CurrentQuiet DEF BeginDrop
<1>4. ASSUME LoadAsset(u) PROVE Undrifted'
  <2> DEFINE q == [pc |-> "find", asset |-> req[u].asset, rating |-> req[u].rating,
                   score |-> req[u].score, copy |-> assets[req[u].asset],
                   found |-> {}, overtaken |-> req[u].overtaken]
  <2>1. Current(q)
    BY <1>4 DEF Current, LoadAsset, Undrifted
  <2> QED  BY <1>4, <2>1, CurrentQuiet DEF LoadAsset
<1>5. ASSUME FindAsset(u) PROVE Undrifted'
  <2> DEFINE q == [pc |-> "delete", asset |-> req[u].asset, rating |-> req[u].rating,
                   score |-> req[u].score,
                   copy |-> IF assets[req[u].asset] = None THEN None ELSE req[u].copy,
                   found |-> {}, overtaken |-> req[u].overtaken]
  <2>1. Current(q)
    BY <1>5 DEF Current, FindAsset, Undrifted
  <2> QED  BY <1>5, <2>1, CurrentQuiet DEF FindAsset
<1>6. ASSUME Fail(u) PROVE Undrifted'
  <2>1. Current(Idle)
    BY DEF Current, Idle
  <2> QED  BY <1>6, <2>1, CurrentQuiet DEF Fail, Refuse
<1> QED  BY <1>1, <1>2, <1>3, <1>4, <1>5, <1>6

\* The INSERT of a rating, counted.
LEMMA CurrentRate ==
    ASSUME IInv, Undrifted, AssetsApart, NEW u \in Users, CommitRate(u)
    PROVE  Undrifted' /\ \A r \in Ids : Rated(r) => Rated(r)'
<1>1. req[u].pc # "idle" /\ Commit(u, req[u].asset, None)
  BY DEF CommitRate
<1>2. PICK r \in Ids :
         /\ ratings[r] = None
         /\ ratings' = [ratings EXCEPT ![r] =
               [rateable_id |-> req[u].asset, score |-> req[u].score,
                commenter_id |-> u, linked |-> TRUE]]
  BY DEF CommitRate
<1>3. /\ ratings'[r].rateable_id = req[u].asset /\ ~Rated(r)
      /\ \A i \in Ids \ {r} : ratings'[i] = ratings[i]
  BY <1>2 DEF IInv, TypeOK, Rated
<1>4. \A i \in Ids : \/ ratings'[i] = ratings[i]
                     \/ /\ Rated(i) => ratings[i].rateable_id = req[u].asset
                        /\ Rated(i)' => ratings'[i].rateable_id = req[u].asset
  BY <1>3
<1>5. \A i \in Ids : Rated(i) => Rated(i)'
  BY <1>3 DEF Rated
<1> QED  BY <1>1, <1>4, <1>5, OvertakesNobody, CurrentCommit

\* The DELETE of a rating, counted out.
LEMMA CurrentDelete ==
    ASSUME IInv, Undrifted, AssetsApart, NEW u \in Users, CommitDelete(u)
    PROVE  /\ Undrifted'
           /\ \A r \in Ids : Rated(r) /\ ~Rated(r)' =>
                 r = req[u].rating /\ ratings[r].commenter_id = u
<1> DEFINE r == req[u].rating
<1>1. req[u].pc = "delete" /\ Commit(u, req[u].asset, r)
  BY DEF CommitDelete
<1>2. /\ r \in Ids /\ Rated(r) /\ ratings[r].rateable_id = req[u].asset
      /\ ratings[r].commenter_id = u
  BY <1>1 DEF IInv, InFlight, Knows, Undrifted, Current
<1>3. ratings'[r] = Gone /\ \A i \in Ids \ {r} : ratings'[i] = ratings[i]
  BY <1>2 DEF CommitDelete, IInv, TypeOK
<1>4. \A i \in Ids : \/ ratings'[i] = ratings[i]
                     \/ /\ Rated(i) => ratings[i].rateable_id = req[u].asset
                        /\ Rated(i)' => ratings'[i].rateable_id = req[u].asset
  BY <1>2, <1>3 DEF Rated
<1>5. \A i \in Ids : Rated(i) /\ ~Rated(i)' => i = r /\ ratings[i].commenter_id = u
  BY <1>2, <1>3 DEF Rated
<1>6. r \in Ids \cup {None} /\ req[u].pc # "idle"
  BY <1>1, <1>2
<1> HIDE DEF r
<1>7. r = req[u].rating
  BY DEF r
<1> QED  BY <1>1, <1>2, <1>4, <1>5, <1>6, <1>7, OvertakesNobody, CurrentCommit

\* The deletion of an asset: all its linked ratings were found, so that none goes.
LEMMA CurrentDrop ==
    ASSUME IInv, Undrifted, AssetsApart, NEW u \in Users, CommitDrop(u)
    PROVE  Undrifted' /\ \A r \in Ids : Rated(r) => Rated(r)'
<1> DEFINE a == req[u].asset
           Unlink(r) == [rateable_id |-> ratings[r].rateable_id,
                         score |-> ratings[r].score,
                         commenter_id |-> ratings[r].commenter_id, linked |-> FALSE]
<1>1. req[u].pc = "drop" /\ req[u].found = Linked(a)
  BY DEF CommitDrop, Undrifted, Current
<1>2. ASSUME NEW i \in Ids
      PROVE  /\ i \in Linked(a) => ratings'[i] = Unlink(i)
             /\ i \notin Linked(a) => ratings'[i] = ratings[i]
  BY <1>1 DEF CommitDrop
<1>3. ASSUME NEW i \in Linked(a)
      PROVE  /\ i \in Ids /\ Rated(i) /\ ratings[i].rateable_id = a
             /\ Unlink(i).rateable_id = a /\ Unlink(i) \in Row
  BY DEF Linked, RatingsOf, IInv, TypeOK, Rated, Row
<1>4. \A i \in Ids : \/ ratings'[i] = ratings[i]
                     \/ /\ Rated(i) => ratings[i].rateable_id = req[u].asset
                        /\ Rated(i)' => ratings'[i].rateable_id = req[u].asset
  BY <1>2, <1>3
<1>5. \A i \in Ids : Rated(i) => Rated(i)'
  BY <1>2, <1>3, ConstantsAssumption DEF Rated
<1>6. req' = [req EXCEPT ![u] = Idle] /\ drifted' = drifted
  BY DEF CommitDrop
<1>7. \A v \in Users \ {u} : req'[v] = req[v] /\ ~req[v].overtaken
  BY <1>6 DEF IInv, TypeOK, Undrifted, Current
<1>8. req'[u] = Idle /\ drifted' = {} /\ req[u].pc # "idle"
  BY <1>1, <1>6 DEF IInv, TypeOK, Undrifted
<1> QED  BY <1>4, <1>5, <1>7, <1>8, CurrentCommit

\* When requests about one asset never overlap, the aggregates of every hotel are the
\* number and the sum of its ratings, and a rating is deleted by its commenter alone.
THEOREM LockedAssetsAreExact ==
    Spec /\ []AssetsApart => []AlwaysExact /\ OnlyOwnersDelete
<1> DEFINE ByOwner ==
      \A r \in Ids : Rated(r) /\ ~Rated(r)' =>
         \E u \in Users : /\ req[u].pc = "delete" /\ req[u].rating = r
                          /\ ratings[r].commenter_id = u
<1>1. Init => Undrifted
  BY DEF Init, Undrifted, Current, Idle
<1>2. IInv /\ Undrifted /\ AssetsApart /\ [Next]_vars => Undrifted' /\ ByOwner
  <2> SUFFICES ASSUME IInv, Undrifted, AssetsApart, [Next]_vars
               PROVE  Undrifted' /\ ByOwner
    OBVIOUS
  <2>1. CASE UNCHANGED vars
    BY <2>1 DEF vars, Undrifted, Current, Rated, Linked, RatingsOf
  <2>2. CASE ratings' = ratings
    <3>1. ByOwner
      BY <2>2 DEF Rated
    <3>2. ASSUME NEW u \in Users, CommitRate(u) \/ CommitDelete(u) \/ CommitDrop(u)
          PROVE  Undrifted'
      BY <3>2, CurrentRate, CurrentDelete, CurrentDrop
    <3> QED  BY <2>1, <3>1, <3>2, CurrentBegin DEF Next
  <2>3. CASE ratings' # ratings /\ Next
    <3>1. PICK u \in Users : CommitRate(u) \/ CommitDelete(u) \/ CommitDrop(u)
      BY <2>3 DEF Next, BeginRate, BeginDelete, BeginDrop, LoadAsset, FindAsset, Fail, Refuse
    <3>2. CASE CommitRate(u) \/ CommitDrop(u)
      BY <3>2, CurrentRate, CurrentDrop
    <3>3. CASE CommitDelete(u)
      <4>1. req[u].pc = "delete"
        BY <3>3 DEF CommitDelete
      <4> QED  BY <3>3, <4>1, CurrentDelete
    <3> QED  BY <3>1, <3>2, <3>3
  <2> QED  BY <2>1, <2>2, <2>3
<1>3. IInv /\ Undrifted => AlwaysExact
  BY DEF IInv, AggregatesExact, Undrifted, AlwaysExact
<1>4. IInv /\ Undrifted /\ AssetsApart /\ [Next]_vars => [ByOwner]_vars
  BY <1>2
<1> QED  BY <1>1, <1>2, <1>3, <1>4, RatingsInvariant, PTL DEF Spec, OnlyOwnersDelete
=============================================================================
