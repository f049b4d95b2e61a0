------------------------------- MODULE Ratings -------------------------------
(***************************************************************************)
(* Ratings of hotels and properties.  A hotel (AggregateRatingAClass)      *)
(* carries the number of its ratings and the sum of their stars.  Both are *)
(* incremented in memory, on the copy of the hotel that the request's      *)
(* session loaded, and written by a later commit: PostgreSQL never adds.   *)
(*                                                                         *)
(* Deleting a hotel or a property through the ORM sets the foreign key of  *)
(* the ratings it finds to NULL; a rating committed after that look goes   *)
(* with the asset by ON DELETE CASCADE.                                    *)
(***************************************************************************)
EXTENDS Integers, FiniteSets

CONSTANTS
    Users,       \* authenticated users, one request in flight each
    Staff,       \* those whose role lets them delete assets
    Hotels,      \* rateable assets with aggregates
    Properties,  \* rateable assets without
    Scores,      \* the scores clients give
    Ids,         \* primary keys of ratings (bound: rows ever inserted)
    None,        \* NULL; no row
    Gone         \* a deleted row: its key does not come back

Assets == Hotels \cup Properties

\* RatingReviewSchema.score: ge=1, le=5
ReviewScores == 1..5

Totals == [total_ratings : Nat, total_stars : Int]

Row == [rateable_id : Assets, score : Scores, commenter_id : Users,
        linked : BOOLEAN]    \* hotel_id or property_id is set

ASSUME ConstantsAssumption ==
    /\ Staff \subseteq Users
    /\ Hotels \cap Properties = {}
    /\ Scores \subseteq ReviewScores
    /\ IsFiniteSet(Ids)
    /\ None \notin Assets /\ None \notin Ids /\ None \notin Scores
    /\ None \notin Totals
    /\ None \notin Row /\ Gone \notin Row /\ None # Gone

VARIABLES
    assets,      \* Assets -> Totals, or None once deleted
    ratings,     \* Ids -> Row, None before the insert, Gone after the delete
    req,         \* Users -> the request in flight
    drifted      \* history: hotels whose aggregates an overtaken copy was written to

vars == <<assets, ratings, req, drifted>>

Request == [pc : {"idle", "rate", "load", "find", "delete", "drop"},
            asset : Assets \cup {None},
            rating : Ids \cup {None},      \* the rating to delete
            score : Scores \cup {None},
            copy : Totals \cup {None},     \* the session's copy of the asset
            found : SUBSET Ids,            \* the ratings a deletion of the asset unlinks
            overtaken : BOOLEAN]           \* history: the copy or the rating is outdated

TypeOK ==
    /\ assets \in [Assets -> Totals \cup {None}]
    /\ ratings \in [Ids -> Row \cup {None, Gone}]
    /\ req \in [Users -> Request]
    /\ drifted \subseteq Hotels

-----------------------------------------------------------------------------
Rated(r) == ratings[r] \notin {None, Gone}

\* What get_asset_ratings lists of an asset, over all pages
RatingsOf(a) == {r \in Ids : Rated(r) /\ ratings[r].rateable_id = a}

\* hasattr(asset, 'total_ratings')
HasTotals(a) == a \in Hotels

\* Mutant: the stars are not added
AddCountOnly(t, s) ==
    [total_ratings |-> t.total_ratings + 1, total_stars |-> t.total_stars]

Add(t, s) ==
    [total_ratings |-> t.total_ratings + 1, total_stars |-> t.total_stars + s]

\* Mutant: the test that keeps the count from going below zero is dropped
SubtractUnguarded(t, s, now) ==
    [total_ratings |-> t.total_ratings - 1, total_stars |-> t.total_stars - s]

\* A count of zero is left alone, so that its column is not in the UPDATE
Subtract(t, s, now) ==
    [total_ratings |-> IF t.total_ratings > 0 THEN t.total_ratings - 1
                       ELSE now.total_ratings,
     total_stars |-> t.total_stars - s]

-----------------------------------------------------------------------------
Idle == [pc |-> "idle", asset |-> None, rating |-> None, score |-> None,
         copy |-> None, found |-> {}, overtaken |-> FALSE]

Init ==
    /\ assets = [a \in Assets |-> [total_ratings |-> 0, total_stars |-> 0]]
    /\ ratings = [r \in Ids |-> None]
    /\ req = [u \in Users |-> Idle]
    /\ drifted = {}

\* History: q holds a copy of a, or has looked up the rating r
Outdated(q, a, r) ==
    \/ q.pc \in {"rate", "find", "delete"} /\ q.asset = a
    \/ q.pc \in {"load", "find", "delete"} /\ q.rating = r

Overtaken(q) ==
    [pc |-> q.pc, asset |-> q.asset, rating |-> q.rating, score |-> q.score,
     copy |-> q.copy, found |-> q.found, overtaken |-> TRUE]

\* The request of u ends with a commit to asset a (and to rating r)
Commit(u, a, r) ==
    /\ req' = [v \in Users |-> IF v = u THEN Idle
                               ELSE IF Outdated(req[v], a, r) THEN Overtaken(req[v])
                               ELSE req[v]]
    /\ drifted' = IF req[u].overtaken /\ a \in Hotels THEN drifted \cup {a} ELSE drifted

\* The request of u ends without effect: 404, or rollback and 500
Refuse(u) ==
    /\ req' = [req EXCEPT ![u] = Idle]
    /\ UNCHANGED <<assets, ratings, drifted>>

-----------------------------------------------------------------------------
\* rate_asset: select the asset, 404 when there is none
BeginRate(u, a, s) ==
    /\ req[u].pc = "idle"
    /\ assets[a] # None
    /\ req' = [req EXCEPT ![u] =
          [pc |-> "rate", asset |-> a, rating |-> None, score |-> s,
           copy |-> assets[a], found |-> {}, overtaken |-> FALSE]]
    /\ UNCHANGED <<assets, ratings, drifted>>

\* ... then insert the rating and update the asset.  Of an asset that is gone
\* the UPDATE (or the foreign key) raises.
CommitRate(u) ==
    /\ req[u].pc = "rate"
    /\ LET a == req[u].asset
           s == req[u].score
       IN /\ assets[a] # None
          /\ \E r \in Ids :
                /\ ratings[r] = None
                /\ ratings' = [ratings EXCEPT ![r] =
                      [rateable_id |-> a, score |-> s, commenter_id |-> u,
                       linked |-> TRUE]]
          /\ assets' = IF HasTotals(a)
                       THEN [assets EXCEPT ![a] = Add(req[u].copy, s)]
                       ELSE assets
          /\ Commit(u, a, None)

\* Mutant: anyone may delete a rating
BeginDeleteAny(u, r) ==
    /\ req[u].pc = "idle"
    /\ Rated(r)
    /\ req' = [req EXCEPT ![u] =
          [pc |-> IF ratings[r].linked THEN "load" ELSE "find",
           asset |-> ratings[r].rateable_id, rating |-> r, score |-> ratings[r].score,
           copy |-> None, found |-> {}, overtaken |-> FALSE]]
    /\ UNCHANGED <<assets, ratings, drifted>>

\* delete_rating: select the rating; 404 without one, 403 for another's
BeginDelete(u, r) ==
    /\ req[u].pc = "idle"
    /\ Rated(r)
    /\ ratings[r].commenter_id = u
    /\ req' = [req EXCEPT ![u] =
          [pc |-> IF ratings[r].linked THEN "load" ELSE "find",
           asset |-> ratings[r].rateable_id, rating |-> r, score |-> ratings[r].score,
           copy |-> None, found |-> {}, overtaken |-> FALSE]]
    /\ UNCHANGED <<assets, ratings, drifted>>

\* ... Rating.hotel and Rating.property are lazy='selectin': a second statement of
\* the same execute loads the asset into the session
LoadAsset(u) ==
    /\ req[u].pc = "load"
    /\ req' = [req EXCEPT ![u] =
          [pc |-> "find", asset |-> req[u].asset, rating |-> req[u].rating,
           score |-> req[u].score, copy |-> assets[req[u].asset],
           found |-> {}, overtaken |-> req[u].overtaken]]
    /\ UNCHANGED <<assets, ratings, drifted>>

\* ... the select of the asset finds it again, with the attributes loaded before,
\* or finds nothing
FindAsset(u) ==
    /\ req[u].pc = "find"
    /\ req' = [req EXCEPT ![u] =
          [pc |-> "delete", asset |-> req[u].asset, rating |-> req[u].rating,
           score |-> req[u].score,
           copy |-> IF assets[req[u].asset] = None THEN None ELSE req[u].copy,
           found |-> {}, overtaken |-> req[u].overtaken]]
    /\ UNCHANGED <<assets, ratings, drifted>>

\* ... update the asset, if there was one, and delete the rating.  Of a rating that
\* is gone the DELETE only warns.
CommitDelete(u) ==
    /\ req[u].pc = "delete"
    /\ LET a == req[u].asset
           r == req[u].rating
       IN /\ ratings' = [ratings EXCEPT ![r] = Gone]
          /\ \/ /\ req[u].copy # None /\ HasTotals(a)
                /\ assets[a] # None
                /\ assets' = [assets EXCEPT ![a] =
                                 Subtract(req[u].copy, req[u].score, assets[a])]
             \/ /\ req[u].copy = None \/ ~HasTotals(a)
                /\ UNCHANGED assets
          /\ Commit(u, a, r)

\* The ratings that the ORM loads to set their foreign key to NULL
Linked(a) == {r \in RatingsOf(a) : ratings[r].linked}

\* delete_hotel, delete_property: select the asset (404), and in the flush its ratings
BeginDrop(u, a) ==
    /\ u \in Staff
    /\ req[u].pc = "idle"
    /\ assets[a] # None
    /\ req' = [req EXCEPT ![u] =
          [pc |-> "drop", asset |-> a, rating |-> None, score |-> None,
           copy |-> None, found |-> Linked(a), overtaken |-> FALSE]]
    /\ UNCHANGED <<assets, ratings, drifted>>

\* ... unlink these, which raises if one is gone, and delete the asset, which takes
\* the ratings linked since
CommitDrop(u) ==
    /\ req[u].pc = "drop"
    /\ \A r \in req[u].found : Rated(r)
    /\ LET a == req[u].asset
       IN /\ assets' = [assets EXCEPT ![a] = None]
          /\ ratings' = [r \in Ids |->
                IF r \in req[u].found
                THEN [rateable_id |-> ratings[r].rateable_id, score |-> ratings[r].score,
                      commenter_id |-> ratings[r].commenter_id, linked |-> FALSE]
                ELSE IF r \in Linked(a) THEN Gone
                ELSE ratings[r]]
    /\ req' = [req EXCEPT ![u] = Idle]
    /\ UNCHANGED drifted

\* A commit raises: the asset or a rating is gone, or another child of the asset
\* forbids its deletion
Fail(u) ==
    /\ req[u].pc # "idle"
    /\ Refuse(u)

Next ==
    \E u \in Users :
       \/ \E a \in Assets, s \in Scores : BeginRate(u, a, s)
       \/ CommitRate(u)
       \/ \E r \in Ids : BeginDelete(u, r)
       \/ LoadAsset(u)
       \/ FindAsset(u)
       \/ CommitDelete(u)
       \/ \E a \in Assets : BeginDrop(u, a)
       \/ CommitDrop(u)
       \/ Fail(u)

Spec == Init /\ [][Next]_vars

-----------------------------------------------------------------------------
(***************************************************************************)
(* Properties.                                                             *)
(***************************************************************************)
AtLeast(a, k) == Cardinality({r \in RatingsOf(a) : ratings[r].score >= k})

\* The sum of the scores: a rating of s stars is counted s times
StarsOf(a) ==
    AtLeast(a, 1) + AtLeast(a, 2) + AtLeast(a, 3) + AtLeast(a, 4) + AtLeast(a, 5)

\* A hotel's aggregates are the number and the sum of its ratings, until a request
\* commits whose copy of the hotel, or whose rating, another request has changed
\* since it was loaded (rate_asset and delete_rating take no lock).
AggregatesExact ==
    \A h \in Hotels :
       assets[h] # None /\ h \notin drifted =>
          /\ assets[h].total_ratings = Cardinality(RatingsOf(h))
          /\ assets[h].total_stars = StarsOf(h)

\* A rating goes because its commenter deleted it, or with its asset when it was
\* committed after the deletion had looked for ratings; those found survive the
\* asset.
RatingsGoByOwner ==
    [][\A r \in Ids : Rated(r) /\ ~Rated(r)' =>
          \E u \in Users :
             \/ /\ req[u].pc = "delete" /\ req[u].rating = r
                /\ ratings[r].commenter_id = u
             \/ /\ req[u].pc = "drop" /\ req[u].asset = ratings[r].rateable_id
                /\ r \notin req[u].found]_vars
=============================================================================
