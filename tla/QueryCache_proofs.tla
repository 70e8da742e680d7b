-------------------------- MODULE QueryCache_proofs --------------------------
(***************************************************************************)
(* Proofs about QueryCache, for every set of searches and queries, every   *)
(* size of the cache and every number of errors.                           *)
(***************************************************************************)
EXTENDS QueryCache, FiniteSetTheorems, TLAPS

\* A search that shares a call names the search that made it, as does the
\* group while the call is in it; a call that failed has a culprit.
LeaderKnown ==
    /\ \A q \in Queries : flight[q].stage = "failed" =>
           flight[q].leader \in cancelled \cup broken
    /\ \A c \in Callers : caller[c].at \in {"leading", "waiting"} =>
           /\ flight[caller[c].query].stage # "none"
           /\ caller[c].leader = flight[caller[c].query].leader
    /\ FailsOnlyWithLeader

\* Why there is a reason left for the next call: the query is not cached and
\* nobody is calling; or it is cached, and every search that can still call
\* had missed before it was.
ReasonsLeft ==
    \A q \in Queries :
        /\ loads[q] <= allowed[q]
        /\ q \notin cache /\ flight[q].stage # "calling" =>
               loads[q] + 1 <= allowed[q]
        /\ q \in cache =>
               loads[q] + Cardinality(At("missed", q)) <= allowed[q]

\* The types, and what they rest on: the cache is finite, a call has a maker.
Types ==
    /\ TypeOK
    /\ IsFiniteSet(cache)
    /\ \A q \in Queries : flight[q].stage # "none" => flight[q].leader \in Callers

\* The sets of searches are finite, so counting them is arithmetic.
LEMMA MissedFinite ==
    ASSUME NEW q \in Queries
    PROVE  IsFiniteSet(At("missed", q)) /\ Cardinality(At("missed", q)) \in Nat
<1>1. At("missed", q) \subseteq Callers
  BY DEF At
<1>2. QED
  BY <1>1, CacheAssumption, FS_Subset, FS_CardinalityType

\* queryCache.Add keeps the cache within its size.
LEMMA AddKeepsSize ==
    ASSUME Types, NEW q \in Queries, NEW after \in Cached(q)
    PROVE  /\ after \subseteq cache \cup {q} /\ q \in after
           /\ IsFiniteSet(after) /\ Cardinality(after) <= CacheSize
<1> USE CacheAssumption
<1>0. cache \subseteq Queries /\ IsFiniteSet(cache) /\ Cardinality(cache) <= CacheSize
      /\ Cardinality(cache) \in Nat
  BY FS_CardinalityType DEF Types, TypeOK
<1>1. CASE q \in cache
  BY <1>0, <1>1 DEF Cached
<1>2. CASE q \notin cache /\ Full
  <2>1. PICK x \in cache : after = (cache \ {x}) \cup {q}
    BY <1>2 DEF Cached
  <2>2. IsFiniteSet(cache \ {x}) /\ Cardinality(cache \ {x}) = Cardinality(cache) - 1
    BY <1>0, FS_RemoveElement
  <2>3. IsFiniteSet(after) /\ Cardinality(after) = Cardinality(cache \ {x}) + 1
    BY <2>1, <2>2, <1>2, FS_AddElement
  <2>4. QED
    BY <1>0, <2>1, <2>2, <2>3
<1>3. CASE q \notin cache /\ ~Full
  <2>1. after = cache \cup {q}
    BY <1>3 DEF Cached
  <2>2. IsFiniteSet(after) /\ Cardinality(after) = Cardinality(cache) + 1
    BY <1>0, <2>1, <1>3, FS_AddElement
  <2>3. QED
    BY <1>0, <1>3, <2>1, <2>2 DEF Full
<1>4. QED
  BY <1>1, <1>2, <1>3

\* Variables keep their types: needed by every other step.
LEMMA TypesInductive ==
    /\ Init => Types
    /\ Types /\ [Next]_vars => Types'
<1>1. Init => Types
  BY CacheAssumption, FS_EmptySet DEF Init, Types, TypeOK, Caller, Flight, NoFlight
<1>2. Types /\ [Next]_vars => Types'
  <2> SUFFICES ASSUME Types, [Next]_vars PROVE Types'
    OBVIOUS
  <2> USE CacheAssumption DEF Types, TypeOK
  <2>1. ASSUME NEW c \in Callers, NEW q \in Queries, Hit(c, q) PROVE Types'
    BY <2>1 DEF Hit, Caller
  <2>2. ASSUME NEW c \in Callers, NEW q \in Queries, Miss(c, q) PROVE Types'
    BY <2>2 DEF Miss, Caller
  <2>3. ASSUME NEW c \in Callers, NEW q \in Queries, Lead(c, q) PROVE Types'
    <3>1. caller' \in [Callers -> Caller]
      BY <2>3 DEF Lead, Caller
    <3>2. flight' \in [Queries -> Flight] /\ flight'[q].leader = c
      BY <2>3 DEF Lead, Flight
    <3>3. \A x \in Queries : x # q => flight'[x] = flight[x]
      BY <2>3 DEF Lead
    <3>4. loads' \in [Queries -> Nat]
      BY <2>3 DEF Lead
    <3>5. QED
      BY <2>3, <3>1, <3>2, <3>3, <3>4 DEF Lead
  <2>4. ASSUME NEW c \in Callers, NEW q \in Queries, Join(c, q) PROVE Types'
    <3>1. flight[q].leader \in Callers
      BY <2>4 DEF Join
    <3>2. caller' \in [Callers -> Caller]
      BY <2>4, <3>1 DEF Join, Caller
    <3>3. QED
      BY <2>4, <3>2 DEF Join
  <2>5. ASSUME NEW q \in Queries, LoadSucceeds(q) PROVE Types'
    <3>1. cache' \subseteq Queries /\ IsFiniteSet(cache') /\ Cardinality(cache') <= CacheSize
      BY <2>5, AddKeepsSize, cache' \in Cached(q) DEF LoadSucceeds
    <3>2. allowed' \in [Queries -> Nat]
      BY <2>5, MissedFinite DEF LoadSucceeds
    <3>3. QED
      BY <2>5, <3>1, <3>2 DEF LoadSucceeds, Flight
  <2>6. ASSUME NEW q \in Queries, LoadCancelled(q) PROVE Types'
    BY <2>6 DEF LoadCancelled, Flight
  <2>7. ASSUME NEW q \in Queries, LoadFails(q) PROVE Types'
    <3>1. broken' \subseteq Callers
      BY <2>7 DEF LoadFails
    <3>2. QED
      BY <2>7, <3>1 DEF LoadFails, Flight
  <2>8. ASSUME NEW q \in Queries, FlightEnds(q) PROVE Types'
    <3>1. caller' \in [Callers -> Caller]
      BY <2>8 DEF FlightEnds, Caller, Outcome
    <3>2. flight' \in [Queries -> Flight] /\ flight'[q].stage = "none"
      BY <2>8 DEF FlightEnds, Flight, NoFlight
    <3>3. \A x \in Queries : x # q => flight'[x] = flight[x]
      BY <2>8 DEF FlightEnds
    <3>4. QED
      BY <2>8, <3>1, <3>2, <3>3 DEF FlightEnds
  <2>9. ASSUME NEW c \in Callers, Cancel(c) PROVE Types'
    BY <2>9 DEF Cancel
  <2>10. CASE UNCHANGED vars
    BY <2>10 DEF vars
  <2>11. QED
    BY <2>1, <2>2, <2>3, <2>4, <2>5, <2>6, <2>7, <2>8, <2>9, <2>10
       DEF Next, Proceed
<1>3. QED
  BY <1>1, <1>2
-----------------------------------------------------------------------------
\* Only the end of a call moves a search away from the call it shares.
LEMMA LeaderInductive ==
    /\ Init => LeaderKnown
    /\ Types /\ LeaderKnown /\ [Next]_vars => LeaderKnown'
<1>1. Init => LeaderKnown
  BY DEF Init, LeaderKnown, FailsOnlyWithLeader, NoFlight
<1>2. Types /\ LeaderKnown /\ [Next]_vars => LeaderKnown'
  <2> SUFFICES ASSUME Types, LeaderKnown, [Next]_vars PROVE LeaderKnown'
    OBVIOUS
  <2> USE DEF Types, TypeOK, LeaderKnown, FailsOnlyWithLeader, Caller, Flight
  <2>1. ASSUME NEW c \in Callers, NEW q \in Queries, Hit(c, q) PROVE LeaderKnown'
    BY <2>1 DEF Hit
  <2>2. ASSUME NEW c \in Callers, NEW q \in Queries, Miss(c, q) PROVE LeaderKnown'
    BY <2>2 DEF Miss
  <2>3. ASSUME NEW c \in Callers, NEW q \in Queries, Lead(c, q) PROVE LeaderKnown'
    BY <2>3 DEF Lead, At
  <2>4. ASSUME NEW c \in Callers, NEW q \in Queries, Join(c, q) PROVE LeaderKnown'
    BY <2>4 DEF Join, At
  <2>5. ASSUME NEW q \in Queries, LoadSucceeds(q) PROVE LeaderKnown'
    BY <2>5 DEF LoadSucceeds
  <2>6. ASSUME NEW q \in Queries, LoadCancelled(q) PROVE LeaderKnown'
    BY <2>6 DEF LoadCancelled
  <2>7. ASSUME NEW q \in Queries, LoadFails(q) PROVE LeaderKnown'
    BY <2>7 DEF LoadFails
  <2>8. ASSUME NEW q \in Queries, FlightEnds(q) PROVE LeaderKnown'
    <3>1. flight' = [flight EXCEPT ![q] = NoFlight]
          /\ UNCHANGED <<cancelled, broken>>
      BY <2>8 DEF FlightEnds
    <3>2. ASSUME NEW x \in Queries, flight'[x].stage = "failed"
          PROVE  flight'[x].leader \in cancelled' \cup broken'
      BY <3>1, <3>2 DEF NoFlight
    <3>3. ASSUME NEW c \in Callers
          PROVE  IF c \in Served(q)
                 THEN /\ caller'[c].at = Outcome(q)
                      /\ caller'[c].leader = flight[q].leader
                 ELSE caller'[c] = caller[c]
      BY <2>8 DEF FlightEnds, Served, At
    <3>4. ASSUME NEW c \in Callers, caller'[c].at \in {"leading", "waiting"}
          PROVE  /\ flight'[caller'[c].query].stage # "none"
                 /\ caller'[c].leader = flight'[caller'[c].query].leader
      <4>1. c \notin Served(q)
        BY <3>3, <3>4 DEF Outcome
      <4>2. caller'[c] = caller[c] /\ caller[c].query # q
        BY <3>3, <3>4, <4>1 DEF Served, At
      <4>3. QED
        BY <3>1, <3>4, <4>2
    <3>5. ASSUME NEW c \in Callers, caller'[c].at = "failed"
          PROVE  caller'[c].leader \in cancelled' \cup broken'
      <4>1. CASE c \in Served(q)
        BY <2>8, <3>1, <3>3, <3>5, <4>1 DEF FlightEnds, Outcome
      <4>2. CASE c \notin Served(q)
        BY <3>1, <3>3, <3>5, <4>2
      <4>3. QED
        BY <4>1, <4>2
    <3>6. QED
      BY <3>2, <3>4, <3>5
  <2>9. ASSUME NEW c \in Callers, Cancel(c) PROVE LeaderKnown'
    BY <2>9 DEF Cancel
  <2>10. CASE UNCHANGED vars
    BY <2>10 DEF vars
  <2>11. QED
    BY <2>1, <2>2, <2>3, <2>4, <2>5, <2>6, <2>7, <2>8, <2>9, <2>10
       DEF Next, Proceed
<1>3. QED
  BY <1>1, <1>2
-----------------------------------------------------------------------------
\* A step that leaves the cache, the calls and the counters alone may only
\* add to the searches that missed a query that is not cached.
LEMMA ReasonsLeftMissing ==
    ASSUME Types, ReasonsLeft, UNCHANGED <<cache, loads, allowed>>,
           \A q \in Queries :
               /\ flight[q].stage = "calling" => flight'[q].stage = "calling"
               /\ q \in cache => At("missed", q)' \subseteq At("missed", q)
    PROVE  ReasonsLeft'
<1>1. ASSUME NEW q \in Queries, q \in cache
      PROVE  loads[q] + Cardinality(At("missed", q)') <= allowed[q]
  <2>1. Cardinality(At("missed", q)') <= Cardinality(At("missed", q))
        /\ Cardinality(At("missed", q)') \in Nat
    BY <1>1, MissedFinite, FS_Subset, FS_CardinalityType
  <2>2. QED
    BY <1>1, <2>1, MissedFinite DEF ReasonsLeft, Types, TypeOK
<1>2. QED
  BY <1>1 DEF ReasonsLeft

\* Lead takes one search out of those that missed and uses one reason up; the
\* end of a call supplies the reasons for the calls that can follow it.
LEMMA ReasonsInductive ==
    /\ Init => ReasonsLeft
    /\ Types /\ ReasonsLeft /\ [Next]_vars => ReasonsLeft'
<1>1. Init => ReasonsLeft
  BY DEF Init, ReasonsLeft
<1>2. Types /\ ReasonsLeft /\ [Next]_vars => ReasonsLeft'
  <2> SUFFICES ASSUME Types, ReasonsLeft, [Next]_vars PROVE ReasonsLeft'
    OBVIOUS
  <2>1. ASSUME NEW c \in Callers, NEW q \in Queries, Hit(c, q) PROVE ReasonsLeft'
    <3>1. \A x \in Queries : At("missed", x)' \subseteq At("missed", x)
      BY <2>1 DEF Hit, At, Types, TypeOK, Caller
    <3>2. QED
      BY <2>1, <3>1, ReasonsLeftMissing DEF Hit
  <2>2. ASSUME NEW c \in Callers, NEW q \in Queries, Miss(c, q) PROVE ReasonsLeft'
    <3>1. \A x \in Queries : x \in cache => At("missed", x)' \subseteq At("missed", x)
      BY <2>2 DEF Miss, At, Types, TypeOK, Caller
    <3>2. QED
      BY <2>2, <3>1, ReasonsLeftMissing DEF Miss
  <2>3. ASSUME NEW c \in Callers, NEW q \in Queries, Lead(c, q) PROVE ReasonsLeft'
    <3>1. At("missed", q)' = At("missed", q) \ {c} /\ c \in At("missed", q)
      BY <2>3 DEF Lead, At, Types, TypeOK, Caller
    <3>2. Cardinality(At("missed", q)') = Cardinality(At("missed", q)) - 1
      BY <3>1, MissedFinite, FS_RemoveElement
    <3>3. \A x \in Queries : x # q => At("missed", x)' = At("missed", x)
      BY <2>3 DEF Lead, At, Types, TypeOK, Caller
    <3>4. /\ loads' = [loads EXCEPT ![q] = @ + 1]
          /\ cache' = cache /\ allowed' = allowed
          /\ flight[q].stage = "none" /\ flight'[q].stage = "calling"
          /\ \A x \in Queries : x # q => flight'[x] = flight[x]
      BY <2>3 DEF Lead, Types, TypeOK
    <3>5. ASSUME NEW x \in Queries
          PROVE  /\ loads'[x] <= allowed'[x]
                 /\ x \notin cache' /\ flight'[x].stage # "calling" =>
                        loads'[x] + 1 <= allowed'[x]
                 /\ x \in cache' =>
                        loads'[x] + Cardinality(At("missed", x)') <= allowed'[x]
      <4>1. CASE x = q
        <5>1. Cardinality(At("missed", q)) \in Nat /\ Cardinality(At("missed", q)) # 0
          BY <3>1, MissedFinite, FS_EmptySet
        <5>2. loads[q] \in Nat /\ allowed[q] \in Nat /\ loads'[q] = loads[q] + 1
          BY <3>4 DEF Types, TypeOK
        <5>3. QED
          BY <3>2, <3>4, <4>1, <5>1, <5>2 DEF ReasonsLeft
      <4>2. CASE x # q
        <5>1. loads'[x] = loads[x]
          BY <3>4, <4>2 DEF Types, TypeOK
        <5>2. QED
          BY <3>3, <3>4, <4>2, <5>1 DEF ReasonsLeft
      <4>3. QED
        BY <4>1, <4>2
    <3>6. QED
      BY <3>5 DEF ReasonsLeft
  <2>4. ASSUME NEW c \in Callers, NEW q \in Queries, Join(c, q) PROVE ReasonsLeft'
    <3>1. \A x \in Queries : At("missed", x)' \subseteq At("missed", x)
      BY <2>4 DEF Join, At, Types, TypeOK, Caller
    <3>2. QED
      BY <2>4, <3>1, ReasonsLeftMissing DEF Join
  <2>5. ASSUME NEW q \in Queries, LoadSucceeds(q) PROVE ReasonsLeft'
    <3>1. q \in cache' /\ cache' \subseteq cache \cup {q}
      BY <2>5, AddKeepsSize DEF LoadSucceeds
    <3>2. /\ \A x \in Queries : At("missed", x)' = At("missed", x)
          /\ loads' = loads
          /\ \A x \in Queries : x # q => flight'[x] = flight[x]
      BY <2>5 DEF LoadSucceeds, At
    <3>3. ASSUME NEW x \in Queries
          PROVE  /\ loads'[x] <= allowed'[x]
                 /\ x \notin cache' /\ flight'[x].stage # "calling" =>
                        loads'[x] + 1 <= allowed'[x]
                 /\ x \in cache' =>
                        loads'[x] + Cardinality(At("missed", x)') <= allowed'[x]
      <4>1. /\ loads[x] \in Nat /\ allowed[x] \in Nat
            /\ Cardinality(At("missed", x)) \in Nat
        BY MissedFinite DEF Types, TypeOK
      <4>2. CASE x = q
        <5>1. allowed'[q] = allowed[q] + Cardinality(At("missed", q))
          BY <2>5 DEF LoadSucceeds
        <5>2. QED
          BY <3>1, <3>2, <4>1, <4>2, <5>1 DEF ReasonsLeft
      <4>3. CASE x # q
        <5>1. allowed'[x] = allowed[x] + (IF x \in cache \ cache' THEN 1 ELSE 0)
          BY <2>5, <4>3 DEF LoadSucceeds
        <5>2. QED
          BY <3>1, <3>2, <4>1, <4>3, <5>1 DEF ReasonsLeft
      <4>4. QED
        BY <4>2, <4>3
    <3>4. QED
      BY <3>3 DEF ReasonsLeft
  <2>6. ASSUME NEW q \in Queries, LoadCancelled(q) \/ LoadFails(q) PROVE ReasonsLeft'
    <3>1. /\ allowed' = [allowed EXCEPT ![q] = @ + 1]
          /\ cache' = cache /\ loads' = loads
          /\ \A x \in Queries : At("missed", x)' = At("missed", x)
          /\ \A x \in Queries : x # q => flight'[x] = flight[x]
      <4>1. CASE LoadCancelled(q)
        BY <4>1 DEF LoadCancelled, At
      <4>2. CASE LoadFails(q)
        BY <4>2 DEF LoadFails, At
      <4>3. QED
        BY <2>6, <4>1, <4>2
    <3>2. ASSUME NEW x \in Queries
          PROVE  /\ loads'[x] <= allowed'[x]
                 /\ x \notin cache' /\ flight'[x].stage # "calling" =>
                        loads'[x] + 1 <= allowed'[x]
                 /\ x \in cache' =>
                        loads'[x] + Cardinality(At("missed", x)') <= allowed'[x]
      <4>1. /\ loads[x] \in Nat /\ allowed[x] \in Nat
            /\ Cardinality(At("missed", x)) \in Nat
            /\ allowed'[x] = IF x = q THEN allowed[x] + 1 ELSE allowed[x]
        BY <3>1, MissedFinite DEF Types, TypeOK
      <4>2. QED
        BY <3>1, <4>1 DEF ReasonsLeft
    <3>3. QED
      BY <3>2 DEF ReasonsLeft
  <2>7. ASSUME NEW q \in Queries, FlightEnds(q) PROVE ReasonsLeft'
    <3>1. \A x \in Queries : At("missed", x)' \subseteq At("missed", x)
      BY <2>7 DEF FlightEnds, At, Outcome
    <3>2. \A x \in Queries : flight[x].stage = "calling" => flight'[x].stage = "calling"
      BY <2>7 DEF FlightEnds
    <3>3. UNCHANGED <<cache, loads, allowed>>
      BY <2>7 DEF FlightEnds
    <3>4. QED
      BY <3>1, <3>2, <3>3, ReasonsLeftMissing
  <2>8. ASSUME NEW c \in Callers, Cancel(c) PROVE ReasonsLeft'
    BY <2>8 DEF Cancel, ReasonsLeft, At
  <2>9. CASE UNCHANGED vars
    BY <2>9 DEF vars, ReasonsLeft, At
  <2>10. QED
    BY <2>1, <2>2, <2>3, <2>4, <2>5, <2>6, <2>7, <2>8, <2>9 DEF Next, Proceed
<1>3. QED
  BY <1>1, <1>2

-----------------------------------------------------------------------------
\* The variables have their types and the cache never exceeds its size,
\* whatever the searches do (getQueryEmbeddingCached).
THEOREM CacheTypes == Spec => []TypeOK
<1>1. Types => TypeOK
  BY DEF Types
<1>2. QED
  BY <1>1, TypesInductive, PTL DEF Spec

\* For any number of searches: one fails only by an error of the API or by the
\* end of the context of the search whose call it shares.
THEOREM WaitersShareOneFate == Spec => []FailsOnlyWithLeader
<1>1. LeaderKnown => FailsOnlyWithLeader
  BY DEF LeaderKnown
<1>2. QED
  BY <1>1, TypesInductive, LeaderInductive, PTL DEF Spec

\* For any number of searches and any size of the cache: every repeated call of
\* the API for a query has a reason (Get, Do and Add taken together).
THEOREM CallsAreShared == Spec => []LoadsHaveReasons
<1>1. ReasonsLeft => LoadsHaveReasons
  BY DEF ReasonsLeft, LoadsHaveReasons
<1>2. QED
  BY <1>1, TypesInductive, ReasonsInductive, PTL DEF Spec
=============================================================================
