------------------------- MODULE SearchPaging_proofs -------------------------
(***************************************************************************)
(* Proofs about SearchPaging, for every finite set of records, every       *)
(* assignment of sentiments and confidences to them, every page size and   *)
(* every minimum score.                                                    *)
(***************************************************************************)
EXTENDS SearchPaging, FiniteSetTheorems, SequenceTheorems, TLAPS

Sentiments == {"positive", "negative", "neutral"}

LEMMA EmbeddedTypes ==
    ASSUME TypeOK, NEW i \in Embedded
    PROVE  i \in Ids /\ i \in Nat /\ distance[i] \in 0..200 /\ Score(i) \in Int
<1>1. i \in Ids /\ i \in Nat /\ distance[i] \in Distances
  BY SearchAssumption DEF Embedded, TypeOK
<1>2. distance[i] \in 0..200
  BY <1>1, SearchAssumption
<1>3. QED
  BY <1>1, <1>2 DEF Score

\* The order of the query is a strict total order of the embedded records.
LEMMA BeforeOrder ==
    ASSUME TypeOK
    PROVE  /\ \A a \in Embedded : ~Before(a, a)
           /\ \A a, b \in Embedded : a = b \/ Before(a, b) \/ Before(b, a)
           /\ \A a, b, c \in Embedded : Before(a, b) /\ Before(b, c) => Before(a, c)
<1>1. \A a \in Embedded : a \in Nat /\ distance[a] \in Nat
  BY EmbeddedTypes
<1>2. QED
  BY <1>1 DEF Before
-----------------------------------------------------------------------------
(* Finite sets of rows and their orders.                                   *)

LEMMA RowsFinite ==
    ASSUME NEW rows \in SUBSET Embedded
    PROVE  IsFiniteSet(rows) /\ Cardinality(rows) \in Nat
BY SearchAssumption, FS_Subset, FS_CardinalityType DEF Embedded

\* A finite set that is not empty has a last element in every total order: the
\* one whose set of successors is minimal.
LEMMA LastInOrder ==
    ASSUME NEW S, IsFiniteSet(S), S # {}, NEW R,
           \A a \in S : <<a, a>> \notin R,
           \A a, b \in S : a = b \/ <<a, b>> \in R \/ <<b, a>> \in R,
           \A a, b, c \in S : <<a, b>> \in R /\ <<b, c>> \in R => <<a, c>> \in R
    PROVE  \E m \in S : \A j \in S : j = m \/ <<j, m>> \in R
<1> DEFINE After(i) == {j \in S : <<i, j>> \in R}
           Sets == {After(i) : i \in S}
<1>1. Sets \subseteq SUBSET S /\ Sets # {}
  <2>1. \A i \in S : After(i) \in SUBSET S /\ After(i) \in Sets
    OBVIOUS
  <2>2. Sets \subseteq SUBSET S
    BY <2>1
  <2>3. QED
    BY <2>1, <2>2
<1>2. IsWellFoundedOn(StrictSubsetOrdering(S), SUBSET S)
  BY FS_FiniteSubsetsOfFinite, FS_StrictSubsetOrderingWellFounded
<1>3. PICK least \in Sets : \A T \in Sets : <<T, least>> \notin StrictSubsetOrdering(S)
  BY <1>1, <1>2, WFMin
<1>4. PICK m \in S : least = After(m)
  OBVIOUS
<1>5. ASSUME NEW j \in S, <<m, j>> \in R PROVE FALSE
  <2>1. After(j) \subseteq After(m)
    BY <1>5
  <2>2. j \in After(m) /\ j \notin After(j)
    BY <1>5
  <2>3. After(j) \in Sets
    OBVIOUS
  <2>4. <<After(j), least>> \in StrictSubsetOrdering(S)
    BY <1>1, <1>4, <2>1, <2>2, <2>3 DEF StrictSubsetOrdering
  <2>5. QED
    BY <1>3, <2>3, <2>4
<1>6. QED
  BY <1>5

LEMMA HasLast ==
    ASSUME TypeOK, NEW rows \in SUBSET Embedded, rows # {}
    PROVE  \E m \in rows : \A j \in rows : j = m \/ Before(j, m)
<1> DEFINE R == {r \in rows \X rows : Before(r[1], r[2])}
<1>1. \A a, b \in rows : <<a, b>> \in R <=> Before(a, b)
  OBVIOUS
<1> HIDE DEF R
<1>2. \E m \in rows : \A j \in rows : j = m \/ <<j, m>> \in R
  <2>1. /\ \A a \in rows : <<a, a>> \notin R
        /\ \A a, b \in rows : a = b \/ <<a, b>> \in R \/ <<b, a>> \in R
        /\ \A a, b, c \in rows : <<a, b>> \in R /\ <<b, c>> \in R => <<a, c>> \in R
    BY <1>1, BeforeOrder
  <2>2. QED
    BY <2>1, RowsFinite, LastInOrder
<1>3. QED
  BY <1>1, <1>2

LEMMA HasFirst ==
    ASSUME TypeOK, NEW rows \in SUBSET Embedded, rows # {}
    PROVE  \E m \in rows : \A j \in rows : j = m \/ Before(m, j)
<1> DEFINE R == {r \in rows \X rows : Before(r[2], r[1])}
<1>1. \A a, b \in rows : <<a, b>> \in R <=> Before(b, a)
  OBVIOUS
<1> HIDE DEF R
<1>2. \E m \in rows : \A j \in rows : j = m \/ <<j, m>> \in R
  <2>1. /\ \A a \in rows : <<a, a>> \notin R
        /\ \A a, b \in rows : a = b \/ <<a, b>> \in R \/ <<b, a>> \in R
        /\ \A a, b, c \in rows : <<a, b>> \in R /\ <<b, c>> \in R => <<a, c>> \in R
    BY <1>1, BeforeOrder
  <2>2. QED
    BY <2>1, RowsFinite, LastInOrder
<1>3. QED
  BY <1>1, <1>2

Preceding(rows, i) == {j \in rows : Before(j, i)}

\* What LIMIT keeps is closed under what comes before it.
LEMMA FirstOfIsPrefix ==
    ASSUME TypeOK, NEW rows \in SUBSET Embedded, NEW n \in Nat
    PROVE  /\ FirstOf(n, rows) \subseteq rows
           /\ \A i \in FirstOf(n, rows), j \in rows :
                  Before(j, i) => j \in FirstOf(n, rows)
<1>1. FirstOf(n, rows) \subseteq rows
  BY DEF FirstOf
<1>2. ASSUME NEW i \in FirstOf(n, rows), NEW j \in rows, Before(j, i)
      PROVE  j \in FirstOf(n, rows)
  <2>1. Preceding(rows, j) \subseteq Preceding(rows, i)
    BY <1>1, <1>2, BeforeOrder DEF Preceding
  <2>2. Preceding(rows, i) \in SUBSET Embedded /\ Preceding(rows, j) \in SUBSET Embedded
    BY DEF Preceding
  <2>3. /\ Cardinality(Preceding(rows, j)) <= Cardinality(Preceding(rows, i))
        /\ Cardinality(Preceding(rows, j)) \in Nat
        /\ Cardinality(Preceding(rows, i)) \in Nat
    BY <2>1, <2>2, RowsFinite, FS_Subset
  <2>4. Cardinality(Preceding(rows, i)) < n
    BY DEF FirstOf, Preceding
  <2>5. Cardinality(Preceding(rows, j)) < n
    BY <2>3, <2>4
  <2>6. QED
    BY <2>5 DEF FirstOf, Preceding
<1>3. QED
  BY <1>1, <1>2

\* LIMIT n keeps n rows, or all of them when there are no more than n.
LEMMA FirstOfSize ==
    ASSUME TypeOK, NEW rows \in SUBSET Embedded, NEW n \in Nat
    PROVE  /\ Cardinality(FirstOf(n, rows)) <= n
           /\ \/ FirstOf(n, rows) = rows
              \/ Cardinality(FirstOf(n, rows)) = n /\ Cardinality(rows) > n
<1> DEFINE first == FirstOf(n, rows)
<1>1. /\ first \in SUBSET rows /\ first \in SUBSET Embedded
      /\ \A i \in first, j \in rows : Before(j, i) => j \in first
  BY FirstOfIsPrefix
<1>2. IsFiniteSet(first) /\ Cardinality(first) \in Nat /\ IsFiniteSet(rows)
      /\ Cardinality(rows) \in Nat
  BY <1>1, RowsFinite
<1> HIDE DEF first
<1>3. Cardinality(first) <= n
  <2>1. CASE first = {}
    BY <2>1, FS_EmptySet
  <2>2. CASE first # {}
    <3>1. PICK m \in first : \A j \in first : j = m \/ Before(j, m)
      BY <1>1, <2>2, HasLast
    <3>2. first = Preceding(rows, m) \cup {m} /\ m \notin Preceding(rows, m)
      BY <1>1, <3>1, BeforeOrder DEF Preceding
    <3>3. Preceding(rows, m) \in SUBSET Embedded
      BY DEF Preceding
    <3>4. IsFiniteSet(Preceding(rows, m)) /\ Cardinality(Preceding(rows, m)) \in Nat
      BY <3>3, RowsFinite
    <3>5. Cardinality(first) = Cardinality(Preceding(rows, m)) + 1
      BY <3>2, <3>4, FS_AddElement
    <3>6. Cardinality(Preceding(rows, m)) < n
      BY DEF first, FirstOf, Preceding
    <3>7. QED
      BY <3>4, <3>5, <3>6
  <2>3. QED
    BY <2>1, <2>2
<1>4. ASSUME first # rows PROVE Cardinality(first) >= n /\ Cardinality(rows) > n
  <2>1. rows \ first \in SUBSET Embedded /\ rows \ first # {}
    BY <1>1, <1>4
  <2>2. PICK m \in rows \ first : \A j \in rows \ first : j = m \/ Before(m, j)
    BY <2>1, HasFirst
  <2>3. Preceding(rows, m) \subseteq first
    BY <2>2, BeforeOrder DEF Preceding
  <2>4. Cardinality(Preceding(rows, m)) <= Cardinality(first)
        /\ Cardinality(Preceding(rows, m)) \in Nat
    BY <1>2, <2>3, FS_Subset, FS_CardinalityType
  <2>5. ~(Cardinality(Preceding(rows, m)) < n)
    BY <2>2 DEF first, FirstOf, Preceding
  <2>6. Cardinality(first) <= Cardinality(rows)
        /\ Cardinality(rows) # Cardinality(first)
    BY <1>1, <1>2, <1>4, FS_Subset
  <2>7. QED
    BY <1>2, <2>4, <2>5, <2>6
<1>5. Cardinality(first) <= n
      /\ \/ first = rows
         \/ Cardinality(first) = n /\ Cardinality(rows) > n
  BY <1>2, <1>3, <1>4
<1>6. QED
  BY <1>5 DEF first
-----------------------------------------------------------------------------
(* The page and its cursor.                                                *)

\* Re-ranking raises the score of a boosted result only, and lowers that of a
\* penalised one only.
LEMMA NewScores ==
    ASSUME TypeOK, NEW i \in Embedded, NEW q \in Sentiments
    PROVE  /\ NewScore(i, q) \in Int
           /\ Score(i) >= 0 /\ ~Boosted(i, q) => NewScore(i, q) <= Score(i) * 10000
           /\ Score(i) >= 0 /\ ~Penalised(i, q) => NewScore(i, q) >= Score(i) * 10000
<1> DEFINE change == CASE Boosted(i, q)   -> sentimentBoostFactor * Confidence[i]
                       [] Penalised(i, q) -> 0 - sentimentPenaltyFactor * Confidence[i]
                       [] OTHER           -> 0
<1>1. Score(i) \in Int /\ Confidence[i] \in 0..100
  BY EmbeddedTypes, SearchAssumption
<1>2. ~(Boosted(i, q) /\ Penalised(i, q))
  BY DEF Boosted, Penalised
<1>3. /\ change \in Int
      /\ ~Boosted(i, q) => change <= 0
      /\ ~Penalised(i, q) => change >= 0
  BY <1>1, <1>2 DEF sentimentBoostFactor, sentimentPenaltyFactor
<1>4. NewScore(i, q) = Score(i) * (10000 + change)
  BY DEF NewScore
<1> HIDE DEF change
<1>5. \A s, c \in Int : /\ s * (10000 + c) \in Int
                        /\ s >= 0 /\ c <= 0 => s * (10000 + c) <= s * 10000
                        /\ s >= 0 /\ c >= 0 => s * (10000 + c) >= s * 10000
  OBVIOUS
<1>6. QED
  BY <1>1, <1>3, <1>4, <1>5

\* sort.SliceStable has a last element.
LEMMA LastOfIsLast ==
    ASSUME TypeOK, NEW rows \in SUBSET Embedded, rows # {}, NEW q \in Sentiments
    PROVE  /\ LastOf(rows, q) \in rows
           /\ \A j \in rows : \/ j = LastOf(rows, q)
                              \/ NewScore(j, q) > NewScore(LastOf(rows, q), q)
                              \/ /\ NewScore(j, q) = NewScore(LastOf(rows, q), q)
                                 /\ Before(j, LastOf(rows, q))
<1> DEFINE Ranked(j, i) == \/ NewScore(j, q) > NewScore(i, q)
                           \/ NewScore(j, q) = NewScore(i, q) /\ Before(j, i)
           R == {r \in rows \X rows : Ranked(r[1], r[2])}
<1>1. \A a, b \in rows : <<a, b>> \in R <=> Ranked(a, b)
  OBVIOUS
<1>2. /\ \A a \in rows : ~Ranked(a, a)
      /\ \A a, b \in rows : a = b \/ Ranked(a, b) \/ Ranked(b, a)
      /\ \A a, b, c \in rows : Ranked(a, b) /\ Ranked(b, c) => Ranked(a, c)
  <2>1. \A a \in rows : NewScore(a, q) \in Int
    BY NewScores
  <2>2. QED
    BY <2>1, BeforeOrder
<1> HIDE DEF R
<1>3. \E m \in rows : \A j \in rows : j = m \/ <<j, m>> \in R
  <2>1. /\ \A a \in rows : <<a, a>> \notin R
        /\ \A a, b \in rows : a = b \/ <<a, b>> \in R \/ <<b, a>> \in R
        /\ \A a, b, c \in rows : <<a, b>> \in R /\ <<b, c>> \in R => <<a, c>> \in R
    BY <1>1, <1>2
  <2>2. QED
    BY <2>1, RowsFinite, LastInOrder
<1>4. \E m \in rows : \A j \in rows : j = m \/ Ranked(j, m)
  BY <1>1, <1>3
<1>5. QED
  BY <1>4 DEF LastOf

LEMMA PageLimits == /\ Limit \in Nat \ {0} /\ MinScore \in Nat
                    /\ fetchLimit \in Nat \ {0}
<1>1. Limit \in Nat \ {0} /\ MinScore \in 0..100
  BY SearchAssumption
<1>2. MinScore \in Nat
  BY <1>1
<1>3. QED
  BY <1>1, <1>2 DEF fetchLimit, nearestOverFetchFactor, maxNearestFetchLimit

LEMMA BeforeScores ==
    ASSUME TypeOK, NEW a \in Embedded, NEW b \in Embedded, Before(a, b)
    PROVE  Score(b) <= Score(a)
<1>1. distance[a] \in Nat /\ distance[b] \in Nat
  BY EmbeddedTypes
<1>2. QED
  BY <1>1 DEF Before, Score

\* The page holds rows after the cursor that reach the minimum score. What
\* was scanned, reaches it and is not on the page comes after all of the page;
\* if there is no next page, there is no such row.
LEMMA PageOfCandidates ==
    ASSUME TypeOK, NEW scan \in SUBSET Embedded
    PROVE  /\ Nearest(scan).results \in SUBSET Candidates(scan)
           /\ Cardinality(Nearest(scan).results) <= Limit
           /\ \A i \in Nearest(scan).results : Score(i) >= MinScore
           /\ \A i \in Candidates(scan) \ Nearest(scan).results, l \in Nearest(scan).results :
                  Score(i) >= MinScore => Before(l, i)
           /\ ~(Nearest(scan).hasMore /\ Nearest(scan).results # {}) =>
                  \A i \in Candidates(scan) : Score(i) >= MinScore => i \in Nearest(scan).results
           /\ Cardinality(Nearest(scan).results) >= Limit =>
                  Nearest(scan).hasMore /\ Nearest(scan).results # {}
<1> DEFINE fetched == FirstOf(fetchLimit, Candidates(scan))
           scored  == {i \in fetched : Score(i) >= MinScore}
           results == FirstOf(Limit, scored)
<1>1. /\ Limit \in Nat \ {0} /\ MinScore \in Nat
      /\ fetchLimit \in Nat \ {0} /\ Candidates(scan) \in SUBSET Embedded
  BY PageLimits DEF Candidates, Embedded
<1>2. /\ fetched \in SUBSET Candidates(scan) /\ fetched \in SUBSET Embedded
      /\ \A i \in fetched, j \in Candidates(scan) : Before(j, i) => j \in fetched
      /\ fetched = Candidates(scan) \/ Cardinality(fetched) = fetchLimit
  BY <1>1, FirstOfIsPrefix, FirstOfSize
<1> HIDE DEF fetched
<1>3. scored \in SUBSET fetched /\ scored \in SUBSET Embedded
  BY <1>2
<1>4. /\ results \in SUBSET scored
      /\ \A i \in results, j \in scored : Before(j, i) => j \in results
      /\ Cardinality(results) <= Limit
      /\ results = scored \/ (Cardinality(results) = Limit /\ Cardinality(scored) > Limit)
  <2> HIDE DEF scored
  <2>1. QED
    BY <1>1, <1>3, FirstOfIsPrefix, FirstOfSize
<1>5. /\ Nearest(scan).results = results
      /\ Nearest(scan).hasMore <=> \/ Cardinality(scored) >= Limit
                             \/ Cardinality(fetched) >= fetchLimit
  BY DEF Nearest, fetched
<1> HIDE DEF results
<1>6. ASSUME NEW i \in Candidates(scan) \ results, NEW l \in results, Score(i) >= MinScore
      PROVE  Before(l, i)
  <2>1. l \in scored /\ l \in fetched /\ l \in Embedded /\ i \in Embedded /\ i # l
    BY <1>1, <1>2, <1>3, <1>4, <1>6
  <2>2. ~Before(i, l)
    <3>1. CASE i \in fetched
      <4>1. i \in scored
        BY <1>6, <3>1
      <4>2. QED
        BY <1>4, <1>6, <4>1
    <3>2. CASE i \notin fetched
      BY <1>2, <1>6, <2>1, <3>2
    <3>3. QED
      BY <3>1, <3>2
  <2>3. QED
    BY <2>1, <2>2, BeforeOrder
<1>7. ASSUME ~Nearest(scan).hasMore, NEW i \in Candidates(scan), Score(i) >= MinScore
      PROVE  i \in results
  <2>1. IsFiniteSet(scored) /\ Cardinality(scored) \in Nat
        /\ Cardinality(fetched) \in Nat
    BY <1>2, <1>3, RowsFinite
  <2>2. Cardinality(scored) < Limit /\ Cardinality(fetched) < fetchLimit
    BY <1>1, <1>5, <1>7, <2>1
  <2>3. fetched = Candidates(scan) /\ results = scored
    BY <1>1, <1>2, <1>4, <2>1, <2>2
  <2>4. QED
    BY <1>7, <2>3
<1>8. ASSUME Nearest(scan).hasMore, results = {}, NEW i \in Candidates(scan), Score(i) >= MinScore
      PROVE  FALSE
  <2>1. Cardinality(results) = 0
    BY <1>8, FS_EmptySet
  <2>2. scored = {}
    BY <1>1, <1>4, <1>8, <2>1
  <2>3. i \notin fetched
    BY <1>8, <2>2
  <2>4. Cardinality(fetched) = fetchLimit
    BY <1>2, <1>8, <2>3
  <2>5. fetched # {}
    BY <1>1, <2>4, FS_EmptySet
  <2>6. PICK f \in fetched : TRUE
    BY <2>5
  <2>7. f \in Embedded /\ i \in Embedded /\ f # i /\ ~Before(i, f)
    BY <1>1, <1>2, <1>8, <2>3, <2>6
  <2>8. Before(f, i)
    BY <2>7, BeforeOrder
  <2>9. Score(f) >= Score(i) /\ Score(f) \in Int /\ Score(i) \in Int
    BY <2>7, <2>8, BeforeScores, EmbeddedTypes
  <2>10. Score(f) >= MinScore
    BY <1>1, <1>8, <2>9
  <2>11. QED
    BY <2>2, <2>6, <2>10
<1>9. \A i \in results : Score(i) >= MinScore
  BY <1>4
<1>10. results \in SUBSET Candidates(scan)
  BY <1>2, <1>3, <1>4
<1> HIDE DEF scored
<1>11. ASSUME Cardinality(results) >= Limit PROVE Nearest(scan).hasMore /\ results # {}
  <2>1. results # {}
    BY <1>1, <1>11, FS_EmptySet
  <2>2. Cardinality(results) <= Cardinality(scored)
    BY <1>3, <1>4, RowsFinite, FS_Subset
  <2>3. Cardinality(results) \in Nat /\ Cardinality(scored) \in Nat
    BY <1>3, <1>4, RowsFinite
  <2>4. Cardinality(scored) >= Limit
    BY <1>1, <1>11, <2>2, <2>3
  <2>5. QED
    BY <1>5, <2>1, <2>4
<1>12. QED
  BY <1>4, <1>5, <1>6, <1>7, <1>8, <1>9, <1>10, <1>11

\* Matching rows after the cursor, read by this page's scan or not.
Remaining == Candidates(Embedded)

\* What a scan that did not cut the page short left unread and reaches the
\* minimum score comes after a full page.
LEMMA LeftByScan ==
    ASSUME TypeOK, NEW scan \in Scans, NEW results \in SUBSET scan,
           ~CutShort(scan, results), NEW i \in Embedded \ scan, Score(i) >= MinScore
    PROVE  /\ Cardinality(results) >= Limit
           /\ \A l \in results : Before(l, i)
<1>1. /\ scan \in SUBSET Embedded /\ scan # Embedded
      /\ \A k \in scan : distance[k] <= distance[i]
  BY DEF Scans
<1>2. /\ \A k \in scan : distance[k] \in Nat
      /\ distance[i] \in Nat /\ Limit \in Nat /\ MinScore \in Nat
      /\ Cardinality(results) \in Nat
  BY <1>1, EmbeddedTypes, PageLimits, RowsFinite
<1>3. \A k \in scan : Score(k) >= MinScore
  BY <1>1, <1>2 DEF Score
<1>4. /\ ~(Cardinality(results) < Limit)
      /\ ~(\A k \in scan : \E l \in results : distance[k] <= distance[l])
  BY <1>1, <1>3 DEF CutShort
<1>5. PICK k \in scan : \A l \in results : ~(distance[k] <= distance[l])
  BY <1>4
<1>6. \A l \in results : distance[l] < distance[i]
  BY <1>1, <1>2, <1>5
<1>7. QED
  BY <1>2, <1>4, <1>6 DEF Before

\* The page in terms of all the rows that remain, unless it was cut short.
LEMMA PageOfRemaining ==
    ASSUME TypeOK, NEW scan \in Scans
    PROVE  LET page == Nearest(scan)
           IN  /\ page.results \in SUBSET Remaining
               /\ Cardinality(page.results) <= Limit
               /\ \A i \in page.results : Score(i) >= MinScore
               /\ ~CutShort(scan, page.results) =>
                      /\ \A i \in Remaining \ page.results, l \in page.results :
                             Score(i) >= MinScore => Before(l, i)
                      /\ ~(page.hasMore /\ page.results # {}) =>
                             \A i \in Remaining :
                                 Score(i) >= MinScore => i \in page.results
<1> DEFINE results == Nearest(scan).results
           more == Nearest(scan).hasMore /\ results # {}
<1>1. scan \in SUBSET Embedded
  BY DEF Scans
<1>2. /\ results \in SUBSET Candidates(scan)
      /\ Cardinality(results) <= Limit
      /\ \A i \in results : Score(i) >= MinScore
      /\ \A i \in Candidates(scan) \ results, l \in results :
             Score(i) >= MinScore => Before(l, i)
      /\ ~more => \A i \in Candidates(scan) : Score(i) >= MinScore => i \in results
      /\ Cardinality(results) >= Limit => more
  BY <1>1, PageOfCandidates
<1> HIDE DEF results, more
<1>3. /\ results \in SUBSET scan /\ results \in SUBSET Remaining
      /\ \A i \in Remaining : i \in Candidates(scan) \/ i \in Embedded \ scan
  BY <1>1, <1>2 DEF Remaining, Candidates
<1>4. ASSUME ~CutShort(scan, results), NEW i \in Remaining, Score(i) >= MinScore
      PROVE  /\ i \notin results => \A l \in results : Before(l, i)
             /\ ~more => i \in results
  <2>1. CASE i \in Candidates(scan)
    BY <1>2, <1>4, <2>1
  <2>2. CASE i \in Embedded \ scan
    BY <1>2, <1>3, <1>4, <2>2, LeftByScan
  <2>3. QED
    BY <1>3, <2>1, <2>2
<1>5. QED
  BY <1>2, <1>3, <1>4 DEF results, more

-----------------------------------------------------------------------------
\* Where the cursor stands relative to a record: the record was passed.
Passed(i) ==
    \/ distance[i] * 10000 < cursor.d
    \/ distance[i] * 10000 = cursor.d /\ i <= cursor.i

\* The inductive invariant: what a listing in progress has behind it as long as
\* no score was raised, and before it as long as none was lowered and no page
\* was cut short.
ListingProgress ==
    /\ client = "idle" => cursor = NoCursor /\ pages = <<>>
    /\ client \in {"listing", "refused"} => cursor # NoCursor
    /\ \A i \in lasting : i \in Matching /\ distance[i] # NoVector
    /\ client = "listing" /\ ~boosted =>
           \A p \in DOMAIN pages : \A i \in pages[p] \cap lasting : Passed(i)
    /\ client = "listing" /\ ~penalised /\ ~cut =>
           \A i \in lasting : Score(i) >= MinScore =>
               AfterCursor(i) \/ \E p \in DOMAIN pages : i \in pages[p]

IndInv == TypeOK /\ ListingProgress /\ RepeatsOnlyIfBoosted /\ SkipsOnlyIfPenalisedOrCut

LEMMA AfterOrPassed ==
    ASSUME TypeOK, cursor # NoCursor, NEW i \in Embedded
    PROVE  AfterCursor(i) <=> ~Passed(i)
<1>1. cursor \in [d : Int, i : Ids]
  BY DEF TypeOK
<1>2. cursor.d \in Int /\ cursor.i \in Nat
  BY <1>1, SearchAssumption
<1>3. i \in Nat /\ distance[i] \in Nat
  BY EmbeddedTypes
<1>4. QED
  BY <1>2, <1>3 DEF AfterCursor, Passed

\* The cursor made from the last result: while no result was raised it lies at
\* or after all of them, while none was lowered it lies before what comes after
\* them.
LEMMA CursorOfPage ==
    ASSUME TypeOK, NEW q \in Sentiments, NEW results \in SUBSET Embedded, results # {},
           \A i \in results : Score(i) >= 0
    PROVE  LET last == LastOf(results, q)
               d == Unit - NewScore(last, q)
           IN  /\ last \in results /\ d \in Int
               /\ (\A i \in results : ~Boosted(i, q)) =>
                      /\ distance[last] * 10000 <= d
                      /\ \A i \in results :
                             \/ distance[i] * 10000 < d
                             \/ distance[i] * 10000 = d /\ i <= last
               /\ (\A i \in results : ~Penalised(i, q)) => d <= distance[last] * 10000
<1> DEFINE last == LastOf(results, q)
           d == Unit - NewScore(last, q)
<1>1. /\ last \in results /\ last \in Embedded
      /\ \A j \in results : \/ j = last
                            \/ NewScore(j, q) > NewScore(last, q)
                            \/ NewScore(j, q) = NewScore(last, q) /\ Before(j, last)
  BY LastOfIsLast
<1> HIDE DEF last
<1>2. \A i \in results : /\ i \in Embedded /\ i \in Nat /\ distance[i] \in Nat
                         /\ Score(i) = 100 - distance[i] /\ NewScore(i, q) \in Int
  BY EmbeddedTypes, NewScores DEF Score
<1>3. d \in Int /\ d = 1000000 - NewScore(last, q)
  BY <1>1, <1>2 DEF Unit
<1> HIDE DEF d
<1>4. ASSUME \A i \in results : ~Boosted(i, q)
      PROVE  /\ distance[last] * 10000 <= d
             /\ \A i \in results : \/ distance[i] * 10000 < d
                                   \/ distance[i] * 10000 = d /\ i <= last
  <2>1. \A i \in results : NewScore(i, q) <= 1000000 - distance[i] * 10000
    <3>1. \A i \in results : NewScore(i, q) <= Score(i) * 10000
      BY <1>2, <1>4, NewScores
    <3>2. QED
      BY <1>2, <3>1
  <2>2. distance[last] * 10000 <= d
    BY <1>1, <1>2, <1>3, <2>1
  <2>3. ASSUME NEW i \in results
        PROVE  \/ distance[i] * 10000 < d
               \/ distance[i] * 10000 = d /\ i <= last
    <3>1. /\ i \in Nat /\ last \in Nat /\ distance[i] \in Nat /\ distance[last] \in Nat
          /\ NewScore(i, q) \in Int /\ NewScore(last, q) \in Int
          /\ NewScore(i, q) <= 1000000 - distance[i] * 10000
      BY <1>1, <1>2, <2>1
    <3>2. CASE i = last
      BY <2>2, <1>3, <3>1, <3>2
    <3>3. CASE NewScore(i, q) > NewScore(last, q)
      BY <1>3, <3>1, <3>3
    <3>4. CASE NewScore(i, q) = NewScore(last, q) /\ Before(i, last)
      BY <1>3, <2>2, <3>1, <3>4 DEF Before
    <3>5. QED
      BY <1>1, <3>2, <3>3, <3>4
  <2>4. QED
    BY <2>2, <2>3
<1>5. ASSUME \A i \in results : ~Penalised(i, q)
      PROVE  d <= distance[last] * 10000
  <2>1. NewScore(last, q) >= Score(last) * 10000
    BY <1>1, <1>5, NewScores
  <2>2. QED
    BY <1>1, <1>2, <1>3, <2>1
<1>6. QED
  BY <1>1, <1>3, <1>4, <1>5 DEF last, d

\* One page, in terms of the rows it adds and the cursor it leaves.
LEMMA SearchAddsPage ==
    ASSUME TypeOK, NEW q \in Sentiments, NEW scan \in Scans, Search(q, scan)
    PROVE  \E results \in SUBSET Remaining :
        /\ pages' = Append(pages, results) /\ Cardinality(results) <= Limit
        /\ \/ /\ client' = "listing"
              /\ cursor' \in [d : Int, i : Ids] /\ cursor'.i \in results
              /\ ~boosted' => /\ distance[cursor'.i] * 10000 <= cursor'.d
                              /\ \A i \in results : Passed(i)'
              /\ ~penalised' /\ ~cut' => \A i \in Remaining \ results :
                                    Score(i) >= MinScore => AfterCursor(i)'
           \/ /\ client' = "done" /\ cursor' = NoCursor
              /\ ~cut' => \A i \in Remaining : Score(i) >= MinScore => i \in results
        /\ boosted' \in BOOLEAN /\ penalised' \in BOOLEAN /\ cut' \in BOOLEAN
        /\ boosted => boosted'
        /\ penalised => penalised'
        /\ cut => cut'
        /\ lasting' = IF client = "idle" THEN Embedded \cap Matching ELSE lasting
        /\ UNCHANGED distance
<1> DEFINE results == Nearest(scan).results
           last == LastOf(results, q)
<1>1. /\ results \in SUBSET Remaining /\ results \in SUBSET Embedded
      /\ Cardinality(results) <= Limit
      /\ \A i \in results : Score(i) >= MinScore
      /\ ~CutShort(scan, results) =>
             /\ \A i \in Remaining \ results, l \in results :
                    Score(i) >= MinScore => Before(l, i)
             /\ ~(Nearest(scan).hasMore /\ results # {}) =>
                    \A i \in Remaining : Score(i) >= MinScore => i \in results
  BY PageOfRemaining DEF Remaining, Candidates, Embedded
<1>2. /\ pages' = Append(pages, results)
      /\ IF Nearest(scan).hasMore /\ results # {}
         THEN /\ client' = "listing"
              /\ cursor' = [d |-> Unit - NewScore(last, q), i |-> last]
         ELSE client' = "done" /\ cursor' = NoCursor
      /\ boosted' = (boosted \/ \E i \in results : Boosted(i, q))
      /\ penalised' = (penalised \/ \E i \in results : Penalised(i, q))
      /\ cut' = (cut \/ CutShort(scan, results))
      /\ lasting' = IF client = "idle" THEN Embedded \cap Matching ELSE lasting
      /\ UNCHANGED distance
  BY DEF Search, Embedded
<1> HIDE DEF results, last
<1>3. /\ boosted' \in BOOLEAN /\ penalised' \in BOOLEAN /\ cut' \in BOOLEAN
      /\ boosted => boosted'
      /\ penalised => penalised'
      /\ cut => cut'
      /\ ~cut' => ~CutShort(scan, results)
  BY <1>2 DEF TypeOK
<1>4. CASE Nearest(scan).hasMore /\ results # {}
  <2>1. \A i \in results : Score(i) >= 0
    <3>1. \A i \in results : Score(i) \in Int
      BY <1>1, EmbeddedTypes
    <3>2. QED
      BY <1>1, <3>1, PageLimits
  <2>2. /\ last \in results /\ Unit - NewScore(last, q) \in Int
        /\ (\A i \in results : ~Boosted(i, q)) =>
               /\ distance[last] * 10000 <= Unit - NewScore(last, q)
               /\ \A i \in results :
                      \/ distance[i] * 10000 < Unit - NewScore(last, q)
                      \/ distance[i] * 10000 = Unit - NewScore(last, q) /\ i <= last
        /\ (\A i \in results : ~Penalised(i, q)) =>
               Unit - NewScore(last, q) <= distance[last] * 10000
    BY <1>1, <1>4, <2>1, CursorOfPage DEF last
  <2>3. /\ client' = "listing" /\ cursor' \in [d : Int, i : Ids]
        /\ cursor'.i = last /\ cursor'.d = Unit - NewScore(last, q)
        /\ last \in Embedded /\ last \in Ids
    BY <1>1, <1>2, <1>4, <2>2 DEF Embedded
  <2>4. ASSUME ~boosted'
        PROVE  /\ distance[cursor'.i] * 10000 <= cursor'.d
               /\ \A i \in results : Passed(i)'
    <3>1. \A i \in results : ~Boosted(i, q)
      BY <1>2, <2>4
    <3>2. QED
      BY <1>2, <2>2, <2>3, <3>1 DEF Passed
  <2>5. ASSUME ~penalised', ~cut', NEW i \in Remaining \ results, Score(i) >= MinScore
        PROVE  AfterCursor(i)'
    <3>0. \A j \in results : ~Penalised(j, q)
      BY <1>2, <2>5
    <3>1. cursor'.d <= distance[last] * 10000
      BY <2>2, <2>3, <3>0
    <3>2. Before(last, i) /\ i \in Embedded
      BY <1>1, <1>3, <2>2, <2>5 DEF Remaining, Candidates, Embedded
    <3>3. /\ distance[i] \in Nat /\ distance[last] \in Nat /\ cursor'.d \in Int
          /\ i \in Nat /\ last \in Nat
      BY <2>3, <3>2, EmbeddedTypes
    <3>4. \/ distance[i] * 10000 > cursor'.d
          \/ distance[i] * 10000 = cursor'.d /\ i > last
      BY <3>1, <3>2, <3>3 DEF Before
    <3>5. QED
      BY <1>2, <2>3, <3>4 DEF AfterCursor
  <2>6. QED
    BY <1>1, <1>2, <1>3, <2>2, <2>3, <2>4, <2>5
<1>5. CASE ~(Nearest(scan).hasMore /\ results # {})
  BY <1>1, <1>2, <1>3, <1>5
<1>6. QED
  BY <1>4, <1>5
-----------------------------------------------------------------------------
LEMMA SearchKeepsIndInv ==
    ASSUME IndInv, NEW q \in Sentiments, NEW scan \in Scans, Search(q, scan)
    PROVE  IndInv'
<1>0. TypeOK /\ ListingProgress /\ RepeatsOnlyIfBoosted /\ SkipsOnlyIfPenalisedOrCut
  BY DEF IndInv
<1>1. PICK results \in SUBSET Remaining :
        /\ pages' = Append(pages, results) /\ Cardinality(results) <= Limit
        /\ \/ /\ client' = "listing"
              /\ cursor' \in [d : Int, i : Ids] /\ cursor'.i \in results
              /\ ~boosted' => /\ distance[cursor'.i] * 10000 <= cursor'.d
                              /\ \A i \in results : Passed(i)'
              /\ ~penalised' /\ ~cut' => \A i \in Remaining \ results :
                                    Score(i) >= MinScore => AfterCursor(i)'
           \/ /\ client' = "done" /\ cursor' = NoCursor
              /\ ~cut' => \A i \in Remaining : Score(i) >= MinScore => i \in results
        /\ boosted' \in BOOLEAN /\ penalised' \in BOOLEAN /\ cut' \in BOOLEAN
        /\ boosted => boosted'
        /\ penalised => penalised'
        /\ cut => cut'
        /\ lasting' = IF client = "idle" THEN Embedded \cap Matching ELSE lasting
        /\ UNCHANGED distance
  BY <1>0, SearchAddsPage
<1>2. /\ results \in SUBSET Embedded /\ results \in SUBSET Ids
      /\ \A i \in results : AfterCursor(i)
  BY DEF Remaining, Candidates, Embedded
<1>3. /\ pages \in Seq(SUBSET Ids) /\ Len(pages) \in Nat
      /\ DOMAIN pages = 1..Len(pages) /\ DOMAIN pages' = 1..(Len(pages) + 1)
      /\ \A p \in DOMAIN pages : pages'[p] = pages[p] /\ pages[p] \subseteq Ids
      /\ pages'[Len(pages) + 1] = results
      /\ pages' \in Seq(SUBSET Ids)
  BY <1>0, <1>1, <1>2 DEF TypeOK
<1>4. \/ client = "idle" /\ cursor = NoCursor /\ pages = <<>>
      \/ client = "listing" /\ cursor # NoCursor /\ lasting' = lasting
  BY <1>0, <1>1 DEF Search, ListingProgress
<1>5. /\ \A i \in lasting' : i \in Embedded \cap Matching /\ i \in Ids /\ distance'[i] # NoVector
      /\ lasting' \subseteq Ids
  BY <1>0, <1>1 DEF TypeOK, ListingProgress, Embedded
<1>6. TypeOK'
  <2>1. \A p \in DOMAIN pages' : Cardinality(pages'[p]) <= Limit
    BY <1>0, <1>1, <1>3 DEF TypeOK
  <2>2. distance' \in [Ids -> Distances \cup {NoVector}]
    BY <1>0, <1>1 DEF TypeOK
  <2>3. cursor' \in [d : Int, i : Ids] \cup {NoCursor}
    BY <1>1
  <2>4. client' \in {"idle", "listing", "done", "refused"}
    BY <1>1
  <2>5. QED
    BY <1>1, <1>3, <1>5, <2>1, <2>2, <2>3, <2>4 DEF TypeOK
\* Nothing passed comes on the new page.
<1>7. ASSUME ~boosted', NEW p \in DOMAIN pages, NEW i \in pages[p] \cap lasting'
      PROVE  i \notin results /\ Passed(i) /\ client = "listing" /\ cursor # NoCursor
  <2>1. client = "listing" /\ cursor # NoCursor /\ i \in lasting
    BY <1>3, <1>4, <1>7
  <2>2. Passed(i)
    BY <1>0, <1>1, <1>7, <2>1 DEF ListingProgress
  <2>3. QED
    BY <1>0, <1>2, <1>5, <1>7, <2>1, <2>2, AfterOrPassed
<1>8. RepeatsOnlyIfBoosted'
  <2>1. SUFFICES ASSUME ~boosted', NEW p \in DOMAIN pages', NEW r \in DOMAIN pages',
                        p < r, NEW i \in pages'[p] \cap pages'[r] \cap lasting'
                 PROVE  FALSE
    BY DEF RepeatsOnlyIfBoosted
  <2>2. p \in DOMAIN pages /\ i \in pages[p] \cap lasting'
    BY <1>3, <2>1
  <2>3. CASE r \in DOMAIN pages
    <3>1. client = "listing" /\ lasting' = lasting
      BY <1>4, <2>1, <2>2, <1>7
    <3>2. QED
      BY <1>0, <1>1, <1>3, <2>1, <2>2, <2>3, <3>1 DEF RepeatsOnlyIfBoosted
  <2>4. CASE r \notin DOMAIN pages
    BY <1>3, <1>7, <2>1, <2>2, <2>4
  <2>5. QED
    BY <2>3, <2>4
\* Until a score was lowered or a page cut short, what is not on a page yet is a candidate.
<1>9. ASSUME ~penalised', ~cut', NEW i \in lasting', Score(i) >= MinScore
      PROVE  \/ i \in Remaining /\ i \notin results
             \/ \E p \in DOMAIN pages' : i \in pages'[p]
  <2>1. AfterCursor(i) \/ \E p \in DOMAIN pages : i \in pages[p]
    <3>1. CASE client = "idle"
      BY <1>4, <3>1 DEF AfterCursor
    <3>2. CASE client = "listing"
      BY <1>0, <1>1, <1>4, <1>9, <3>2 DEF ListingProgress
    <3>3. QED
      BY <1>4, <3>1, <3>2
  <2>2. CASE AfterCursor(i)
    <3>1. i \in Remaining
      BY <1>5, <2>2 DEF Remaining, Candidates, Embedded
    <3>2. Len(pages) + 1 \in DOMAIN pages'
      BY <1>3
    <3>3. QED
      BY <1>3, <3>1, <3>2
  <2>3. CASE \E p \in DOMAIN pages : i \in pages[p]
    BY <1>3, <2>3
  <2>4. QED
    BY <2>1, <2>2, <2>3
<1>10. SkipsOnlyIfPenalisedOrCut'
  <2>1. SUFFICES ASSUME client' = "done", ~penalised', ~cut', NEW i \in lasting',
                        Score(i) >= MinScore
                 PROVE  \E p \in DOMAIN pages' : i \in pages'[p]
    BY <1>1 DEF SkipsOnlyIfPenalisedOrCut, Score
  <2>2. \A c \in Remaining : Score(c) >= MinScore => c \in results
    BY <1>1, <2>1
  <2>3. QED
    BY <1>9, <2>1, <2>2
<1>11. ListingProgress'
  <2>1. client' # "idle" /\ client' # "refused"
        /\ (client' = "listing" => cursor' # NoCursor)
    <3>1. NoCursor \notin [d : Int, i : Ids]
      BY SearchAssumption
    <3>2. QED
      BY <1>1, <3>1
  <2>2. ASSUME client' = "listing", ~boosted', NEW p \in DOMAIN pages',
               NEW i \in pages'[p] \cap lasting'
        PROVE  Passed(i)'
    <3>1. CASE p \notin DOMAIN pages
      BY <1>1, <1>3, <2>2, <3>1
    <3>2. CASE p \in DOMAIN pages
      <4>1. Passed(i) /\ cursor # NoCursor
        BY <1>3, <1>7, <2>2, <3>2
      <4>2. PICK last \in results : last = cursor'.i
        BY <1>1, <2>2
      <4>3. /\ distance[last] * 10000 <= cursor'.d /\ last \in Embedded
            /\ i \in Embedded /\ AfterCursor(last)
        BY <1>1, <1>2, <1>5, <2>2, <4>2
      <4>4. cursor \in [d : Int, i : Ids] /\ cursor' \in [d : Int, i : Ids]
        BY <1>0, <1>1, <2>2, <4>1 DEF TypeOK
      <4>5. /\ cursor.d \in Int /\ cursor'.d \in Int /\ cursor.i \in Nat
            /\ i \in Nat /\ last \in Nat
            /\ distance[i] \in Nat /\ distance[last] \in Nat
        <5>1. cursor.d \in Int /\ cursor'.d \in Int /\ cursor.i \in Ids
          BY <4>4
        <5>2. cursor.i \in Nat
          BY <5>1, SearchAssumption
        <5>3. /\ i \in Nat /\ last \in Nat
              /\ distance[i] \in Nat /\ distance[last] \in Nat
          BY <1>0, <4>3, EmbeddedTypes
        <5>4. QED
          BY <5>1, <5>2, <5>3
      <4>6. \/ distance[i] * 10000 < cursor'.d
            \/ distance[i] * 10000 = cursor'.d /\ i <= last
        BY <4>1, <4>3, <4>5 DEF Passed, AfterCursor
      <4>7. QED
        BY <1>1, <4>2, <4>6 DEF Passed
    <3>3. QED
      BY <3>1, <3>2
  <2>3. ASSUME client' = "listing", ~penalised', ~cut', NEW i \in lasting',
               Score(i) >= MinScore
        PROVE  AfterCursor(i)' \/ \E p \in DOMAIN pages' : i \in pages'[p]
    BY <1>1, <1>9, <2>3
  <2>4. \A i \in lasting' : Score(i)' = Score(i)
    BY <1>1 DEF Score
  <2>5. QED
    BY <1>5, <2>1, <2>2, <2>3, <2>4 DEF ListingProgress
<1>12. QED
  BY <1>6, <1>8, <1>10, <1>11 DEF IndInv

LEMMA PagingInductive ==
    /\ Init => IndInv
    /\ IndInv /\ [Next]_vars => IndInv'
<1>1. ASSUME Init PROVE IndInv
  <2>1. TypeOK
    <3>1. /\ distance \in [Ids -> Distances \cup {NoVector}]
          /\ client = "idle" /\ cursor = NoCursor /\ pages = <<>>
          /\ boosted = FALSE /\ penalised = FALSE /\ cut = FALSE /\ lasting = {}
      BY <1>1 DEF Init
    <3>2. pages \in Seq(SUBSET Ids) /\ DOMAIN pages = {}
      BY <3>1
    <3>3. QED
      BY <3>1, <3>2 DEF TypeOK
  <2>2. ListingProgress
    BY <1>1 DEF Init, ListingProgress
  <2>3. RepeatsOnlyIfBoosted /\ SkipsOnlyIfPenalisedOrCut
    BY <1>1 DEF Init, RepeatsOnlyIfBoosted, SkipsOnlyIfPenalisedOrCut
  <2>4. QED
    BY <2>1, <2>2, <2>3 DEF IndInv
<1>2. ASSUME IndInv, [Next]_vars PROVE IndInv'
  <2>0. TypeOK /\ ListingProgress /\ RepeatsOnlyIfBoosted /\ SkipsOnlyIfPenalisedOrCut
    BY <1>2 DEF IndInv
  <2>1. CASE \E q \in {"positive", "negative", "neutral"}, scan \in Scans : Search(q, scan)
    BY <1>2, <2>1, SearchKeepsIndInv DEF Sentiments
  <2>2. CASE RefuseCursor
    BY <2>0, <2>2 DEF RefuseCursor, IndInv, TypeOK, ListingProgress,
       RepeatsOnlyIfBoosted, SkipsOnlyIfPenalisedOrCut
  <2>3. ASSUME NEW i \in Ids, UpsertEmbedding(i) \/ DeleteEmbedding(i)
        PROVE  IndInv'
    <3>1. /\ UNCHANGED <<client, cursor, pages, boosted, penalised, cut>>
          /\ lasting' \subseteq lasting /\ i \notin lasting'
          /\ distance' \in [Ids -> Distances \cup {NoVector}]
          /\ \A j \in Ids : j # i => distance'[j] = distance[j]
      BY <2>0, <2>3 DEF UpsertEmbedding, DeleteEmbedding, TypeOK
    <3>2. \A j \in lasting' : j \in Ids /\ j \in lasting /\ distance'[j] = distance[j]
      BY <2>0, <3>1 DEF TypeOK
    <3>3. TypeOK'
      BY <2>0, <3>1 DEF TypeOK
    <3>4. RepeatsOnlyIfBoosted' /\ SkipsOnlyIfPenalisedOrCut'
      BY <2>0, <3>1, <3>2 DEF RepeatsOnlyIfBoosted, SkipsOnlyIfPenalisedOrCut, Score
    <3>5. ListingProgress'
      BY <2>0, <3>1, <3>2 DEF ListingProgress, Passed, AfterCursor, Score
    <3>6. QED
      BY <3>3, <3>4, <3>5 DEF IndInv
  <2>4. CASE UNCHANGED vars
    BY <2>0, <2>4 DEF vars, IndInv, TypeOK, ListingProgress, RepeatsOnlyIfBoosted,
       SkipsOnlyIfPenalisedOrCut, Passed, AfterCursor, Score
  <2>5. QED
    BY <1>2, <2>1, <2>2, <2>3, <2>4 DEF Next
<1>3. QED
  BY <1>1, <1>2

LEMMA PagingInvariant == Spec => []IndInv
BY PagingInductive, PTL DEF Spec
-----------------------------------------------------------------------------
\* Variables keep their types, and no page is larger than the limit.
THEOREM SearchTypes == Spec => []TypeOK
<1>1. IndInv => TypeOK
  BY DEF IndInv
<1>2. QED
  BY <1>1, PagingInvariant, PTL

\* A record whose vector stays comes on two pages of a listing only after
\* reRankBySentiment raised some score.
THEOREM RepeatsInvariant == Spec => []RepeatsOnlyIfBoosted
<1>1. IndInv => RepeatsOnlyIfBoosted
  BY DEF IndInv
<1>2. QED
  BY <1>1, PagingInvariant, PTL

\* A finished listing misses a matching record that reaches the minimum score
\* and whose vector stays only after reRankBySentiment lowered some score, or
\* after hnsw.ef_search cut a page short: LIMIT fetchLimit alone loses none.
THEOREM SkipsInvariant == Spec => []SkipsOnlyIfPenalisedOrCut
<1>1. IndInv => SkipsOnlyIfPenalisedOrCut
  BY DEF IndInv
<1>2. QED
  BY <1>1, PagingInvariant, PTL
=============================================================================
