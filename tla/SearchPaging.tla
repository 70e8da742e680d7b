---------------------------- MODULE SearchPaging ----------------------------
(***************************************************************************)
(* Paging through POST /v1/feedback-records/search/semantic and GET        *)
(* .../{id}/similar: each page is one query for the nearest embeddings     *)
(* after the cursor, over-fetched and trimmed, then (semantic search only) *)
(* re-ranked by sentiment; the cursor is made from the last row of the     *)
(* page. Distances are hundredths; scores and cursors are millionths, in   *)
(* which the products of reRankBySentiment are exact. 1 - (1 - d) is d:    *)
(* pgvector computes d as 1 - similarity, so no bit of it is lost again.   *)
(*                                                                         *)
(* Other requests and jobs move, add and delete vectors between two pages. *)
(* Each page computes the query's vector anew, or reads that of the record *)
(* the others are to be similar to: should it have changed, the distances  *)
(* move, as by UpsertEmbedding. Sentiments, and what the filters look at,  *)
(* do not change during a listing. A page that fails (no embedding of the  *)
(* query or of the source record, a database error) changes nothing here:  *)
(* the client may ask with the same cursor again.                          *)
(***************************************************************************)
EXTENDS Integers, Sequences, FiniteSets

CONSTANTS
    Ids,         \* feedback record ids, in their order
    Matching,    \* those the filters let through: tenant, model, source, dates,
                 \* not the record itself
    Distances,   \* cosine distances to the query, in hundredths
    Sentiment,   \* Sentiment[i]: metadata.sentiment of record i
    Confidence,  \* Confidence[i]: metadata.sentiment_score, in hundredths
    Limit,       \* page size
    MinScore,    \* min_score, in hundredths
    hnswEfSearch, \* 200 in the code: hnsw.ef_search
    MaxPages,    \* bound on the pages one client asks for
    NoVector,    \* a record without an embedding
    NoCursor     \* a request or a response without a cursor

ASSUME SearchAssumption ==
    /\ Ids \subseteq Nat /\ IsFiniteSet(Ids)   \* a UUID has 128 bits
    /\ Matching \subseteq Ids
    /\ Distances \subseteq 0..200
    /\ NoVector \notin Distances
    /\ NoCursor \notin [d : Int, i : Ids]
    /\ Sentiment \in [Ids -> {"positive", "negative", "neutral", ""}]
    /\ Confidence \in [Ids -> 0..100]
    /\ Limit \in Nat \ {0}
    /\ MinScore \in 0..100
    /\ hnswEfSearch \in Nat \ {0}

VARIABLES
    distance,   \* distance[i]: of i's stored vector to the query's, or NoVector
    client,     \* "idle", "listing", "done" or "refused" (400)
    cursor,     \* the next_cursor the client holds: distance d and id i
    pages,      \* history: the pages of the listing, as sets of records
    boosted,    \* history: some result's score was raised
    penalised,  \* history: some result's score was lowered
    cut,        \* history: a page was cut short by the index scan
    lasting     \* history: the matching records whose distance was untouched
                \* ever since the listing began

vars == <<distance, client, cursor, pages, boosted, penalised, cut, lasting>>

Unit == 1000000
nearestOverFetchFactor == 3
maxNearestFetchLimit   == 2000
sentimentBoostFactor   == 35
sentimentPenaltyFactor == 35

Init ==
    /\ distance \in [Ids -> Distances \cup {NoVector}]
    /\ client = "idle"
    /\ cursor = NoCursor
    /\ pages = <<>>
    /\ boosted = FALSE
    /\ penalised = FALSE
    /\ cut = FALSE
    /\ lasting = {}

-----------------------------------------------------------------------------
(* The query of the repository.                                            *)

Score(i) == 100 - distance[i]

\* ORDER BY distance, feedback_record_id
Before(a, b) ==
    \/ distance[a] < distance[b]
    \/ distance[a] = distance[b] /\ a < b

\* Mutant of AfterCursor: rows at the cursor's distance are all passed over.
AfterDistance(i) == cursor = NoCursor \/ distance[i] * 10000 > cursor.d

\* (distance, id) > (lastDistance, lastID); no condition on a first page
AfterCursor(i) ==
    \/ cursor = NoCursor
    \/ distance[i] * 10000 > cursor.d
    \/ distance[i] * 10000 = cursor.d /\ i > cursor.i

Embedded == {i \in Ids : distance[i] # NoVector}

\* What the database may read before it filters. It may read every row; or the
\* HNSW index, which yields hnsw.ef_search tuples at most since no iterative
\* scan is enabled: the nearest ones whatever their tenant, equal distances in
\* any order, and dead tuples among them.
Scans ==
    {Embedded} \cup
        {scan \in SUBSET Embedded :
            /\ Cardinality(scan) <= hnswEfSearch
            /\ \A i \in scan, j \in Embedded \ scan : distance[i] <= distance[j]}

\* The WHERE clause.
Candidates(scan) == {i \in scan \cap Matching : AfterCursor(i)}

\* Mutant of FirstOf: one row more than the limit.
FirstOfPlusOne(n, rows) ==
    {i \in rows : Cardinality({j \in rows : Before(j, i)}) <= n}

\* The first n rows in the order of the query.
FirstOf(n, rows) ==
    {i \in rows : Cardinality({j \in rows : Before(j, i)}) < n}

fetchLimit ==
    IF Limit * nearestOverFetchFactor < maxNearestFetchLimit
    THEN Limit * nearestOverFetchFactor
    ELSE maxNearestFetchLimit

\* scanEnrichedResults: rows below the minimum score are left out and the
\* scan stops at a full page; more is to be expected if it did, or if the
\* query itself was cut off.
Nearest(scan) ==
    LET fetched == FirstOf(fetchLimit, Candidates(scan))
        scored  == {i \in fetched : Score(i) >= MinScore}
    IN  [results |-> FirstOf(Limit, scored),
         hasMore |-> \/ Cardinality(scored) >= Limit
                     \/ Cardinality(fetched) >= fetchLimit]

\* The index scan left rows out, and the page needed them for all it can know:
\* none of those it read is below the minimum score, and it either did not fill
\* the page or read nothing farther than the page.
CutShort(scan, results) ==
    /\ scan # Embedded
    /\ \A i \in scan : Score(i) >= MinScore
    /\ \/ Cardinality(results) < Limit
       \/ \A i \in scan : \E j \in results : distance[i] <= distance[j]

-----------------------------------------------------------------------------
(* The service.                                                            *)

\* The sentiments of which a result is re-scored, for a query classified as
\* q; a neutral q stands for no classifier and a failed classification too.
Rescored(i, q) ==
    /\ q # "neutral"
    /\ Sentiment[i] \notin {"", "neutral"}
    /\ Confidence[i] > 0

Boosted(i, q)   == Rescored(i, q) /\ Sentiment[i] = q
Penalised(i, q) == Rescored(i, q) /\ Sentiment[i] # q

\* Score of result i after reRankBySentiment, in millionths.
NewScore(i, q) ==
    Score(i) * (10000 + CASE Boosted(i, q)   -> sentimentBoostFactor * Confidence[i]
                          [] Penalised(i, q) -> 0 - sentimentPenaltyFactor * Confidence[i]
                          [] OTHER           -> 0)

\* Mutant of LastOf: an unstable sort, the first of the rows that tie.
LastUnstable(results, q) ==
    CHOOSE i \in results : \A j \in results :
        \/ j = i
        \/ NewScore(j, q) > NewScore(i, q)
        \/ NewScore(j, q) = NewScore(i, q) /\ Before(i, j)

\* The last row of the page: sort.SliceStable by the new score, descending,
\* keeps the order of the query among equals.
LastOf(results, q) ==
    CHOOSE i \in results : \A j \in results :
        \/ j = i
        \/ NewScore(j, q) > NewScore(i, q)
        \/ NewScore(j, q) = NewScore(i, q) /\ Before(j, i)

\* DecodeSearchCursor accepts a cosine distance only.
Decodable(c) == c.d >= 0 /\ c.d <= 2 * Unit

\* A page of the endpoint for a query of sentiment q ("similar": neutral).
Search(q, scan) ==
    /\ client \in {"idle", "listing"}
    /\ Len(pages) < MaxPages
    /\ cursor # NoCursor => Decodable(cursor)
    /\ LET page == Nearest(scan)
           last == LastOf(page.results, q)
       IN  /\ pages' = Append(pages, page.results)
           /\ IF page.hasMore /\ page.results # {}
              THEN /\ client' = "listing"
                   /\ cursor' = [d |-> Unit - NewScore(last, q), i |-> last]
              ELSE /\ client' = "done"
                   /\ cursor' = NoCursor
           /\ boosted' = (boosted \/ \E i \in page.results : Boosted(i, q))
           /\ penalised' = (penalised \/ \E i \in page.results : Penalised(i, q))
           /\ cut' = (cut \/ CutShort(scan, page.results))
    /\ lasting' = IF client = "idle" THEN Embedded \cap Matching ELSE lasting
    /\ UNCHANGED distance

\* The next page is answered with ErrInvalidCursor.
RefuseCursor ==
    /\ client = "listing"
    /\ ~Decodable(cursor)
    /\ client' = "refused"
    /\ UNCHANGED <<distance, cursor, pages, boosted, penalised, cut, lasting>>

\* An embedding job inserts or replaces the vector of a record.
UpsertEmbedding(i) ==
    /\ \E d \in Distances \ {distance[i]} : distance' = [distance EXCEPT ![i] = d]
    /\ lasting' = lasting \ {i}
    /\ UNCHANGED <<client, cursor, pages, boosted, penalised, cut>>

\* The record is deleted, or its text is emptied.
DeleteEmbedding(i) ==
    /\ distance[i] # NoVector
    /\ distance' = [distance EXCEPT ![i] = NoVector]
    /\ lasting' = lasting \ {i}
    /\ UNCHANGED <<client, cursor, pages, boosted, penalised, cut>>

Next ==
    \/ \E q \in {"positive", "negative", "neutral"}, scan \in Scans : Search(q, scan)
    \/ RefuseCursor
    \/ \E i \in Ids : UpsertEmbedding(i) \/ DeleteEmbedding(i)

Spec == Init /\ [][Next]_vars

-----------------------------------------------------------------------------
TypeOK ==
    /\ distance \in [Ids -> Distances \cup {NoVector}]
    /\ client \in {"idle", "listing", "done", "refused"}
    /\ cursor \in [d : Int, i : Ids] \cup {NoCursor}
    /\ pages \in Seq(SUBSET Ids)
    /\ \A p \in DOMAIN pages : Cardinality(pages[p]) <= Limit
    /\ boosted \in BOOLEAN /\ penalised \in BOOLEAN /\ cut \in BOOLEAN
    /\ lasting \subseteq Ids

\* A record whose vector stayed comes on two pages only after a re-ranking
\* raised some score: the cursor may then lie before rows already returned.
RepeatsOnlyIfBoosted ==
    \/ boosted
    \/ \A p, q \in DOMAIN pages :
           p < q => pages[p] \cap pages[q] \cap lasting = {}

\* A finished listing misses a matching record whose vector was there all along
\* and reaches the minimum score only after a re-ranking lowered some score, so
\* that the cursor lies behind rows not returned yet, or after a page was cut
\* short by hnsw.ef_search. The cut at fetchLimit is no third reason.
SkipsOnlyIfPenalisedOrCut ==
    client = "done" =>
        \/ penalised \/ cut
        \/ \A i \in lasting :
               Score(i) >= MinScore => \E p \in DOMAIN pages : i \in pages[p]

\* openapi.yaml and the handler's error text: for the next page, use the exact
\* next_cursor of the previous response. Such a request is not answered 400.
ExactCursorAccepted == client # "refused"
=============================================================================
