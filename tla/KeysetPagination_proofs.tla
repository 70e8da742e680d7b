----------------------- MODULE KeysetPagination_proofs -----------------------
(***************************************************************************)
(* Proofs about KeysetPagination, for every finite set of ids, every       *)
(* assignment of timestamps to them and every page size.                   *)
(***************************************************************************)
EXTENDS KeysetPagination, FiniteSetTheorems, SequenceTheorems, TLAPS

\* The order of the query is a strict total order of the ids.
LEMMA BeforeOrder ==
    /\ \A a \in Ids : ~Before(a, a)
    /\ \A a, b \in Ids : a = b \/ Before(a, b) \/ Before(b, a)
    /\ \A a, b, c \in Ids : Before(a, b) /\ Before(b, c) => Before(a, c)
<1>1. \A a \in Ids : a \in Nat /\ CollectedAt[a] \in Nat
  BY PaginationAssumption
<1>2. QED
  BY <1>1 DEF Before

\* The keyset condition is the order of the query.
LEMMA AfterCursorIsBefore ==
    ASSUME cursor \in Ids, NEW i \in Ids
    PROVE  AfterCursor(i) <=> Before(cursor, i)
<1>1. /\ i \in Nat /\ CollectedAt[i] \in Nat /\ cursor # NoCursor
      /\ cursor \in Nat /\ CollectedAt[cursor] \in Nat
  BY PaginationAssumption
<1>2. QED
  BY <1>1 DEF AfterCursor, Before

Preceding(rows, i) == {j \in rows : Before(j, i)}
Following(rows, i) == {j \in rows : Before(i, j)}

LEMMA RowsFinite ==
    ASSUME NEW rows \in SUBSET Ids
    PROVE  /\ IsFiniteSet(rows) /\ Cardinality(rows) \in Nat
           /\ IsWellFoundedOn(StrictSubsetOrdering(rows), SUBSET rows)
<1>1. IsFiniteSet(rows) /\ Cardinality(rows) \in Nat
  BY PaginationAssumption, FS_Subset, FS_CardinalityType
<1>2. FiniteSubsetsOf(rows) = SUBSET rows
  BY <1>1, FS_FiniteSubsetsOfFinite
<1>3. IsWellFoundedOn(StrictSubsetOrdering(rows), FiniteSubsetsOf(rows))
  BY FS_StrictSubsetOrderingWellFounded
<1>4. QED
  BY <1>1, <1>2, <1>3

\* Some rows have a first one: the one whose set of predecessors is minimal.
LEMMA HasFirst ==
    ASSUME NEW rows \in SUBSET Ids, rows # {}
    PROVE  \E m \in rows : \A j \in rows : j = m \/ Before(m, j)
<1> DEFINE Sets == {Preceding(rows, i) : i \in rows}
<1>1. Sets \subseteq SUBSET rows /\ Sets # {}
  BY DEF Preceding
<1>2. PICK least \in Sets :
          \A T \in Sets : <<T, least>> \notin StrictSubsetOrdering(rows)
  BY <1>1, RowsFinite, WFMin
<1>3. PICK m \in rows : least = Preceding(rows, m)
  OBVIOUS
<1>4. ASSUME NEW j \in rows, Before(j, m) PROVE FALSE
  <2>1. Preceding(rows, j) \subseteq Preceding(rows, m)
    BY <1>4, BeforeOrder DEF Preceding
  <2>2. j \in Preceding(rows, m) /\ j \notin Preceding(rows, j)
    BY <1>4, BeforeOrder DEF Preceding
  <2>3. Preceding(rows, j) \in Sets
    OBVIOUS
  <2>4. <<Preceding(rows, j), least>> \in StrictSubsetOrdering(rows)
    BY <1>1, <1>3, <2>1, <2>2, <2>3 DEF StrictSubsetOrdering
  <2>5. QED
    BY <1>2, <2>3, <2>4
<1>5. QED
  BY <1>4, BeforeOrder

\* And a last one: the one whose set of successors is minimal.
LEMMA HasLast ==
    ASSUME NEW rows \in SUBSET Ids, rows # {}
    PROVE  \E m \in rows : \A j \in rows : j = m \/ Before(j, m)
<1> DEFINE Sets == {Following(rows, i) : i \in rows}
<1>1. Sets \subseteq SUBSET rows /\ Sets # {}
  BY DEF Following
<1>2. PICK least \in Sets :
          \A T \in Sets : <<T, least>> \notin StrictSubsetOrdering(rows)
  BY <1>1, RowsFinite, WFMin
<1>3. PICK m \in rows : least = Following(rows, m)
  OBVIOUS
<1>4. ASSUME NEW j \in rows, Before(m, j) PROVE FALSE
  <2>1. Following(rows, j) \subseteq Following(rows, m)
    BY <1>4, BeforeOrder DEF Following
  <2>2. j \in Following(rows, m) /\ j \notin Following(rows, j)
    BY <1>4, BeforeOrder DEF Following
  <2>3. Following(rows, j) \in Sets
    OBVIOUS
  <2>4. <<Following(rows, j), least>> \in StrictSubsetOrdering(rows)
    BY <1>1, <1>3, <2>1, <2>2, <2>3 DEF StrictSubsetOrdering
  <2>5. QED
    BY <1>2, <2>3, <2>4
<1>5. QED
  BY <1>4, BeforeOrder
-----------------------------------------------------------------------------
\* What LIMIT keeps is closed under what comes before it.
LEMMA FirstOfIsPrefix ==
    ASSUME NEW rows \in SUBSET Ids, NEW n \in Nat
    PROVE  /\ FirstOf(n, rows) \subseteq rows
           /\ \A i \in FirstOf(n, rows), j \in rows :
                  Before(j, i) => j \in FirstOf(n, rows)
<1>1. FirstOf(n, rows) \subseteq rows
  BY DEF FirstOf
<1>2. ASSUME NEW i \in FirstOf(n, rows), NEW j \in rows, Before(j, i)
      PROVE  j \in FirstOf(n, rows)
  <2>1. Preceding(rows, j) \subseteq Preceding(rows, i)
    BY <1>1, <1>2, BeforeOrder DEF Preceding
  <2>2. Preceding(rows, i) \in SUBSET rows /\ Preceding(rows, j) \in SUBSET rows
    BY DEF Preceding
  <2>3. /\ Cardinality(Preceding(rows, j)) <= Cardinality(Preceding(rows, i))
        /\ Cardinality(Preceding(rows, j)) \in Nat
        /\ Cardinality(Preceding(rows, i)) \in Nat
    <3>1. Preceding(rows, i) \in SUBSET Ids /\ Preceding(rows, j) \in SUBSET Ids
      BY <2>2
    <3>2. QED
      BY <2>1, <3>1, RowsFinite, FS_Subset
  <2>4. Cardinality(Preceding(rows, i)) < n
    BY DEF FirstOf, Preceding
  <2>5. Cardinality(Preceding(rows, j)) < n
    BY <2>3, <2>4
  <2>6. QED
    BY <2>5 DEF FirstOf, Preceding
<1>3. QED
  BY <1>1, <1>2

\* LIMIT n keeps n rows, or all of them when there are no more than n.
LEMMA FirstOfSize ==
    ASSUME NEW rows \in SUBSET Ids, NEW n \in Nat
    PROVE  /\ FirstOf(n, rows) = rows \/ Cardinality(FirstOf(n, rows)) = n
           /\ Cardinality(FirstOf(n, rows)) <= n
           /\ Cardinality(rows) <= n => FirstOf(n, rows) = rows
<1> DEFINE first == FirstOf(n, rows)
<1>1. /\ first \in SUBSET rows /\ first \in SUBSET Ids
      /\ \A i \in first, j \in rows : Before(j, i) => j \in first
  BY FirstOfIsPrefix
<1>2. IsFiniteSet(first) /\ Cardinality(first) \in Nat /\ IsFiniteSet(rows)
      /\ Cardinality(rows) \in Nat
  BY <1>1, RowsFinite
<1> HIDE DEF first
<1>3. Cardinality(first) <= n
  <2>1. CASE first = {}
    BY <2>1, FS_EmptySet
  <2>2. CASE first # {}
    <3>1. PICK m \in first : \A j \in first : j = m \/ Before(j, m)
      BY <1>1, <2>2, HasLast
    <3>2. first = Preceding(rows, m) \cup {m} /\ m \notin Preceding(rows, m)
      BY <1>1, <3>1, BeforeOrder DEF Preceding
    <3>3. /\ Preceding(rows, m) \in SUBSET Ids
          /\ IsFiniteSet(Preceding(rows, m)) /\ Cardinality(Preceding(rows, m)) \in Nat
      <4>1. Preceding(rows, m) \in SUBSET Ids
        BY DEF Preceding
      <4>2. QED
        BY <4>1, RowsFinite
    <3>4. Cardinality(first) = Cardinality(Preceding(rows, m)) + 1
      BY <3>2, <3>3, FS_AddElement
    <3>5. Cardinality(Preceding(rows, m)) < n
      BY DEF first, FirstOf, Preceding
    <3>6. QED
      BY <3>3, <3>4, <3>5
  <2>3. QED
    BY <2>1, <2>2
<1>4. first # rows => Cardinality(first) = n
  <2>1. SUFFICES ASSUME first # rows PROVE Cardinality(first) >= n
    BY <1>2, <1>3
  <2>2. rows \ first \in SUBSET Ids /\ rows \ first # {}
    BY <1>1, <2>1
  <2>3. PICK m \in rows \ first : \A j \in rows \ first : j = m \/ Before(m, j)
    BY <2>2, HasFirst
  <2>4. Preceding(rows, m) \subseteq first
    BY <2>3, BeforeOrder DEF Preceding
  <2>5. Cardinality(Preceding(rows, m)) <= Cardinality(first)
    BY <1>2, <2>4, FS_Subset
  <2>6. Cardinality(Preceding(rows, m)) \in Nat
    BY <1>2, <2>4, FS_Subset, FS_CardinalityType
  <2>7. ~(Cardinality(Preceding(rows, m)) < n)
    BY <2>3 DEF first, FirstOf, Preceding
  <2>8. QED
    BY <1>2, <2>5, <2>6, <2>7
<1>5. Cardinality(rows) <= n => first = rows
  <2>1. Cardinality(first) <= Cardinality(rows)
        /\ (Cardinality(rows) = Cardinality(first) => rows = first)
    BY <1>1, <1>2, FS_Subset
  <2>2. QED
    BY <1>2, <1>4, <2>1
<1>6. QED
  BY <1>3, <1>4, <1>5 DEF first
-----------------------------------------------------------------------------
\* One request: a page of a listing that goes on is full, its cursor is its
\* last row and every other candidate comes after it; the last page holds all
\* candidates there are.
LEMMA PageOfCandidates ==
    LET fetched == FirstOf(Limit + 1, Candidates)
        records == FirstOf(Limit, fetched)
        last == CHOOSE i \in records : \A j \in records : j = i \/ Before(j, i)
    IN  /\ records \subseteq Candidates /\ Cardinality(records) <= Limit
        /\ HasMore(fetched) =>
               /\ Cardinality(records) = Limit
               /\ last \in records /\ \A j \in records : j = last \/ Before(j, last)
               /\ \A i \in Candidates \ records : Before(last, i)
               /\ Candidates \ records # {}
        /\ ~HasMore(fetched) => records = Candidates
<1> DEFINE fetched == FirstOf(Limit + 1, Candidates)
           records == FirstOf(Limit, fetched)
           last == CHOOSE i \in records : \A j \in records : j = i \/ Before(j, i)
<1> USE PaginationAssumption
<1>1. Candidates \in SUBSET Ids /\ Limit + 1 \in Nat /\ Limit \in Nat
  BY DEF Candidates
<1>2. /\ fetched \in SUBSET Candidates /\ fetched \in SUBSET Ids
      /\ \A i \in fetched, j \in Candidates : Before(j, i) => j \in fetched
      /\ fetched = Candidates \/ Cardinality(fetched) = Limit + 1
      /\ Cardinality(fetched) <= Limit + 1
      /\ Cardinality(fetched) \in Nat
  BY <1>1, FirstOfIsPrefix, FirstOfSize, RowsFinite
<1> HIDE DEF fetched
<1>3. /\ records \in SUBSET fetched /\ records \in SUBSET Ids
      /\ \A i \in records, j \in fetched : Before(j, i) => j \in records
      /\ records = fetched \/ Cardinality(records) = Limit
      /\ Cardinality(records) <= Limit
      /\ Cardinality(fetched) <= Limit => records = fetched
  BY <1>1, <1>2, FirstOfIsPrefix, FirstOfSize
<1> HIDE DEF records
<1>4. ASSUME HasMore(fetched)
      PROVE  /\ Cardinality(records) = Limit /\ records # fetched
             /\ last \in records /\ \A j \in records : j = last \/ Before(j, last)
  <2>1. Cardinality(records) = Limit /\ records # fetched
    BY <1>1, <1>2, <1>3, <1>4 DEF HasMore
  <2>2. records # {}
    BY <2>1, <1>1, FS_EmptySet
  <2>3. \E i \in records : \A j \in records : j = i \/ Before(j, i)
    BY <1>3, <2>2, HasLast
  <2>4. QED
    BY <2>1, <2>3
<1> HIDE DEF last
<1>5. ASSUME HasMore(fetched), NEW i \in Candidates \ records PROVE Before(last, i)
  <2>1. last \in records /\ last \in fetched /\ last \in Ids /\ i \in Ids /\ i # last
    BY <1>1, <1>2, <1>3, <1>4, <1>5
  <2>2. ~Before(i, last)
    BY <1>2, <1>3, <1>5, <2>1
  <2>3. QED
    BY <2>1, <2>2, BeforeOrder
<1>6. ~HasMore(fetched) => records = Candidates
  BY <1>1, <1>2, <1>3 DEF HasMore
<1>7. QED
  BY <1>2, <1>3, <1>4, <1>5, <1>6 DEF fetched, records, last

\* What a listing in progress has behind it and before it: the pages so far
\* end with the cursor row, and a row that has matched ever since the listing
\* began is in one of them or still comes after the cursor.
ListingProgress ==
    /\ client = "idle" => cursor = NoCursor /\ pages = <<>>
    /\ client = "listing" =>
           /\ cursor \in Ids
           /\ \A p \in DOMAIN pages : \A a \in pages[p] :
                  a = cursor \/ Before(a, cursor)
           /\ \A i \in lasting : Before(cursor, i)
                                 \/ \E p \in DOMAIN pages : i \in pages[p]
    /\ client = "done" => cursor = NoCursor
    /\ \A i \in lasting : row[i] = "match"

IndInv == TypeOK /\ ListingProgress /\ PagesContinue /\ NothingSkipped

\* The request, in terms of the page it adds.
LEMMA RequestAddsPage ==
    ASSUME IndInv, ListFeedbackRecords
    PROVE  \E records \in SUBSET Ids :
        /\ pages' = Append(pages, records) /\ Cardinality(records) <= Limit
        /\ \A b \in records : row[b] = "match" /\ AfterCursor(b)
        /\ \/ /\ client' = "listing" /\ cursor' \in records
              /\ Cardinality(records) = Limit
              /\ \A b \in records : b = cursor' \/ Before(b, cursor')
              /\ \A i \in Candidates \ records : Before(cursor', i)
              /\ Candidates \ records # {}
           \/ /\ client' = "done" /\ cursor' = NoCursor
              /\ records = Candidates
        /\ lasting' = IF client = "idle" THEN {i \in Ids : row[i] = "match"}
                      ELSE lasting
        /\ UNCHANGED row
<1> DEFINE fetched == FirstOf(Limit + 1, Candidates)
           records == FirstOf(Limit, fetched)
<1>1. records \subseteq Candidates /\ Candidates \subseteq Ids
  BY PageOfCandidates DEF Candidates
<1> USE <1>1
<1>2. WITNESS records \in SUBSET Ids
<1>3. \A b \in records : row[b] = "match" /\ AfterCursor(b)
  BY <1>1 DEF Candidates
<1>4. QED
  BY <1>3, PageOfCandidates DEF ListFeedbackRecords

LEMMA PaginationInductive ==
    /\ Init => IndInv
    /\ IndInv /\ [Next]_vars => IndInv'
<1>1. Init => IndInv
  BY DEF Init, IndInv, TypeOK, ListingProgress, PagesContinue, NothingSkipped,
     RowStates, ClientStates
<1>2. IndInv /\ [Next]_vars => IndInv'
  <2> SUFFICES ASSUME IndInv, [Next]_vars PROVE IndInv'
    OBVIOUS
  <2>0. TypeOK /\ ListingProgress /\ PagesContinue /\ NothingSkipped
    BY DEF IndInv
  <2>1. CASE ListFeedbackRecords
    <3>1. PICK records \in SUBSET Ids :
        /\ pages' = Append(pages, records) /\ Cardinality(records) <= Limit
        /\ \A b \in records : row[b] = "match" /\ AfterCursor(b)
        /\ \/ /\ client' = "listing" /\ cursor' \in records
              /\ \A b \in records : b = cursor' \/ Before(b, cursor')
              /\ \A i \in Candidates \ records : Before(cursor', i)
           \/ /\ client' = "done" /\ cursor' = NoCursor
              /\ records = Candidates
        /\ lasting' = IF client = "idle" THEN {i \in Ids : row[i] = "match"}
                      ELSE lasting
        /\ UNCHANGED row
      BY <2>1, RequestAddsPage
    <3>2. /\ pages \in Seq(SUBSET Ids) /\ Len(pages) \in Nat
          /\ DOMAIN pages = 1..Len(pages) /\ DOMAIN pages' = 1..(Len(pages) + 1)
          /\ \A p \in DOMAIN pages : pages'[p] = pages[p] /\ pages[p] \subseteq Ids
          /\ pages'[Len(pages) + 1] = records
          /\ pages' \in Seq(SUBSET Ids)
      BY <2>0, <3>1 DEF TypeOK
    <3>3. client # "done" /\ client \in {"idle", "listing"}
      BY <2>0, <2>1 DEF ListFeedbackRecords, TypeOK, ClientStates
    <3>4. \A p \in DOMAIN pages : \A a \in pages[p], b \in records : Before(a, b)
      <4>1. CASE client = "idle"
        BY <2>0, <3>2, <4>1 DEF ListingProgress
      <4>2. CASE client = "listing"
        <5>1. TAKE p \in DOMAIN pages
        <5>2. TAKE a \in pages[p], b \in records
        <5>3. cursor \in Ids /\ a \in Ids /\ b \in Ids /\ Before(cursor, b)
          BY <2>0, <3>1, <3>2, <4>2, AfterCursorIsBefore DEF ListingProgress
        <5>4. a = cursor \/ Before(a, cursor)
          BY <2>0, <4>2 DEF ListingProgress
        <5>5. QED
          BY <5>3, <5>4, BeforeOrder
      <4>3. QED
        BY <3>3, <4>1, <4>2
    <3>5. TypeOK'
      BY <2>0, <3>1, <3>2 DEF TypeOK, ClientStates
    <3>6. PagesContinue'
      <4>1. SUFFICES ASSUME NEW p \in DOMAIN pages', NEW q \in DOMAIN pages', p < q,
                            NEW a \in pages'[p], NEW b \in pages'[q]
                     PROVE  Before(a, b)
        BY DEF PagesContinue, Before
      <4>2. p \in DOMAIN pages /\ a \in pages[p]
        BY <3>2, <4>1
      <4>3. CASE q \in DOMAIN pages
        BY <2>0, <3>2, <4>1, <4>2, <4>3 DEF PagesContinue
      <4>4. CASE q \notin DOMAIN pages
        BY <3>2, <3>4, <4>1, <4>2, <4>4
      <4>5. QED
        BY <4>3, <4>4
    <3>7. \A i \in lasting' : i \in Ids /\ row'[i] = "match"
      BY <2>0, <3>1 DEF TypeOK, ListingProgress
    <3>8. ASSUME NEW i \in lasting'
          PROVE  i \in Candidates \/ \E p \in DOMAIN pages : i \in pages[p]
      <4>1. CASE client = "idle"
        BY <2>0, <3>1, <3>7, <4>1 DEF Candidates, AfterCursor, ListingProgress
      <4>2. CASE client = "listing"
        BY <2>0, <3>1, <3>7, <4>2, AfterCursorIsBefore
           DEF Candidates, ListingProgress
      <4>3. QED
        BY <3>3, <4>1, <4>2
    <3>9. ASSUME NEW i \in lasting'
          PROVE  (i \in Candidates /\ i \notin records)
                 \/ \E p \in DOMAIN pages' : i \in pages'[p]
      <4>1. Len(pages) + 1 \in DOMAIN pages' /\ DOMAIN pages \subseteq DOMAIN pages'
        BY <3>2
      <4>2. QED
        BY <3>2, <3>8, <4>1
    <3>10. NothingSkipped'
      BY <3>1, <3>9 DEF NothingSkipped
    <3>11. ListingProgress'
      <4>1. CASE client' = "done"
        BY <3>1, <3>7, <4>1 DEF ListingProgress
      <4>2. CASE client' = "listing"
        <5>1. cursor' \in records /\ cursor' \in Ids
          BY <3>1, <4>2
        <5>2. ASSUME NEW p \in DOMAIN pages', NEW a \in pages'[p]
              PROVE  a = cursor' \/ Before(a, cursor')
          <6>1. CASE p \in DOMAIN pages
            BY <3>2, <3>4, <5>1, <5>2, <6>1
          <6>2. CASE p \notin DOMAIN pages
            BY <3>1, <3>2, <4>2, <5>2, <6>2
          <6>3. QED
            BY <6>1, <6>2
        <5>3. \A i \in lasting' : Before(cursor', i)
                                 \/ \E p \in DOMAIN pages' : i \in pages'[p]
          BY <3>1, <3>9, <4>2
        <5>4. QED
          BY <3>7, <4>2, <5>1, <5>2, <5>3 DEF ListingProgress, Before
      <4>3. QED
        BY <3>1, <4>1, <4>2
    <3>12. QED
      BY <3>5, <3>6, <3>10, <3>11 DEF IndInv
  <2>2. ASSUME NEW i \in Ids, CreateRow(i) \/ UpdateRow(i) \/ DeleteRow(i)
        PROVE  IndInv'
    <3>1. /\ UNCHANGED <<client, cursor, pages>> /\ lasting' \subseteq lasting
          /\ row' \in [Ids -> RowStates]
          /\ \A j \in Ids : j # i => row'[j] = row[j]
          /\ i \in lasting' => row'[i] = row[i]
      BY <2>0, <2>2 DEF CreateRow, UpdateRow, DeleteRow, TypeOK, RowStates,
         ListingProgress
    <3>2. TypeOK'
      BY <2>0, <3>1 DEF TypeOK
    <3>3. PagesContinue' /\ NothingSkipped'
      BY <2>0, <3>1 DEF PagesContinue, NothingSkipped, Before
    <3>4. ListingProgress'
      BY <2>0, <3>1 DEF ListingProgress, Before, TypeOK
    <3>5. QED
      BY <3>2, <3>3, <3>4 DEF IndInv
  <2>3. CASE UNCHANGED vars
    BY <2>3 DEF vars, IndInv, TypeOK, ListingProgress, PagesContinue, NothingSkipped,
       Before
  <2>4. QED
    BY <2>1, <2>2, <2>3 DEF Next
<1>3. QED
  BY <1>1, <1>2

LEMMA PaginationInvariant == Spec => []IndInv
  BY PaginationInductive, PTL DEF Spec
-----------------------------------------------------------------------------
\* Variables keep their types, and no page is larger than the limit.
THEOREM PaginationTypes == Spec => []TypeOK
<1>1. IndInv => TypeOK
  BY DEF IndInv
<1>2. QED
  BY <1>1, PaginationInvariant, PTL

\* Whatever is written between two requests, no row comes twice and none comes
\* after one that follows it in the order of the query.
THEOREM PagesNeverOverlap == Spec => []PagesContinue
<1>1. IndInv => PagesContinue
  BY DEF IndInv
<1>2. QED
  BY <1>1, PaginationInvariant, PTL

\* A listing that has ended returned every row that matched all along.
THEOREM ListingIsComplete == Spec => []NothingSkipped
<1>1. IndInv => NothingSkipped
  BY DEF IndInv
<1>2. QED
  BY <1>1, PaginationInvariant, PTL

\* next_cursor comes with a full page and leads to a page that is not empty.
THEOREM CursorKeepsPromise == Spec => CursorPromisesPage
<1>1. IndInv /\ [Next]_vars =>
          [cursor' # NoCursor /\ cursor' # cursor =>
               /\ Cardinality(pages'[Len(pages')]) = Limit
               /\ Candidates' # {}]_vars
  <2>1. SUFFICES ASSUME IndInv, [Next]_vars, cursor' # NoCursor, cursor' # cursor
                 PROVE  Cardinality(pages'[Len(pages')]) = Limit /\ Candidates' # {}
    OBVIOUS
  <2>2. ListFeedbackRecords
    BY <2>1 DEF Next, CreateRow, UpdateRow, DeleteRow, vars
  <2>3. PICK records \in SUBSET Ids :
            /\ pages' = Append(pages, records)
            /\ cursor' \in records /\ Cardinality(records) = Limit
            /\ \A i \in Candidates \ records : Before(cursor', i)
            /\ Candidates \ records # {}
            /\ UNCHANGED row
    BY <2>1, <2>2, RequestAddsPage
  <2>4. pages'[Len(pages')] = records
    BY <2>3 DEF IndInv, TypeOK
  <2>5. PICK i \in Candidates \ records : Before(cursor', i)
    BY <2>3
  <2>6. i \in Ids /\ row'[i] = "match" /\ AfterCursor(i)'
    <3>1. i \in Ids /\ row[i] = "match" /\ cursor' \in Ids
      BY <2>3 DEF Candidates
    <3>2. CollectedAt[i] \in Nat /\ CollectedAt[cursor'] \in Nat
          /\ i \in Nat /\ cursor' \in Nat
      BY <3>1, PaginationAssumption
    <3>3. QED
      BY <2>3, <2>5, <3>1, <3>2 DEF Before, AfterCursor
  <2>7. QED
    BY <2>3, <2>4, <2>6 DEF Candidates
<1>2. QED
  BY <1>1, PaginationInvariant, PTL DEF Spec, CursorPromisesPage
=============================================================================
