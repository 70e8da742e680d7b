-------------------------- MODULE KeysetPagination --------------------------
(***************************************************************************)
(* The list endpoints (GET /v1/feedback-records and GET /v1/webhooks): a   *)
(* client follows next_cursor page by page, each page one SELECT, while    *)
(* other requests create, change and delete rows between two pages. Both   *)
(* endpoints order by a timestamp that no update touches (collected_at,    *)
(* created_at), newest first, then by id. The cursor carries timestamp and *)
(* id without loss: the database keeps microseconds, the cursor            *)
(* nanoseconds.                                                            *)
(***************************************************************************)
EXTENDS Naturals, Sequences, FiniteSets

CONSTANTS
    Ids,          \* the primary keys, in their order
    CollectedAt,  \* CollectedAt[i]: the timestamp of row i
    Limit,        \* the page size the client asks for
    NoCursor      \* a request or a response without a cursor

ASSUME PaginationAssumption ==
    /\ Ids \subseteq Nat /\ IsFiniteSet(Ids)   \* a UUID has 128 bits
    /\ CollectedAt \in [Ids -> Nat]
    /\ Limit \in Nat \ {0}
    /\ NoCursor \notin Ids

VARIABLES
    row,     \* row[i]: "unborn", "match" (of the filters), "hidden", "deleted"
    client,  \* "idle", "listing" or "done"
    cursor,  \* the next_cursor the client holds, as the row it names
    pages,   \* history: the pages the client was given, as sets of rows
    lasting  \* history: the rows that matched ever since the listing began

vars == <<row, client, cursor, pages, lasting>>

RowStates    == {"unborn", "match", "hidden", "deleted"}
ClientStates == {"idle", "listing", "done"}

Init ==
    /\ row \in [Ids -> {"unborn", "match"}]
    /\ client = "idle"
    /\ cursor = NoCursor
    /\ pages = <<>>
    /\ lasting = {}

-----------------------------------------------------------------------------
(* The query.                                                              *)

\* ORDER BY collected_at DESC, id ASC
Before(a, b) ==
    \/ CollectedAt[a] > CollectedAt[b]
    \/ CollectedAt[a] = CollectedAt[b] /\ a < b

\* Mutant of AfterCursor: the tie on the timestamp is not broken by the id.
AfterTimestamp(i) == cursor = NoCursor \/ CollectedAt[i] < CollectedAt[cursor]

\* Mutant of AfterCursor: the cursor row itself qualifies again.
FromCursor(i) ==
    \/ cursor = NoCursor
    \/ CollectedAt[i] < CollectedAt[cursor]
    \/ CollectedAt[i] = CollectedAt[cursor] /\ i >= cursor

\* The keyset condition; a first page has none.
AfterCursor(i) ==
    \/ cursor = NoCursor
    \/ CollectedAt[i] < CollectedAt[cursor]
    \/ CollectedAt[i] = CollectedAt[cursor] /\ i > cursor

Candidates == {i \in Ids : row[i] = "match" /\ AfterCursor(i)}

\* Mutant of FirstOf: one row more than the limit.
FirstOfPlusOne(n, rows) ==
    {i \in rows : Cardinality({j \in rows : Before(j, i)}) <= n}

\* LIMIT, in the order of the query: the first n rows of the candidates.
FirstOf(n, rows) ==
    {i \in rows : Cardinality({j \in rows : Before(j, i)}) < n}

\* Mutant of HasMore: a full page is taken for a sign of more.
FullPageMeansMore(fetched) == Cardinality(fetched) >= Limit

\* limit+1 rows are fetched: the sentinel tells that there is a next page.
HasMore(fetched) == Cardinality(fetched) > Limit

-----------------------------------------------------------------------------
(* The client's requests.                                                  *)

\* The first request, or the one with the exact next_cursor of the last.
ListFeedbackRecords ==
    /\ client # "done"
    /\ LET fetched == FirstOf(Limit + 1, Candidates)
           records == FirstOf(Limit, fetched)
       IN  /\ pages' = Append(pages, records)
           /\ IF HasMore(fetched)
              THEN /\ client' = "listing"
                   /\ cursor' = CHOOSE i \in records :
                                    \A j \in records : j = i \/ Before(j, i)
              ELSE /\ client' = "done"
                   /\ cursor' = NoCursor
    /\ lasting' = IF client = "idle"
                  THEN {i \in Ids : row[i] = "match"}
                  ELSE lasting
    /\ UNCHANGED row


-----------------------------------------------------------------------------
(* Other requests. An id is used once.                                     *)

CreateRow(i) ==
    /\ row[i] = "unborn"
    /\ \E s \in {"match", "hidden"} : row' = [row EXCEPT ![i] = s]
    /\ UNCHANGED <<client, cursor, pages, lasting>>

\* A PATCH changes a filtered column (user_identifier, enabled), never the key.
UpdateRow(i) ==
    /\ row[i] \in {"match", "hidden"}
    /\ row' = [row EXCEPT ![i] = IF @ = "match" THEN "hidden" ELSE "match"]
    /\ lasting' = lasting \ {i}
    /\ UNCHANGED <<client, cursor, pages>>

DeleteRow(i) ==
    /\ row[i] \in {"match", "hidden"}
    /\ row' = [row EXCEPT ![i] = "deleted"]
    /\ lasting' = lasting \ {i}
    /\ UNCHANGED <<client, cursor, pages>>

Next ==
    \/ ListFeedbackRecords
    \/ \E i \in Ids : CreateRow(i) \/ UpdateRow(i) \/ DeleteRow(i)

Spec == Init /\ [][Next]_vars

-----------------------------------------------------------------------------
TypeOK ==
    /\ row \in [Ids -> RowStates]
    /\ client \in ClientStates
    /\ cursor \in Ids \cup {NoCursor}
    /\ pages \in Seq(SUBSET Ids)
    /\ \A p \in DOMAIN pages : Cardinality(pages[p]) <= Limit
    /\ lasting \subseteq Ids

\* Whatever is written between two requests, the pages continue one another
\* in the order of the query: no row comes twice and none comes late.
PagesContinue ==
    \A p, q \in DOMAIN pages : p < q =>
        \A a \in pages[p], b \in pages[q] : Before(a, b)

\* A listing that has ended returned every row that matched all along.
NothingSkipped ==
    client = "done" => \A i \in lasting : \E p \in DOMAIN pages : i \in pages[p]

\* next_cursor is "present only when there may be more results (full page
\* returned)": with no writer in between, the page it leads to is not empty,
\* and the page it came with is full.
CursorPromisesPage ==
    [][cursor' # NoCursor /\ cursor' # cursor =>
           /\ Cardinality(pages'[Len(pages')]) = Limit
           /\ Candidates' # {}]_vars
=============================================================================
