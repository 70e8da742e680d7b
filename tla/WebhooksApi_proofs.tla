-------------------------- MODULE WebhooksApi_proofs --------------------------
(***************************************************************************)
(* Proofs about WebhooksApi, for any number of requests and webhooks: the  *)
(* limit on webhooks holds up to the races of its check, and the provider, *)
(* which looks the rows up later, finds what the event says of its row.    *)
(***************************************************************************)
EXTENDS WebhooksApi, FiniteSetTheorems, TLAPS

Counted == {r \in Events : request[r] = "counted"}
Overlapping == {r \in overtaken : InsertedBy(r)}

ApiTypes ==
    /\ row \in [Webhooks -> Row]
    /\ request \in [Events -> RequestStates]
    /\ about \in [Events -> Change \cup {NoChange}]
    /\ overtaken \subseteq Events
    /\ IsFiniteSet(Counted) /\ IsFiniteSet(overtaken)

\* A request has changed nothing before its last statement.
NothingYet ==
    \A r \in Events : request[r] \in {"new", "counted"} => about[r] = NoChange

\* Whoever counted, and was not overtaken since, still finds room.
RoomWhenCounted ==
    \A r \in Counted \ overtaken :
        Cardinality(Existing) + 1 <= MaxWebhooks + Cardinality(Overlapping)

LimitInv ==
    ApiTypes /\ NothingYet /\ LimitExceededOnlyByOverlap /\ RoomWhenCounted

\* The rows and the creations that count are finitely many.
LEMMA Finite ==
    ASSUME ApiTypes
    PROVE  /\ IsFiniteSet(Existing) /\ Cardinality(Existing) \in Nat
           /\ IsFiniteSet(Overlapping) /\ Cardinality(Overlapping) \in Nat
<1>1. Existing \subseteq Webhooks /\ Overlapping \subseteq overtaken
  BY DEF Existing, Overlapping
<1>2. QED
  BY <1>1, DispatchAssumption, FS_Subset, FS_CardinalityType DEF ApiTypes

\* A step that inserts no row and lets nobody pass the count keeps the limit.
LEMMA LimitKept ==
    ASSUME LimitInv, ApiTypes', NothingYet',
           Existing' \subseteq Existing, Overlapping' = Overlapping,
           overtaken' = overtaken, Counted' \subseteq Counted
    PROVE  LimitInv'
<1>1. Cardinality(Existing') <= Cardinality(Existing) /\ Cardinality(Existing') \in Nat
  BY Finite, FS_Subset, FS_CardinalityType DEF LimitInv
<1>2. MaxWebhooks \in Nat
  BY ApiAssumption
<1>3. LimitExceededOnlyByOverlap'
  BY <1>1, <1>2, Finite DEF LimitInv, LimitExceededOnlyByOverlap, Overlapping
<1>4. RoomWhenCounted'
  BY <1>1, <1>2, Finite DEF LimitInv, RoomWhenCounted
<1>5. QED
  BY <1>3, <1>4 DEF LimitInv

\* What Announces leaves of the bookkeeping of a request that had done nothing.
LEMMA AnnouncesKeepsTypes ==
    ASSUME LimitInv, NEW r \in Events, NEW w \in Webhooks, NEW heard \in BOOLEAN,
           NEW type \in {"created", "updated", "deleted"},
           request[r] \in {"new", "counted"}, Announces(r, type, w, heard),
           row' \in [Webhooks -> Row]
    PROVE  /\ request' \in [Events -> RequestStates]
           /\ about' \in [Events -> Change \cup {NoChange}]
           /\ NothingYet'
           /\ Counted' = Counted \ {r} /\ IsFiniteSet(Counted')
           /\ ~InsertedBy(r)
           /\ InsertedBy(r)' <=> type = "created"
           /\ \A q \in Events \ {r} : InsertedBy(q)' <=> InsertedBy(q)
<1> USE DEF LimitInv, ApiTypes
<1>1. [type |-> type, id |-> w, listens |-> row'[w].enabled /\ row'[w].subscribed] \in Change
  BY DEF Change, Row
<1>2. /\ request' = [request EXCEPT ![r] = IF heard THEN "committed" ELSE "done"]
      /\ about' = [about EXCEPT ![r] =
             [type |-> type, id |-> w,
              listens |-> row'[w].enabled /\ row'[w].subscribed]]
  BY DEF Announces
<1>3. Counted' = Counted \ {r}
  BY <1>2 DEF Counted
<1>4. IsFiniteSet(Counted')
  BY <1>3, FS_Subset
<1>5. ~InsertedBy(r)
  BY DEF InsertedBy, NothingYet
<1>6. about'[r] # NoChange /\ about'[r].type = type
  BY <1>1, <1>2, ApiAssumption
<1>7. \A q \in Events \ {r} : about'[q] = about[q] /\ request'[q] = request[q]
  BY <1>2
<1>8. request'[r] \notin {"new", "counted"}
  BY <1>2
<1>9. QED
  BY <1>1, <1>2, <1>3, <1>4, <1>5, <1>6, <1>7, <1>8
     DEF InsertedBy, NothingYet, RequestStates

-----------------------------------------------------------------------------
\* Every row a step writes is a row, and only a creation makes one exist.
LEMMA RowWrites ==
    ASSUME ApiTypes, NEW w \in Webhooks,
           PatchRow(w) \/ DeleteRow(w) \/ row' = Disabled(w, "attempts")
    PROVE  row' \in [Webhooks -> Row] /\ Existing' \subseteq Existing
<1>0. row \in [Webhooks -> Row]
  BY DEF ApiTypes
<1>1. SUFFICES ASSUME NEW v \in Webhooks
      PROVE  row'[v] \in Row /\ (row'[v].exists => row[v].exists)
  <2>1. row' = [v \in Webhooks |-> row'[v]]
    BY <1>0 DEF PatchRow, DeleteRow, Disabled
  <2>2. QED
    BY <2>1 DEF Existing
<1>2. CASE PatchRow(w)
  <2>1. PICK u \in Urls, s \in BOOLEAN :
            LET patched == [row EXCEPT ![w].url = u, ![w].subscribed = s]
            IN  \/ row' = patched
                \/ row' = [patched EXCEPT ![w].enabled = TRUE, ![w].reason = "none"]
                \/ row' = [patched EXCEPT ![w].enabled = FALSE]
    BY <1>2 DEF PatchRow
  <2> DEFINE patched == [row EXCEPT ![w].url = u, ![w].subscribed = s]
  <2>2. patched \in [Webhooks -> Row] /\ patched[v].exists = row[v].exists
    BY <1>0 DEF Row
  <2> HIDE DEF patched
  <2>3. \/ row' = patched
        \/ row' = [patched EXCEPT ![w].enabled = TRUE, ![w].reason = "none"]
        \/ row' = [patched EXCEPT ![w].enabled = FALSE]
    BY <2>1 DEF patched
  <2>4. CASE row' = patched
    BY <2>2, <2>4
  <2>5. CASE row' = [patched EXCEPT ![w].enabled = TRUE, ![w].reason = "none"]
    <3>1. row'[v] = IF v = w THEN [patched[w] EXCEPT !.enabled = TRUE, !.reason = "none"]
                    ELSE patched[v]
      BY <2>2, <2>5
    <3>2. QED
      BY <2>2, <3>1 DEF Row
  <2>6. CASE row' = [patched EXCEPT ![w].enabled = FALSE]
    <3>1. row'[v] = IF v = w THEN [patched[w] EXCEPT !.enabled = FALSE] ELSE patched[v]
      BY <2>2, <2>6
    <3>2. QED
      BY <2>2, <3>1 DEF Row
  <2>7. QED
    BY <2>3, <2>4, <2>5, <2>6
<1>3. CASE DeleteRow(w)
  <2>1. row'[v] = IF v = w THEN [row[w] EXCEPT !.exists = FALSE] ELSE row[v]
    BY <1>0, <1>3 DEF DeleteRow
  <2>2. QED
    BY <1>0, <2>1 DEF Row
<1>4. CASE row' = Disabled(w, "attempts")
  BY <1>0, <1>4 DEF Disabled, Row
<1>5. QED
  BY <1>2, <1>3, <1>4

\* A request other than a creation, in its only statement.
LEMMA OtherCommits ==
    ASSUME LimitInv, NEW r \in Events, NEW w \in Webhooks, NEW heard \in BOOLEAN,
           NEW type \in {"updated", "deleted"},
           request[r] = "new", Announces(r, type, w, heard),
           row' \in [Webhooks -> Row], Existing' \subseteq Existing,
           overtaken' = overtaken
    PROVE  LimitInv'
<1>1. /\ request' \in [Events -> RequestStates]
      /\ about' \in [Events -> Change \cup {NoChange}]
      /\ NothingYet' /\ Counted' = Counted \ {r} /\ IsFiniteSet(Counted')
      /\ \A q \in Events : InsertedBy(q)' <=> InsertedBy(q)
  BY AnnouncesKeepsTypes
<1>2. Overlapping' = Overlapping
  BY <1>1 DEF Overlapping, LimitInv, ApiTypes
<1>3. ApiTypes'
  BY <1>1 DEF LimitInv, ApiTypes
<1>4. QED
  BY <1>1, <1>2, <1>3, LimitKept

\* A step after which the same requests are where they were, or further on,
\* without a new change of a row.
LEMMA RequestsMoveOn ==
    ASSUME LimitInv, UNCHANGED <<about, overtaken>>,
           row' \in [Webhooks -> Row], Existing' \subseteq Existing,
           request' \in [Events -> RequestStates],
           \A r \in Events : request'[r] = request[r] \/ request'[r] \in {"committed", "done"}
    PROVE  LimitInv'
<1>1. NothingYet'
  BY DEF LimitInv, NothingYet
<1>2. Counted' \subseteq Counted
  BY DEF Counted
<1>3. Overlapping' = Overlapping
  BY DEF Overlapping, InsertedBy
<1>4. ApiTypes'
  BY <1>2, FS_Subset DEF LimitInv, ApiTypes
<1>5. QED
  BY <1>1, <1>2, <1>3, <1>4, LimitKept

\* The count is the moment the room is there.
LEMMA CountKeepsLimit ==
    ASSUME LimitInv, NEW r \in Events, CountWebhooks(r)
    PROVE  LimitInv'
<1> USE DEF LimitInv
<1>1. /\ request' = [request EXCEPT ![r] = "counted"] /\ request[r] = "new"
      /\ UNCHANGED <<row, about, overtaken>>
      /\ Cardinality(Existing) < MaxWebhooks
  BY DEF CountWebhooks, vars
<1>2. Counted' = Counted \cup {r} /\ Existing' = Existing /\ Overlapping' = Overlapping
  BY <1>1 DEF Counted, ApiTypes, Existing, Overlapping, InsertedBy
<1>3. ApiTypes'
  BY <1>1, <1>2, FS_AddElement DEF ApiTypes, RequestStates
<1>4. NothingYet'
  BY <1>1 DEF NothingYet, ApiTypes
<1>5. Cardinality(Existing) + 1 <= MaxWebhooks + Cardinality(Overlapping)
  BY <1>1, Finite, ApiAssumption
<1>6. RoomWhenCounted' /\ LimitExceededOnlyByOverlap'
  BY <1>1, <1>2, <1>5 DEF RoomWhenCounted, LimitExceededOnlyByOverlap, Overlapping
<1>7. QED
  BY <1>3, <1>4, <1>6

\* A creation uses the room up, unless it was overtaken, and overtakes every
\* other request that has counted.
LEMMA CreateKeepsLimit ==
    ASSUME LimitInv, NEW r \in Events, NEW w \in Webhooks, NEW heard \in BOOLEAN,
           CreateWebhook(r, w, heard)
    PROVE  LimitInv'
<1> USE DEF LimitInv
<1>1. /\ request[r] = "counted" /\ Announces(r, "created", w, heard)
      /\ overtaken' = overtaken \cup (Counted \ {r})
  BY DEF CreateWebhook, Commits, Counted
<1>2. PICK fresh \in FreshRow : row' = [row EXCEPT ![w] = fresh]
  BY DEF CreateWebhook
<1>3. row' \in [Webhooks -> Row] /\ Existing' = Existing \cup {w}
  BY <1>2 DEF FreshRow, ApiTypes, Existing
<1>4. /\ request' \in [Events -> RequestStates]
      /\ about' \in [Events -> Change \cup {NoChange}]
      /\ NothingYet' /\ Counted' = Counted \ {r} /\ IsFiniteSet(Counted')
      /\ ~InsertedBy(r) /\ InsertedBy(r)'
      /\ \A q \in Events \ {r} : InsertedBy(q)' <=> InsertedBy(q)
  BY <1>1, <1>3, AnnouncesKeepsTypes
<1>5. IsFiniteSet(overtaken') /\ overtaken' \subseteq Events
  <2>1. IsFiniteSet(Counted \ {r})
    BY FS_Subset DEF ApiTypes
  <2>2. QED
    BY <1>1, <2>1, FS_Union DEF ApiTypes, Counted
<1>6. ApiTypes'
  BY <1>3, <1>4, <1>5 DEF ApiTypes
<1>7. \A q \in Counted : q \in Events /\ ~InsertedBy(q)
  BY DEF Counted, NothingYet, InsertedBy
<1>8. Overlapping' = IF r \in overtaken THEN Overlapping \cup {r} ELSE Overlapping
  BY <1>1, <1>4, <1>7 DEF Overlapping, ApiTypes
<1>9. /\ Cardinality(Existing') <= Cardinality(Existing) + 1
      /\ Cardinality(Existing') \in Nat
  <2>1. Cardinality(Existing \cup {w}) =
            IF w \in Existing THEN Cardinality(Existing) ELSE Cardinality(Existing) + 1
    BY Finite, FS_AddElement
  <2>2. QED
    BY <1>3, <2>1, Finite
<1>10. /\ r \in overtaken => Cardinality(Overlapping') = Cardinality(Overlapping) + 1
       /\ r \notin overtaken => Cardinality(Overlapping') = Cardinality(Overlapping)
  BY <1>4, <1>8, Finite, FS_AddElement DEF Overlapping
<1>11. /\ Cardinality(Existing) <= MaxWebhooks + Cardinality(Overlapping)
       /\ r \notin overtaken =>
              Cardinality(Existing) + 1 <= MaxWebhooks + Cardinality(Overlapping)
  BY <1>1 DEF LimitExceededOnlyByOverlap, Overlapping, RoomWhenCounted, Counted
<1>12. Cardinality(Existing') <= MaxWebhooks + Cardinality(Overlapping')
  BY <1>9, <1>10, <1>11, Finite, ApiAssumption
<1>13. Counted' \ overtaken' = {}
  BY <1>1, <1>4
<1>14. QED
  BY <1>4, <1>6, <1>12, <1>13
     DEF LimitExceededOnlyByOverlap, Overlapping, RoomWhenCounted

-----------------------------------------------------------------------------
\* At most Preexisting rows exist at the start, and nobody has counted.
LEMMA LimitInit == ApiInit => LimitInv
<1> SUFFICES ASSUME ApiInit PROVE LimitInv
  OBVIOUS
<1>1. row \in [Webhooks -> Row] /\ Existing = Preexisting
  <2>1. /\ row \in [Webhooks -> FreshRow \cup {NeverCreated}]
        /\ \A w \in Webhooks : row[w].exists <=> w \in Preexisting
    BY DEF ApiInit
  <2>2. FreshRow \cup {NeverCreated} \subseteq Row
    <3>1. NeverCreated \in Row
      BY DispatchAssumption DEF NeverCreated, Row
    <3>2. QED
      BY <3>1 DEF FreshRow
  <2>3. QED
    BY <2>1, <2>2, ApiAssumption DEF Existing
<1>2. Counted = {} /\ Overlapping = {}
  BY DEF ApiInit, Counted, Overlapping
<1>3. ApiTypes
  BY <1>1, <1>2, FS_EmptySet DEF ApiInit, ApiTypes, RequestStates
<1>4. LimitExceededOnlyByOverlap
  BY <1>1, <1>2, ApiAssumption, FS_EmptySet DEF LimitExceededOnlyByOverlap, Overlapping
<1>5. QED
  BY <1>2, <1>3, <1>4 DEF LimitInv, NothingYet, RoomWhenCounted, ApiInit

\* One step per action of the API, of the bus and of the provider.
LEMMA LimitNext == LimitInv /\ [ApiNext]_apiVars => LimitInv'
<1> SUFFICES ASSUME LimitInv, [ApiNext]_apiVars PROVE LimitInv'
  OBVIOUS
<1>0. row \in [Webhooks -> Row] /\ request \in [Events -> RequestStates]
  BY DEF LimitInv, ApiTypes
<1>1. ASSUME NEW r \in Events, NEW w \in Webhooks, NEW heard \in BOOLEAN,
             CreateWebhook(r, w, heard)
      PROVE  LimitInv'
  BY <1>1, CreateKeepsLimit
<1>2. ASSUME NEW r \in Events, NEW w \in Webhooks, NEW heard \in BOOLEAN,
             PatchWebhook(r, w, heard) \/ RemoveWebhook(r, w, heard)
      PROVE  LimitInv'
  <2>1. row' \in [Webhooks -> Row] /\ Existing' \subseteq Existing
    BY <1>2, RowWrites DEF PatchWebhook, RemoveWebhook, LimitInv
  <2>2. QED
    BY <1>2, <2>1, OtherCommits DEF PatchWebhook, RemoveWebhook, Commits
<1>3. ASSUME NEW r \in Events, NEW w \in Webhooks, PatchNothing(r, w) PROVE LimitInv'
  <2>1. UNCHANGED row /\ Existing' = Existing
    BY <1>3 DEF PatchNothing, vars, Existing
  <2>2. QED
    BY <1>0, <1>3, <2>1, OtherCommits DEF PatchNothing
<1>4. ASSUME NEW r \in Events, CountWebhooks(r) PROVE LimitInv'
  BY <1>4, CountKeepsLimit
<1>5. ASSUME NEW r \in Events, LimitReached(r) \/ RequestFails(r) \/ Publish(r)
      PROVE  LimitInv'
  <2>1. /\ request' = [request EXCEPT ![r] = "done"]
        /\ UNCHANGED <<row, about, overtaken>>
    BY <1>5 DEF LimitReached, RequestFails, Publish, vars
  <2>2. Existing' = Existing
    BY <2>1 DEF Existing
  <2>3. QED
    BY <1>0, <2>1, <2>2, RequestsMoveOn DEF RequestStates
<1>6. ASSUME NEW w \in Webhooks, WorkerDisables(w) PROVE LimitInv'
  <2>1. row' \in [Webhooks -> Row] /\ Existing' \subseteq Existing
    BY <1>6, RowWrites DEF WorkerDisables, LimitInv
  <2>2. QED
    BY <1>0, <1>6, <2>1, RequestsMoveOn DEF WorkerDisables
<1>7. CASE ConsumeEvent \/ Enqueue
  <2>1. UNCHANGED <<row, request, about, overtaken>>
    BY <1>7 DEF ConsumeEvent, Enqueue, StartFanOut, ListFails, InsertBatch, InsertBatchFails
  <2>2. Existing' = Existing
    BY <2>1 DEF Existing
  <2>3. QED
    BY <1>0, <2>1, <2>2, RequestsMoveOn
<1>8. CASE ProcessDies
  <2>1. /\ UNCHANGED <<row, about, overtaken>>
        /\ request' = [r \in Events |-> IF request[r] = "new" THEN "new" ELSE "done"]
    BY <1>8 DEF ProcessDies, Crash
  <2>2. Existing' = Existing
    BY <2>1 DEF Existing
  <2>3. QED
    BY <1>0, <2>1, <2>2, RequestsMoveOn DEF RequestStates
<1>9. CASE UNCHANGED apiVars
  <2>1. UNCHANGED <<row, request, about, overtaken>>
    BY <1>9 DEF apiVars, vars
  <2>2. Existing' = Existing
    BY <2>1 DEF Existing
  <2>3. QED
    BY <1>0, <2>1, <2>2, RequestsMoveOn
<1>10. QED
  BY <1>1, <1>2, <1>3, <1>4, <1>5, <1>6, <1>7, <1>8, <1>9 DEF ApiNext

\* For any number of requests, webhooks and any limit: every row above
\* WEBHOOK_MAX_COUNT was inserted by a request that had counted before another
\* one inserted (CreateWebhook).
THEOREM LimitHoldsUpToRaces == ApiSpec => []LimitExceededOnlyByOverlap
<1>1. LimitInv => LimitExceededOnlyByOverlap
  BY DEF LimitInv
<1>2. QED
  BY <1>1, LimitInit, LimitNext, PTL DEF ApiSpec
-----------------------------------------------------------------------------
(* What the provider finds.                                                *)

\* A write touches one row; a PATCH does not remove it, a DELETE does.
LEMMA OneRowWritten ==
    ASSUME row \in [Webhooks -> Row], NEW w \in Webhooks,
           PatchRow(w) \/ DeleteRow(w) \/ row' = Disabled(w, "attempts")
    PROVE  \A v \in Webhooks \ {w} : row'[v] = row[v]
  BY DEF PatchRow, DeleteRow, Disabled

LEMMA PatchKeepsRow ==
    ASSUME row \in [Webhooks -> Row], NEW w \in Webhooks, PatchRow(w)
    PROVE  row'[w].exists = row[w].exists
<1>1. PICK u \in Urls, s \in BOOLEAN :
          LET patched == [row EXCEPT ![w].url = u, ![w].subscribed = s]
          IN  \/ row' = patched
              \/ row' = [patched EXCEPT ![w].enabled = TRUE, ![w].reason = "none"]
              \/ row' = [patched EXCEPT ![w].enabled = FALSE]
  BY DEF PatchRow
<1> DEFINE patched == [row EXCEPT ![w].url = u, ![w].subscribed = s]
<1>2. patched \in [Webhooks -> Row] /\ patched[w].exists = row[w].exists
  BY DEF Row
<1> HIDE DEF patched
<1>3. \/ row' = patched
      \/ row' = [patched EXCEPT ![w].enabled = TRUE, ![w].reason = "none"]
      \/ row' = [patched EXCEPT ![w].enabled = FALSE]
  BY <1>1 DEF patched
<1>4. CASE row' = patched
  BY <1>2, <1>4
<1>5. CASE row' = [patched EXCEPT ![w].enabled = TRUE, ![w].reason = "none"]
  <2>1. row'[w] = [patched[w] EXCEPT !.enabled = TRUE, !.reason = "none"]
    BY <1>2, <1>5
  <2>2. QED
    BY <1>2, <2>1 DEF Row
<1>6. CASE row' = [patched EXCEPT ![w].enabled = FALSE]
  <2>1. row'[w] = [patched[w] EXCEPT !.enabled = FALSE]
    BY <1>2, <1>6
  <2>2. QED
    BY <1>2, <2>1 DEF Row
<1>7. QED
  BY <1>3, <1>4, <1>5, <1>6

LEMMA DeleteRemovesRow ==
    ASSUME row \in [Webhooks -> Row], NEW w \in Webhooks, DeleteRow(w)
    PROVE  ~row'[w].exists
<1>1. row'[w] = [row[w] EXCEPT !.exists = FALSE] /\ row[w] \in Row
  BY DEF DeleteRow
<1>2. QED
  BY <1>1 DEF Row

\* What a request has committed is on record before its event is published.
Published ==
    /\ \A n \in DOMAIN log : about[log[n]] # NoChange
    /\ \A r \in Events : request[r] = "committed" => about[r] # NoChange
    /\ \A r \in handled : about[r] # NoChange

\* The row a change is about was created; after its deletion it stays away;
\* and until the event is handled or somebody writes the row again, it looks
\* as the request left it.
RowAsLeft(r) ==
    /\ about[r] # NoChange =>
           /\ about[r].id \in created
           /\ about[r].type = "deleted" => ~row[about[r].id].exists
    /\ r \notin handled =>
           /\ listed[r] = {}
           /\ /\ about[r] # NoChange /\ about[r].type # "deleted"
              /\ about[r].listens /\ r \notin rewritten
              => about[r].id \in ListEnabledForEventType

RowsAsLeft == \A r \in Events : RowAsLeft(r)

\* The types of the bus, and of what its requests have done.
BusTypes ==
    /\ TypeOK
    /\ request \in [Events -> RequestStates]
    /\ created \subseteq Webhooks /\ Existing \subseteq created
    /\ about \in [Events -> Change \cup {NoChange}]
    /\ overtaken \subseteq Events /\ rewritten \subseteq Events
    /\ log \in Seq(Events) /\ refused \subseteq Events
    /\ consumed \in [1..1 -> Seq(Events)]

\* A change is on record from then on, and only its own.
LEMMA AnnouncesRecord ==
    ASSUME LimitInv, NEW r \in Events, NEW w \in Webhooks, NEW heard \in BOOLEAN,
           NEW type \in {"created", "updated", "deleted"},
           Announces(r, type, w, heard), row' \in [Webhooks -> Row]
    PROVE  /\ about'[r] = [type |-> type, id |-> w,
                           listens |-> row'[w].enabled /\ row'[w].subscribed]
           /\ about'[r] # NoChange
           /\ \A q \in Events \ {r} : about'[q] = about[q] /\ request'[q] = request[q]
           /\ UNCHANGED <<log, refused, consumed>>
<1>1. [type |-> type, id |-> w, listens |-> row'[w].enabled /\ row'[w].subscribed]
          \in Change
  BY DEF Change, Row
<1>2. about'[r] = [type |-> type, id |-> w,
                   listens |-> row'[w].enabled /\ row'[w].subscribed]
  BY DEF Announces, LimitInv, ApiTypes
<1>3. QED
  BY <1>1, <1>2, ApiAssumption DEF Announces, LimitInv, ApiTypes, busVars

\* The bus takes the event of a committed request, or loses it.
LEMMA PublishEffect ==
    ASSUME BusTypes, Published, NEW r \in Events, Publish(r)
    PROVE  /\ log' \in Seq(Events) /\ refused' \subseteq Events
           /\ UNCHANGED consumed
           /\ \A n \in DOMAIN log' : about[log'[n]] # NoChange
<1>1. CASE Bus!Take(r)
  <2>1. log' = Append(log, r) /\ UNCHANGED <<refused, consumed>>
    BY <1>1 DEF Bus!Take
  <2>2. about[r] # NoChange
    BY DEF Publish, Published
  <2>3. QED
    BY <2>1, <2>2 DEF BusTypes, Published
<1>2. CASE Bus!Refuse(r)
  BY <1>2 DEF Bus!Refuse, BusTypes, Published
<1>3. QED
  BY <1>1, <1>2 DEF Publish

\* The provider is given an entry of the log.
LEMMA ConsumeEffect ==
    ASSUME BusTypes, ConsumeEvent
    PROVE  /\ UNCHANGED <<log, refused>> /\ consumed' \in [1..1 -> Seq(Events)]
           /\ \E n \in DOMAIN log :
                  log[n] \in Events /\ (StartFanOut(log[n]) \/ ListFails(log[n]))
<1>1. Bus!Consume(1)
  BY DEF ConsumeEvent
<1> DEFINE n == Len(consumed[1]) + 1
<1>2. /\ n <= Len(log) /\ UNCHANGED <<log, refused>>
      /\ consumed' = [consumed EXCEPT ![1] = Append(@, log[n])]
  BY <1>1 DEF Bus!Consume
<1>3. n \in DOMAIN log /\ log[n] \in Events
  BY <1>2 DEF BusTypes
<1>4. StartFanOut(log[n]) \/ ListFails(log[n])
  BY DEF ConsumeEvent
<1>5. consumed' \in [1..1 -> Seq(Events)]
  BY <1>2, <1>3 DEF BusTypes
<1>6. QED
  BY <1>2, <1>3, <1>4, <1>5

-----------------------------------------------------------------------------
\* The requests that commit: one row is written, and then looks like the
\* record of the change says.
Commit(r, w) ==
    \E heard \in BOOLEAN :
        \/ CreateWebhook(r, w, heard) \/ PatchWebhook(r, w, heard)
        \/ RemoveWebhook(r, w, heard) \/ PatchNothing(r, w)

LeftByCommit(r, w, type, heard) ==
    /\ Announces(r, type, w, heard)
    /\ \/ rewritten' = rewritten \cup About(w)
       \/ UNCHANGED <<row, rewritten>>
    /\ request[r] \in {"new", "counted"}
    /\ row' \in [Webhooks -> Row]
    /\ \A v \in Webhooks \ {w} : row'[v] = row[v]
    /\ row'[w].exists <=> type # "deleted"
    /\ w \in created => (row'[w].exists => row[w].exists)
    /\ created' \subseteq Webhooks /\ created \cup {w} \subseteq created'
    /\ Existing' \subseteq Existing \cup {w}
    /\ UNCHANGED <<fanoutVars, job, run, received, acked, edits, faults>>
    /\ changed' \subseteq Jobs /\ overtaken' \subseteq Events

LEMMA CommitEffect ==
    ASSUME LimitInv, BusTypes, NEW r \in Events, NEW w \in Webhooks, Commit(r, w)
    PROVE  \E type \in {"created", "updated", "deleted"}, heard \in BOOLEAN :
               LeftByCommit(r, w, type, heard)
<1>0. /\ row \in [Webhooks -> Row] /\ changed \subseteq Jobs
      /\ overtaken \subseteq Events
      /\ created \subseteq Webhooks /\ Existing \subseteq created
  BY DEF BusTypes, TypeOK
<1>1. ASSUME NEW heard \in BOOLEAN, CreateWebhook(r, w, heard)
      PROVE  LeftByCommit(r, w, "created", heard)
  <2>1. PICK fresh \in FreshRow : row' = [row EXCEPT ![w] = fresh]
    BY <1>1 DEF CreateWebhook
  <2>2. /\ row' \in [Webhooks -> Row] /\ row'[w].exists
        /\ \A v \in Webhooks \ {w} : row'[v] = row[v]
        /\ Existing' \subseteq Existing \cup {w}
    BY <1>0, <2>1 DEF FreshRow, Existing
  <2>3. overtaken' \subseteq Events
    BY <1>0, <1>1 DEF CreateWebhook
  <2>4. QED
    BY <1>0, <1>1, <2>2, <2>3 DEF CreateWebhook, LeftByCommit, Commits, history
<1>2. ASSUME NEW heard \in BOOLEAN, PatchWebhook(r, w, heard)
      PROVE  LeftByCommit(r, w, "updated", heard)
  <2>1. /\ row' \in [Webhooks -> Row] /\ Existing' \subseteq Existing
        /\ \A v \in Webhooks \ {w} : row'[v] = row[v]
        /\ row'[w].exists = row[w].exists
    BY <1>0, <1>2, RowWrites, OneRowWritten, PatchKeepsRow DEF PatchWebhook, LimitInv
  <2>2. row[w].exists /\ w \in created
    BY <1>0, <1>2 DEF PatchWebhook, OnRow, Existing
  <2>3. changed' \subseteq Jobs
    BY <1>0, <1>2 DEF PatchWebhook, OnRow, Touched
  <2>4. QED
    BY <1>0, <1>2, <2>1, <2>2, <2>3 DEF PatchWebhook, OnRow, LeftByCommit, Commits
<1>3. ASSUME NEW heard \in BOOLEAN, RemoveWebhook(r, w, heard)
      PROVE  LeftByCommit(r, w, "deleted", heard)
  <2>1. /\ row' \in [Webhooks -> Row] /\ Existing' \subseteq Existing
        /\ \A v \in Webhooks \ {w} : row'[v] = row[v]
        /\ ~row'[w].exists
    BY <1>0, <1>3, RowWrites, OneRowWritten, DeleteRemovesRow DEF RemoveWebhook, LimitInv
  <2>2. row[w].exists /\ w \in created
    BY <1>0, <1>3 DEF RemoveWebhook, OnRow, Existing
  <2>3. changed' \subseteq Jobs
    BY <1>0, <1>3 DEF RemoveWebhook, OnRow, Touched
  <2>4. QED
    BY <1>0, <1>3, <2>1, <2>2, <2>3 DEF RemoveWebhook, OnRow, LeftByCommit, Commits
<1>4. ASSUME PatchNothing(r, w) PROVE LeftByCommit(r, w, "updated", TRUE)
  <2>1. row[w].exists /\ w \in created /\ UNCHANGED vars
    BY <1>0, <1>4 DEF PatchNothing, Existing
  <2>2. Existing' = Existing
    BY <2>1 DEF Existing, vars
  <2>3. QED
    BY <1>0, <1>4, <2>1, <2>2 DEF PatchNothing, LeftByCommit, vars, fanoutVars
<1>5. QED
  BY <1>1, <1>2, <1>3, <1>4 DEF Commit

-----------------------------------------------------------------------------
\* Variables keep their types.
LEMMA BusTypesInductive ==
    /\ ApiInit => BusTypes
    /\ LimitInv /\ BusTypes /\ Published /\ [ApiNext]_apiVars => BusTypes'
<1>1. ApiInit => BusTypes
  <2> SUFFICES ASSUME ApiInit PROVE BusTypes
    OBVIOUS
  <2>1. row \in [Webhooks -> Row] /\ Existing \subseteq created
    <3>1. /\ row \in [Webhooks -> FreshRow \cup {NeverCreated}]
          /\ \A w \in Webhooks : row[w].exists <=> w \in Preexisting
      BY DEF ApiInit
    <3>2. NeverCreated \in Row
      BY DispatchAssumption DEF NeverCreated, Row
    <3>3. QED
      BY <3>1, <3>2 DEF FreshRow, Existing, ApiInit
  <2>2. TypeOK
    BY <2>1, DispatchAssumption
       DEF ApiInit, NothingPublished, TypeOK, JobStates, RunStates, Free
  <2>3. QED
    BY <2>1, <2>2, ApiAssumption
       DEF ApiInit, BusTypes, RequestStates, Bus!BusInit, Bus!Consumers
<1>2. LimitInv /\ BusTypes /\ Published /\ [ApiNext]_apiVars => BusTypes'
  <2> SUFFICES ASSUME LimitInv, BusTypes, Published, [ApiNext]_apiVars
               PROVE  BusTypes'
    OBVIOUS
  <2>0. /\ request' \in [Events -> RequestStates]
        /\ about' \in [Events -> Change \cup {NoChange}]
        /\ overtaken' \subseteq Events /\ row' \in [Webhooks -> Row]
    BY LimitNext DEF LimitInv, ApiTypes
  <2>1. ASSUME NEW r \in Events, NEW w \in Webhooks, Commit(r, w) PROVE BusTypes'
    <3>1. PICK type \in {"created", "updated", "deleted"}, heard \in BOOLEAN :
              LeftByCommit(r, w, type, heard)
      BY <2>1, CommitEffect
    <3>2. TypeOK'
      BY <2>0, <3>1 DEF LeftByCommit, BusTypes, TypeOK, fanoutVars
    <3>3. rewritten' \subseteq Events
      BY <3>1 DEF LeftByCommit, About, BusTypes
    <3>4. /\ created' \subseteq Webhooks /\ Existing' \subseteq created'
          /\ UNCHANGED <<log, refused, consumed>>
      BY <3>1 DEF LeftByCommit, Announces, BusTypes, busVars
    <3>5. QED
      BY <2>0, <3>2, <3>3, <3>4 DEF BusTypes
  <2>2. CASE UNCHANGED <<vars, created, about, overtaken, rewritten, busVars>>
    <3>1. Existing' = Existing /\ TypeOK'
      BY <2>2 DEF Existing, vars, BusTypes, TypeOK
    <3>2. QED
      BY <2>0, <2>2, <3>1 DEF BusTypes, busVars
  <2>3. ASSUME NEW r \in Events, Publish(r) PROVE BusTypes'
    <3>1. UNCHANGED <<vars, created, rewritten>>
      BY <2>3 DEF Publish
    <3>2. Existing' = Existing /\ TypeOK'
      BY <3>1 DEF Existing, vars, BusTypes, TypeOK
    <3>3. QED
      BY <2>0, <2>3, <3>1, <3>2, PublishEffect DEF BusTypes
  <2>4. ASSUME NEW w \in Webhooks, WorkerDisables(w) PROVE BusTypes'
    <3>1. Existing' \subseteq Existing
      BY <2>4, RowWrites DEF WorkerDisables, LimitInv
    <3>2. rewritten' \subseteq Events
      BY <2>4 DEF WorkerDisables, About, BusTypes
    <3>3. TypeOK'
      BY <2>0, <2>4 DEF WorkerDisables, BusTypes, TypeOK, fanoutVars, history
    <3>4. QED
      BY <2>0, <2>4, <3>1, <3>2, <3>3 DEF WorkerDisables, BusTypes, busVars
  <2>5. CASE ConsumeEvent
    <3>1. PICK e \in Events : StartFanOut(e) \/ ListFails(e)
      BY <2>5, ConsumeEffect
    <3>2. TypeOK'
      <4>1. CASE StartFanOut(e)
        BY <4>1 DEF StartFanOut, ListEnabledForEventType, BusTypes, TypeOK, history
      <4>2. CASE ListFails(e)
        BY <4>2, DispatchAssumption DEF ListFails, Fault, BusTypes, TypeOK, history
      <4>3. QED
        BY <3>1, <4>1, <4>2
    <3>3. Existing' = Existing
      BY <3>1 DEF Existing, StartFanOut, ListFails
    <3>4. QED
      BY <2>0, <2>5, <3>2, <3>3, ConsumeEffect DEF ConsumeEvent, BusTypes
  <2>6. CASE Enqueue
    <3>1. TypeOK'
      <4>1. Inserted(fanout.event, Batch(fanout.rest))
                \in [Jobs -> [state : JobStates, attempt : 0..MaxAttempts]]
        BY DispatchAssumption DEF Inserted, BusTypes, TypeOK, JobStates
      <4>2. CASE InsertBatch
        BY <4>1, <4>2 DEF InsertBatch, BusTypes, TypeOK, history
      <4>3. CASE InsertBatchFails
        BY <4>1, <4>3, DispatchAssumption
           DEF InsertBatchFails, Fault, BusTypes, TypeOK, history
      <4>4. QED
        BY <2>6, <4>2, <4>3 DEF Enqueue
    <3>2. Existing' = Existing
      BY <2>6 DEF Enqueue, Existing, InsertBatch, InsertBatchFails
    <3>3. QED
      BY <2>0, <2>6, <3>1, <3>2 DEF Enqueue, BusTypes, busVars
  <2>7. CASE ProcessDies
    <3>1. TypeOK'
      BY <2>7, DispatchAssumption
         DEF ProcessDies, Crash, Fault, BusTypes, TypeOK, history, RunStates, Free
    <3>2. Existing' = Existing
      BY <2>7 DEF ProcessDies, Crash, Existing
    <3>3. QED
      BY <2>0, <2>7, <3>1, <3>2 DEF ProcessDies, BusTypes
  <2>8. QED
    BY <2>1, <2>2, <2>3, <2>4, <2>5, <2>6, <2>7
       DEF ApiNext, Commit, CountWebhooks, LimitReached, RequestFails, apiVars, busVars
<1>3. QED
  BY <1>1, <1>2

\* Only committed changes are published, and only published ones handled.
LEMMA PublishedInductive ==
    /\ ApiInit => Published
    /\ LimitInv /\ BusTypes /\ Published /\ [ApiNext]_apiVars => Published'
<1>1. ApiInit => Published
  BY DEF ApiInit, NothingPublished, Published, Bus!BusInit
<1>2. LimitInv /\ BusTypes /\ Published /\ [ApiNext]_apiVars => Published'
  <2> SUFFICES ASSUME LimitInv, BusTypes, Published, [ApiNext]_apiVars
               PROVE  Published'
    OBVIOUS
  <2>0. /\ \A n \in DOMAIN log : log[n] \in Events
        /\ request \in [Events -> RequestStates]
    BY DEF BusTypes
  <2>1. ASSUME NEW r \in Events, NEW w \in Webhooks, Commit(r, w) PROVE Published'
    <3>1. PICK type \in {"created", "updated", "deleted"}, heard \in BOOLEAN :
              LeftByCommit(r, w, type, heard)
      BY <2>1, CommitEffect
    <3>2. /\ about'[r] # NoChange /\ UNCHANGED <<log, handled>>
          /\ \A q \in Events \ {r} : about'[q] = about[q] /\ request'[q] = request[q]
      BY <3>1, AnnouncesRecord DEF LeftByCommit, fanoutVars
    <3>3. handled \subseteq Events
      BY DEF BusTypes, TypeOK
    <3>4. QED
      BY <2>0, <3>2, <3>3 DEF Published
  <2>2. ASSUME NEW r \in Events, CountWebhooks(r) \/ LimitReached(r) \/ RequestFails(r)
        PROVE  Published'
    <3>1. /\ UNCHANGED <<log, about, handled>>
          /\ \A q \in Events : request'[q] = "committed" => request[q] = "committed"
      BY <2>0, <2>2 DEF CountWebhooks, LimitReached, RequestFails, vars, busVars
    <3>2. QED
      BY <3>1 DEF Published
  <2>3. ASSUME NEW r \in Events, Publish(r) PROVE Published'
    <3>1. /\ UNCHANGED <<about, handled>>
          /\ \A q \in Events : request'[q] = "committed" => request[q] = "committed"
      BY <2>0, <2>3 DEF Publish, vars
    <3>2. QED
      BY <2>3, <3>1, PublishEffect DEF Published
  <2>4. CASE ConsumeEvent
    <3>1. PICK n \in DOMAIN log : StartFanOut(log[n]) \/ ListFails(log[n])
      BY <2>4, ConsumeEffect
    <3>2. /\ handled' = handled \cup {log[n]} /\ UNCHANGED <<log, about, request>>
      BY <2>4, <3>1, ConsumeEffect DEF StartFanOut, ListFails, ConsumeEvent
    <3>3. QED
      BY <3>2 DEF Published
  <2>5. CASE ProcessDies
    BY <2>5 DEF ProcessDies, Crash, Published
  <2>6. CASE UNCHANGED <<log, about, request, handled>>
    BY <2>6 DEF Published
  <2>7. QED
    BY <2>1, <2>2, <2>3, <2>4, <2>5, <2>6
       DEF ApiNext, Commit, WorkerDisables, Enqueue, InsertBatch, InsertBatchFails,
           apiVars, vars, busVars, fanoutVars
<1>3. QED
  BY <1>1, <1>2

\* The rows the requests left stay so until somebody writes them.
LEMMA RowsAsLeftInductive ==
    /\ ApiInit => RowsAsLeft
    /\ LimitInv /\ BusTypes /\ Published /\ RowsAsLeft /\ [ApiNext]_apiVars
       => RowsAsLeft'
<1>1. ApiInit => RowsAsLeft
  BY DEF ApiInit, NothingPublished, RowsAsLeft, RowAsLeft
<1>2. LimitInv /\ BusTypes /\ Published /\ RowsAsLeft /\ [ApiNext]_apiVars
      => RowsAsLeft'
  <2> SUFFICES ASSUME LimitInv, BusTypes, Published, RowsAsLeft,
                      [ApiNext]_apiVars, NEW q \in Events
               PROVE  RowAsLeft(q)'
    BY DEF RowsAsLeft
  <2>0. RowAsLeft(q) /\ (about[q] # NoChange => about[q].id \in Webhooks)
    BY DEF RowsAsLeft, BusTypes, Change
  <2>1. ASSUME UNCHANGED <<listed, handled>>, about'[q] = about[q],
               created \subseteq created', NEW w \in Webhooks,
               \A v \in Webhooks \ {w} : row'[v] = row[v],
               w \in created => (row'[w].exists => row[w].exists),
               \/ rewritten' = rewritten \cup About(w)
               \/ UNCHANGED <<row, rewritten>>
        PROVE  RowAsLeft(q)'
    <3>1. CASE about[q] = NoChange
      BY <2>0, <2>1, <3>1 DEF RowAsLeft
    <3>2. CASE about[q] # NoChange /\ about[q].id # w
      <4>1. row'[about[q].id] = row[about[q].id]
        BY <2>0, <2>1, <3>2
      <4>2. QED
        BY <2>0, <2>1, <3>2, <4>1 DEF RowAsLeft, ListEnabledForEventType
    <3>3. CASE /\ about[q] # NoChange /\ about[q].id = w
               /\ rewritten' = rewritten \cup About(w)
      <4>1. q \notin handled => q \in rewritten'
        BY <3>3 DEF About
      <4>2. QED
        BY <2>0, <2>1, <3>3, <4>1 DEF RowAsLeft
    <3>4. CASE UNCHANGED <<row, rewritten>>
      BY <2>0, <2>1, <3>4 DEF RowAsLeft, ListEnabledForEventType
    <3>5. QED
      BY <2>1, <3>1, <3>2, <3>3, <3>4
  <2>2. ASSUME NEW r \in Events, NEW w \in Webhooks, Commit(r, w)
        PROVE  RowAsLeft(q)'
    <3>1. PICK type \in {"created", "updated", "deleted"}, heard \in BOOLEAN :
              LeftByCommit(r, w, type, heard)
      BY <2>2, CommitEffect
    <3>2. /\ about'[r] = [type |-> type, id |-> w,
                          listens |-> row'[w].enabled /\ row'[w].subscribed]
          /\ \A p \in Events \ {r} : about'[p] = about[p]
          /\ UNCHANGED <<listed, handled>>
      <4>1. /\ Announces(r, type, w, heard) /\ row' \in [Webhooks -> Row]
            /\ UNCHANGED <<listed, handled>>
        BY <3>1 DEF LeftByCommit, fanoutVars
      <4>2. QED
        BY <4>1, AnnouncesRecord
    <3>3. CASE q = r
      <4>1. r \notin handled
        <5>1. about[r] = NoChange
          BY <3>1 DEF LeftByCommit, LimitInv, NothingYet
        <5>2. QED
          BY <5>1 DEF Published
      <4>2. /\ about'[r].type = type /\ about'[r].id = w
            /\ about'[r].listens => row'[w].enabled /\ row'[w].subscribed
        <5>1. row'[w] \in Row
          BY <3>1 DEF LeftByCommit
        <5>2. PICK l \in BOOLEAN : l = (row'[w].enabled /\ row'[w].subscribed)
          OBVIOUS
        <5>3. about'[r] = [type |-> type, id |-> w, listens |-> l]
          BY <3>2, <5>2
        <5>4. about'[r].type = type /\ about'[r].id = w /\ about'[r].listens = l
          BY <5>3
        <5>5. CASE l = FALSE
          BY <5>4, <5>5
        <5>6. CASE l = TRUE
          <6>1. row'[w].enabled /\ row'[w].subscribed
            BY <5>2, <5>6
          <6>2. QED
            BY <5>4, <6>1
        <5>7. QED
          BY <5>5, <5>6
      <4>3. /\ w \in created' /\ listed'[r] = {}
            /\ row'[w].exists <=> type # "deleted"
        BY <2>0, <3>1, <3>2, <3>3, <4>1 DEF LeftByCommit, RowAsLeft
      <4>4. QED
        BY <3>3, <4>2, <4>3 DEF RowAsLeft, ListEnabledForEventType
    <3>4. CASE q # r
      BY <2>1, <3>1, <3>2, <3>4 DEF LeftByCommit
    <3>5. QED
      BY <3>3, <3>4
  <2>3. ASSUME NEW w \in Webhooks, WorkerDisables(w) PROVE RowAsLeft(q)'
    <3>1. row \in [Webhooks -> Row] /\ row' = Disabled(w, "attempts")
      BY <2>3 DEF WorkerDisables, BusTypes, TypeOK
    <3>2. Existing' \subseteq Existing /\ \A v \in Webhooks \ {w} : row'[v] = row[v]
      BY <3>1, RowWrites, OneRowWritten DEF LimitInv
    <3>3. QED
      BY <2>1, <2>3, <3>2 DEF WorkerDisables, fanoutVars, Existing
  <2>4. CASE ConsumeEvent
    <3>1. PICK n \in DOMAIN log :
              log[n] \in Events /\ (StartFanOut(log[n]) \/ ListFails(log[n]))
      BY <2>4, ConsumeEffect
    <3>2. /\ handled' = handled \cup {log[n]}
          /\ q \notin handled' => listed'[q] = listed[q]
          /\ UNCHANGED <<row, about, created, rewritten>>
      BY <2>4, <3>1 DEF StartFanOut, ListFails, ConsumeEvent, BusTypes, TypeOK
    <3>3. QED
      BY <2>0, <3>2 DEF RowAsLeft, ListEnabledForEventType
  <2>5. CASE UNCHANGED <<row, about, created, rewritten, listed, handled>>
    BY <2>0, <2>5 DEF RowAsLeft, ListEnabledForEventType
  <2>6. QED
    BY <2>2, <2>3, <2>4, <2>5
       DEF ApiNext, Commit, CountWebhooks, LimitReached, RequestFails, Publish,
           Enqueue, InsertBatch, InsertBatchFails, ProcessDies, Crash, apiVars, vars
<1>3. QED
  BY <1>1, <1>2

ApiInv == LimitInv /\ BusTypes /\ Published /\ RowsAsLeft

LEMMA ApiInvariant == ApiSpec => []ApiInv
<1>1. ApiInit => ApiInv
  BY LimitInit, BusTypesInductive, PublishedInductive, RowsAsLeftInductive DEF ApiInv
<1>2. ApiInv /\ [ApiNext]_apiVars => ApiInv'
  BY LimitNext, BusTypesInductive, PublishedInductive, RowsAsLeftInductive DEF ApiInv
<1>3. QED
  BY <1>1, <1>2, PTL DEF ApiSpec

\* The variables keep their types; a row exists only under an id that was
\* created, and the bus carries only changes that were committed.
THEOREM WebhooksApiTypes == ApiSpec => []ApiTypeOK
<1>1. ApiInv => ApiTypeOK
  <2> SUFFICES ASSUME ApiInv PROVE ApiTypeOK
    OBVIOUS
  <2>1. log \in Seq({r \in Events : about[r] # NoChange})
    BY DEF ApiInv, BusTypes, Published
  <2>2. QED
    BY <2>1 DEF ApiInv, BusTypes, ApiTypeOK
<1>2. QED
  BY <1>1, ApiInvariant, PTL

\* Whatever else writes the rows between a change and the listing for its
\* event, a deleted webhook is not told of its deletion, and one that listens
\* is told of its creation and of its update if no write came in between.
THEOREM ListingInvariant == ApiSpec => []ListingSeesChange
<1>1. ApiInit => ListingSeesChange
  BY DEF ApiInit, NothingPublished, ListingSeesChange
<1>2. ApiInv /\ ListingSeesChange /\ [ApiNext]_apiVars => ListingSeesChange'
  <2> SUFFICES ASSUME ApiInv, ListingSeesChange, [ApiNext]_apiVars,
                      NEW q \in handled'
               PROVE  LET w == about'[q].id
                      IN  /\ about'[q].type = "deleted" => w \notin listed'[q]
                          /\ faults' = 0 /\ about'[q].listens /\ q \notin rewritten'
                                 /\ about'[q].type # "deleted" => w \in listed'[q]
    BY DEF ListingSeesChange
  <2>0. /\ handled \subseteq Events /\ faults \in Nat
        /\ LimitInv /\ BusTypes /\ Published /\ RowsAsLeft
    BY DispatchAssumption DEF ApiInv, BusTypes, TypeOK
  <2>1. ASSUME q \in handled, about'[q] = about[q], listed'[q] = listed[q],
               rewritten \subseteq rewritten', faults' = 0 => faults = 0
        PROVE  LET w == about'[q].id
               IN  /\ about'[q].type = "deleted" => w \notin listed'[q]
                   /\ faults' = 0 /\ about'[q].listens /\ q \notin rewritten'
                          /\ about'[q].type # "deleted" => w \in listed'[q]
    BY <2>1 DEF ListingSeesChange
  <2>2. ASSUME NEW r \in Events, NEW w \in Webhooks, Commit(r, w)
        PROVE  /\ q \in handled /\ about'[q] = about[q] /\ listed'[q] = listed[q]
               /\ rewritten \subseteq rewritten' /\ faults' = faults
    <3>1. PICK type \in {"created", "updated", "deleted"}, heard \in BOOLEAN :
              LeftByCommit(r, w, type, heard)
      BY <2>0, <2>2, CommitEffect
    <3>2. /\ \A p \in Events \ {r} : about'[p] = about[p]
          /\ rewritten \subseteq rewritten'
          /\ UNCHANGED <<listed, handled, faults>>
      BY <2>0, <3>1, AnnouncesRecord DEF LeftByCommit, fanoutVars
    <3>3. r \notin handled
      BY <2>0, <3>1 DEF LeftByCommit, LimitInv, NothingYet, Published
    <3>4. QED
      BY <2>0, <3>2, <3>3
  <2>3. CASE ConsumeEvent
    <3>1. PICK n \in DOMAIN log :
              log[n] \in Events /\ (StartFanOut(log[n]) \/ ListFails(log[n]))
      BY <2>0, <2>3, ConsumeEffect
    <3>2. PICK e \in Events : e = log[n]
      BY <3>1
    <3>3. /\ handled' = handled \cup {e} /\ e \notin handled
          /\ UNCHANGED <<row, about, created, rewritten>>
          /\ \A p \in Events \ {e} : listed'[p] = listed[p]
          /\ faults' = 0 => faults = 0
      BY <2>0, <2>3, <3>1, <3>2, DispatchAssumption
         DEF StartFanOut, ListFails, Fault, ConsumeEvent, BusTypes, TypeOK
    <3>4. CASE q # e
      BY <2>0, <2>1, <3>3, <3>4
    <3>5. CASE q = e /\ StartFanOut(e)
      <4>1. listed'[e] = ListEnabledForEventType
        BY <2>0, <3>5 DEF StartFanOut, BusTypes, TypeOK
      <4>2. about[e] # NoChange
        BY <2>0, <3>2 DEF Published
      <4>3. RowAsLeft(e)
        BY <2>0 DEF RowsAsLeft
      <4>4. QED
        BY <3>3, <3>5, <4>1, <4>2, <4>3 DEF RowAsLeft, ListEnabledForEventType
    <3>6. CASE q = e /\ ListFails(e)
      <4>1. listed'[e] = {} /\ faults' # 0
        BY <2>0, <3>3, <3>6 DEF ListFails, Fault, RowsAsLeft, RowAsLeft
      <4>2. QED
        BY <3>6, <4>1
    <3>7. QED
      BY <3>1, <3>2, <3>4, <3>5, <3>6
  <2>4. ASSUME NEW w \in Webhooks, WorkerDisables(w)
        PROVE  /\ UNCHANGED <<handled, about, listed, faults>>
               /\ rewritten \subseteq rewritten'
    BY <2>4 DEF WorkerDisables, fanoutVars
  <2>5. ASSUME \/ Enqueue \/ ProcessDies \/ UNCHANGED apiVars
               \/ \E r \in Events : CountWebhooks(r) \/ LimitReached(r)
                                        \/ RequestFails(r) \/ Publish(r)
        PROVE  /\ UNCHANGED <<handled, about, listed, rewritten>>
               /\ faults' = 0 => faults = 0
    BY <2>0, <2>5
       DEF Enqueue, InsertBatch, InsertBatchFails, ProcessDies, Crash, Fault,
           CountWebhooks, LimitReached, RequestFails, Publish, apiVars, vars
  <2>6. QED
    BY <2>1, <2>2, <2>3, <2>4, <2>5 DEF ApiNext, Commit
<1>3. QED
  BY <1>1, <1>2, ApiInvariant, PTL DEF ApiSpec
=============================================================================
