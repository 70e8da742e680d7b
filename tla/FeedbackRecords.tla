--------------------------- MODULE FeedbackRecords ---------------------------
(***************************************************************************)
(* The feedback records service and the sentiment pipeline behind it. Each *)
(* handler commits one statement and then publishes what it did; sentiment *)
(* jobs follow from the events, and their worker writes back into the      *)
(* record the handlers write: it reads the record, asks the classifier,    *)
(* reads the metadata, merges and stores. The publisher keeps the order of *)
(* the events and may drop one (MessagePublisher says when); a crash of    *)
(* the process loses those it holds. A River job runs until it succeeds or *)
(* is discarded. Classifying a text yields that text.                      *)
(***************************************************************************)
EXTENDS Naturals, Sequences, FiniteSets

CONSTANTS
    Ids,           \* feedback records, all of field type text
    Requests,      \* the API requests: one operation each
    Texts,         \* non-empty values of value_text
    Workers,       \* concurrent sentiment workers
    MaxUpsets,     \* bound: lost events, crashes, lost answers, backfills
    Empty,         \* value_text is empty
    None           \* no record, no sentiment, no metadata key, no event

AllTexts == Texts \cup {Empty}

Rows == [text : AllTexts, meta : Requests, sentiment : Texts \cup {None}]

Events ==
    [type : {"created", "updated", "deleted"}, ids : SUBSET Ids,
     textChanged : BOOLEAN, text : AllTexts]

ASSUME RecordsAssumption ==
    /\ Empty \notin Texts
    /\ None \notin Texts \cup Requests \cup {Empty} \cup Rows \cup Events
    /\ MaxUpsets \in Nat

VARIABLES
    row,        \* row[i]: the committed record, or None
    request,    \* request[r]: "new", "committed" or "done"
    announces,  \* announces[r]: the event r has still to publish, or None
    events,     \* the published events, head first, until they are delivered
    known,      \* the (record, text) pairs of jobs River will not insert again
    jobs,       \* the sentiment jobs waiting for a worker
    worker,     \* worker[w]: the job in progress
    backfill,   \* what cmd/backfill-sentiment has still to insert
    deleted,    \* history: the records deleted by a committed statement
    announced,  \* history: announced[i]: published events that i was deleted
    lastPatch,  \* history: lastPatch[i]: the request that last set i's metadata
    unheard,    \* history: the records whose deletion nobody could announce
    overwritten,\* history: a worker held i's metadata when a request replaced it
    excused,    \* history: i's sentiment may differ from its text for good
    upsets      \* bound: how many of those there were

vars == <<row, request, announces, events, known, jobs, worker, backfill,
          deleted, announced, lastPatch, unheard, overwritten,
          excused, upsets>>

pipeline == <<events, known, jobs, worker, backfill>>
history  == <<deleted, announced, lastPatch, unheard, overwritten, excused,
              upsets>>

Idle == [at |-> "idle"]

Event(t, is, c, x) == [type |-> t, ids |-> is, textChanged |-> c, text |-> x]

Init ==
    /\ row = [i \in Ids |-> None]
    /\ request = [r \in Requests |-> "new"]
    /\ announces = [r \in Requests |-> None]
    /\ events = <<>>
    /\ known = {}
    /\ jobs = {}
    /\ worker = [w \in Workers |-> Idle]
    /\ backfill = {}
    /\ deleted = {}
    /\ announced = [i \in Ids |-> 0]
    /\ lastPatch = [i \in Ids |-> None]
    /\ unheard = {}
    /\ overwritten = {}
    /\ excused = {}
    /\ upsets = 0

Upset == upsets < MaxUpsets /\ upsets' = upsets + 1

-----------------------------------------------------------------------------
(* The handlers: the statement and then the event. A statement may commit  *)
(* without its answer reaching the handler, which then reports an error    *)
(* and publishes nothing.                                                  *)

Live == {i \in Ids : row[i] # None}

Commit(r, event, heard) ==
    /\ request[r] = "new"
    /\ request' = [request EXCEPT ![r] = IF heard THEN "committed" ELSE "done"]
    /\ announces' = [announces EXCEPT ![r] = IF heard THEN event ELSE None]

HoldsMetadata(i) == \E w \in Workers : worker[w].at = "merging" /\ worker[w].id = i
HoldsText(i) == \E w \in Workers : worker[w].at # "idle" /\ worker[w].id = i

CreateFeedbackRecord(r, i, heard) ==
    /\ row[i] = None
    /\ i \notin deleted
    /\ \E x \in AllTexts :
           /\ row' = [row EXCEPT ![i] =
                          [text |-> x, meta |-> r, sentiment |-> None]]
           /\ Commit(r, Event("created", {i}, FALSE, x), heard)
    /\ lastPatch' = [lastPatch EXCEPT ![i] = r]
    /\ excused' = IF heard THEN excused ELSE excused \cup {i}
    /\ UNCHANGED <<pipeline, deleted, announced, unheard, overwritten, upsets>>

\* A PATCH sets the columns it names: value_text to x, metadata as a whole,
\* or others only (fields is then empty, and the event says so).
UpdateFeedbackRecord(r, i, fields, x, heard) ==
    LET newText == IF "value_text" \in fields THEN x ELSE row[i].text
        newMeta == "metadata" \in fields
    IN  /\ i \in Live
        /\ row' = [row EXCEPT ![i] =
                       [text |-> newText,
                        meta |-> IF newMeta THEN r ELSE @.meta,
                        sentiment |-> IF newMeta THEN None ELSE @.sentiment]]
        /\ Commit(r, Event("updated", {i}, "value_text" \in fields, newText),
                  heard)
        /\ lastPatch' = IF newMeta THEN [lastPatch EXCEPT ![i] = r] ELSE lastPatch
        /\ overwritten' = IF newMeta /\ HoldsMetadata(i)
                          THEN overwritten \cup {i} ELSE overwritten
        /\ excused' = IF \/ newMeta
                         \/ /\ "value_text" \in fields
                            /\ \/ ~heard \/ <<i, x>> \in known \/ HoldsText(i)
                      THEN excused \cup {i} ELSE excused
        /\ UNCHANGED <<pipeline, deleted, announced, unheard, upsets>>

\* The rows of is are gone, and with them what there was to say about them.
Remove(is, heard) ==
    /\ row' = [i \in Ids |-> IF i \in is THEN None ELSE row[i]]
    /\ deleted' = deleted \cup is
    /\ unheard' = IF heard THEN unheard ELSE unheard \cup is
    /\ lastPatch' = [i \in Ids |-> IF i \in is THEN None ELSE lastPatch[i]]
    /\ overwritten' = overwritten \ is
    /\ excused' = excused \ is
    /\ UNCHANGED <<pipeline, announced, upsets>>

\* Mutant of DeleteFeedbackRecord: RowsAffected is not looked at.
DeleteUnchecked(r, i, heard) ==
    /\ i \in Live \cup deleted
    /\ Remove({i}, heard)
    /\ Commit(r, Event("deleted", {i}, FALSE, Empty), heard)

\* Only the statement that removed the row goes on to publish.
DeleteFeedbackRecord(r, i, heard) ==
    /\ i \in Live
    /\ Remove({i}, heard)
    /\ Commit(r, Event("deleted", {i}, FALSE, Empty), heard)

\* DELETE ... RETURNING id for a user: one event with the ids, none for no id.
BulkDeleteFeedbackRecords(r, heard) ==
    /\ \E is \in SUBSET Live :
           /\ Remove(is, heard)
           /\ Commit(r, IF is = {} THEN None
                        ELSE Event("deleted", is, FALSE, Empty), heard)

\* Not found, a conflict, a database error: nothing is committed.
RequestFails(r) ==
    /\ request[r] = "new"
    /\ request' = [request EXCEPT ![r] = "done"]
    /\ UNCHANGED <<row, announces, pipeline, history>>

\* The deletion of i is in the event r has still to publish.
Announces(r, i) ==
    /\ announces[r] # None
    /\ announces[r].type = "deleted"
    /\ i \in announces[r].ids

\* The sentiment provider makes a job of a text that is new.
WantsJob(e) ==
    /\ e.type = "created" \/ (e.type = "updated" /\ e.textChanged)
    /\ e.text # Empty

Publish(r) ==
    /\ request[r] = "committed"
    /\ request' = [request EXCEPT ![r] = "done"]
    /\ events' = IF announces[r] = None THEN events
                 ELSE Append(events, announces[r])
    /\ announces' = [announces EXCEPT ![r] = None]
    /\ announced' = [i \in Ids |-> announced[i] + IF Announces(r, i) THEN 1 ELSE 0]
    /\ UNCHANGED <<row, known, jobs, worker, backfill, deleted, lastPatch,
                   unheard, overwritten, excused, upsets>>

\* The events es are gone for good: nothing will follow from them.
Lost(es) ==
    /\ excused' = excused \cup UNION {e.ids : e \in {e \in es : WantsJob(e)}}
    /\ UNCHANGED <<known, backfill, row, deleted, announced, lastPatch, overwritten>>

\* The publisher's channel is full.
EventDropped(r) ==
    /\ request[r] = "committed" /\ announces[r] # None
    /\ Upset
    /\ request' = [request EXCEPT ![r] = "done"]
    /\ announces' = [announces EXCEPT ![r] = None]
    /\ unheard' = unheard \cup {i \in Ids : Announces(r, i)}
    /\ Lost({announces[r]})
    /\ UNCHANGED <<events, jobs, worker>>

\* The process dies with the requests it is serving, the events that were not
\* delivered and the jobs it was working, which River rescues.
Crash ==
    /\ Upset
    /\ request' = [r \in Requests |-> IF request[r] = "committed" THEN "done"
                                      ELSE request[r]]
    /\ announces' = [r \in Requests |-> None]
    /\ events' = <<>>
    /\ worker' = [w \in Workers |-> Idle]
    /\ jobs' = jobs \cup {worker[w].job : w \in {w \in Workers : worker[w] # Idle}}
    /\ unheard' = unheard \cup {i \in Ids : \E r \in Requests : Announces(r, i)}
    /\ Lost(({announces[r] : r \in Requests} \ {None})
                \cup {events[n] : n \in DOMAIN events})

-----------------------------------------------------------------------------
(* The sentiment provider and worker.                                      *)

\* One job per record and text (UniqueOpts): a known pair is passed over.
InsertUnique(pairs) ==
    /\ known' = known \cup pairs
    /\ jobs' = jobs \cup (pairs \ known)

\* SentimentProvider.PublishEvent, whose Insert succeeds
DeliverEvent ==
    /\ events # <<>>
    /\ LET e == Head(events)
       IN  InsertUnique({<<i, e.text>> : i \in IF WantsJob(e) THEN e.ids ELSE {}})
    /\ events' = Tail(events)
    /\ UNCHANGED <<row, request, announces, worker, backfill, history>>

\* Insert fails: PublishEvent logs it and returns, and no job follows.
EnqueueFails ==
    /\ events # <<>> /\ WantsJob(Head(events))
    /\ Upset
    /\ events' = Tail(events)
    /\ Lost({Head(events)})
    /\ UNCHANGED <<request, announces, jobs, worker, unheard>>

\* cmd/backfill-sentiment: the records with text and without a sentiment
BackfillList ==
    /\ Upset
    /\ backfill = {}
    /\ backfill' = {<<i, row[i].text>> : i \in
                        {i \in Live : row[i].text # Empty /\ row[i].sentiment = None}}
    /\ UNCHANGED <<row, request, announces, events, known, jobs, worker, deleted,
                   announced, lastPatch, unheard, overwritten, excused>>

\* It hashes the text it listed, and stops at the first error.
BackfillInsert(j) ==
    /\ j \in backfill
    /\ \/ InsertUnique({j}) /\ backfill' = backfill \ {j}
       \/ UNCHANGED <<known, jobs>> /\ backfill' = {}
    /\ UNCHANGED <<row, request, announces, events, worker, history>>

\* Mutant of WorkReads: the text of the job's arguments is classified.
WorkReadsArgs(w, j) ==
    /\ worker[w] = Idle /\ j \in jobs
    /\ jobs' = jobs \ {j}
    /\ worker' = [worker EXCEPT ![w] =
                      IF row[j[1]] = None THEN Idle
                      ELSE [at |-> "classifying", id |-> j[1], job |-> j,
                            text |-> j[2]]]
    /\ UNCHANGED <<row, request, announces, events, known, backfill, history>>

\* GetFeedbackRecord; a record that is gone or has no text ends the job
WorkReads(w, j) ==
    /\ worker[w] = Idle /\ j \in jobs
    /\ jobs' = jobs \ {j}
    /\ worker' = [worker EXCEPT ![w] =
                      IF row[j[1]] = None \/ row[j[1]].text = Empty THEN Idle
                      ELSE [at |-> "classifying", id |-> j[1], job |-> j,
                            text |-> row[j[1]].text]]
    /\ UNCHANGED <<row, request, announces, events, known, backfill, history>>

\* UpdateMetadata begins: GetByID
MergeReads(w) ==
    /\ worker[w].at = "classifying"
    /\ row[worker[w].id] # None
    /\ worker' = [worker EXCEPT ![w] =
                      [at |-> "merging", id |-> @.id, job |-> @.job,
                       text |-> @.text, meta |-> row[@.id].meta]]
    /\ UNCHANGED <<row, request, announces, events, known, jobs, backfill, history>>

\* Mutant of MergeWrites: the new keys replace the metadata.
WriteWithoutMerge(w) ==
    /\ worker[w].at = "merging"
    /\ row[worker[w].id] # None
    /\ row' = [row EXCEPT ![worker[w].id].meta = None,
                          ![worker[w].id].sentiment = worker[w].text]
    /\ worker' = [worker EXCEPT ![w] = Idle]
    /\ UNCHANGED <<request, announces, events, known, jobs, backfill, history>>

\* UpdateMetadata ends: the metadata read before, with the new keys. When the
\* answer is lost the job is retried all the same.
MergeWrites(w) ==
    /\ worker[w].at = "merging"
    /\ row[worker[w].id] # None
    /\ row' = [row EXCEPT ![worker[w].id].meta = worker[w].meta,
                          ![worker[w].id].sentiment = worker[w].text]
    /\ \/ UNCHANGED <<jobs, upsets>>
       \/ jobs' = jobs \cup {worker[w].job} /\ Upset
    /\ worker' = [worker EXCEPT ![w] = Idle]
    /\ UNCHANGED <<request, announces, events, known, backfill, deleted, announced,
                   lastPatch, unheard, overwritten, excused>>

\* The classifier, the database or a deleted record fails the attempt: River
\* retries the job or, on its last attempt, discards it.
WorkFails(w) ==
    /\ worker[w].at # "idle"
    /\ worker' = [worker EXCEPT ![w] = Idle]
    /\ \/ /\ jobs' = jobs \cup {worker[w].job}
          /\ UNCHANGED <<known, excused>>
       \/ /\ known' = known \ {worker[w].job}
          /\ excused' = excused \cup ({worker[w].id} \ deleted)
          /\ UNCHANGED jobs
    /\ UNCHANGED <<row, request, announces, events, backfill, deleted, announced,
                   lastPatch, unheard, overwritten, upsets>>

Next ==
    \/ \E r \in Requests, heard \in BOOLEAN :
           \/ \E i \in Ids :
                  \/ CreateFeedbackRecord(r, i, heard)
                  \/ \E fields \in SUBSET {"value_text", "metadata"}, x \in AllTexts :
                         UpdateFeedbackRecord(r, i, fields, x, heard)
                  \/ DeleteFeedbackRecord(r, i, heard)
           \/ BulkDeleteFeedbackRecords(r, heard)
    \/ \E r \in Requests : RequestFails(r) \/ Publish(r) \/ EventDropped(r)
    \/ Crash
    \/ DeliverEvent \/ EnqueueFails \/ BackfillList \/ \E j \in Ids \X Texts : BackfillInsert(j)
    \/ \E w \in Workers :
           \/ \E j \in Ids \X Texts : WorkReads(w, j)
           \/ MergeReads(w) \/ MergeWrites(w) \/ WorkFails(w)

Spec == Init /\ [][Next]_vars

-----------------------------------------------------------------------------
Jobs == Ids \X Texts

WorkerStates ==
    {Idle}
        \cup [at : {"classifying"}, id : Ids, job : Jobs, text : Texts]
        \cup [at : {"merging"}, id : Ids, job : Jobs, text : Texts,
              meta : Requests]

TypeOK ==
    /\ row \in [Ids -> Rows \cup {None}]
    /\ request \in [Requests -> {"new", "committed", "done"}]
    /\ announces \in [Requests -> Events \cup {None}]
    /\ events \in Seq(Events)
    /\ jobs \subseteq known /\ known \subseteq Jobs
    /\ worker \in [Workers -> WorkerStates]
    /\ backfill \subseteq Jobs
    /\ announced \in [Ids -> Nat]
    /\ lastPatch \in [Ids -> Requests \cup {None}]
    /\ deleted \subseteq Ids /\ unheard \subseteq deleted
    /\ overwritten \subseteq Ids /\ excused \subseteq Ids
    /\ upsets \in 0..MaxUpsets

\* However deletes and bulk deletes of the same records interleave, a deleted
\* record is announced by one request, unless the database's answer was lost,
\* the channel was full or the process died in between; and a record that is
\* still there by none.
DeletionAnnouncedOnce ==
    \A i \in Ids :
        announced[i] + Cardinality({r \in Requests : Announces(r, i)}) =
            IF i \in deleted \ unheard THEN 1 ELSE 0

\* UpdateMetadata: "existing keys are preserved". The metadata a request set
\* is lost only if it was committed between the two statements of the merge.
MetadataLostOnlyInMerge ==
    \A i \in Live : row[i].meta # lastPatch[i] => i \in overwritten

Quiet ==
    /\ \A r \in Requests : request[r] = "done"
    /\ events = <<>> /\ jobs = {} /\ backfill = {}
    /\ \A w \in Workers : worker[w] = Idle

\* Events may be published in another order than their statements committed,
\* and jobs run in any order and more than once; still, when all is done, a
\* record carries the sentiment of the text it has, unless its metadata was
\* replaced, its text emptied, revisited, or edited under a running job, its
\* event lost, or its job given up.
SentimentOfCurrentText ==
    Quiet => \A i \in Live \ excused :
                 row[i].text # Empty => row[i].sentiment = row[i].text
=============================================================================
