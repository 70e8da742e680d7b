-------------------------- MODULE FeedbackEmbedding --------------------------
(***************************************************************************)
(* The embedding pipeline: a write of a feedback record publishes an       *)
(* event, the EmbeddingProvider turns it into a River job that is unique   *)
(* by record, model and hash of the text, and the FeedbackEmbeddingWorker  *)
(* reads the record, calls the embedding API and stores the vector         *)
(* (internal/service/embedding_provider.go,                                *)
(* internal/workers/feedback_embedding.go,                                 *)
(* internal/repository/embeddings_repository.go), together with the        *)
(* backfill command, which enqueues jobs for records with no vector.       *)
(* One embedding model; all of it within one 24h uniqueness window. A text *)
(* is its trimmed value, and a vector is the text it was computed from.    *)
(***************************************************************************)
EXTENDS Naturals, Sequences, FiniteSets

CONSTANTS
    Records,       \* feedback record ids
    TextFields,    \* the records whose field_type is "text"
    Texts,         \* non-empty texts
    Empty,         \* no text, or only blanks
    None,          \* no row in embeddings
    Backfill,      \* the hash the backfill command uses for every record
    MaxAttempts,   \* EMBEDDING_MAX_ATTEMPTS
    MaxWorkers,    \* EMBEDDING_MAX_CONCURRENT
    MaxEdits,      \* bound: updates and deletes
    MaxFaults,     \* bound: failed calls and crashes
    MaxBackfills   \* bound: runs of the backfill command

ASSUME EmbeddingAssumption ==
    /\ TextFields \subseteq Records
    /\ {Empty, None, Backfill} \cap Texts = {}
    /\ Empty # None /\ Empty # Backfill
    /\ MaxAttempts \in Nat \ {0} /\ MaxWorkers \in Nat \ {0}
    /\ MaxEdits \in Nat /\ MaxFaults \in Nat /\ MaxBackfills \in Nat

VARIABLES
    record,     \* record[r]: the feedback_records row
    embedding,  \* embedding[r]: the embeddings row
    events,     \* events published and not yet given to the provider
    job,        \* job[<<r, h>>]: the River job of record r with hash h
    run,        \* run[<<r, h>>]: where the worker of that job is
    backfill,   \* records the backfill command has still to enqueue
    excuse,     \* history: why the vector of a record may be out of date
    edits, faults, backfills

vars == <<record, embedding, events, job, run, backfill, excuse, edits, faults,
          backfills>>
budgets == <<edits, faults, backfills>>

AnyText == Texts \cup {Empty}
Hashes  == AnyText \cup {Backfill}
Jobs    == Records \X Hashes

JobStates == {"none", "available", "running", "retryable", "completed",
              "discarded"}
Ended == {"none", "completed", "discarded"}
\* "fetched" Work was entered; "read" the record was read; "embedded" the API
\* answered; "ok" and "error" Work returned, River has not stored it yet
RunStates == {"free", "fetched", "read", "embedded", "ok", "error"}
Free == [at |-> "free", text |-> Empty]

\* edited: the value differs from the one before
Event == [record : Records, kind : {"created", "updated"}, text : AnyText,
          edited : BOOLEAN]
Excuses == {"skipped", "overlapped", "lost"}

Init ==
    /\ record = [r \in Records |-> [state |-> "absent", text |-> Empty]]
    /\ embedding = [r \in Records |-> None]
    /\ events = <<>>
    /\ job = [k \in Jobs |-> [state |-> "none", attempt |-> 0]]
    /\ run = [k \in Jobs |-> Free]
    /\ backfill = {}
    /\ excuse = {}
    /\ edits = 0 /\ faults = 0 /\ backfills = 0

Fault == faults < MaxFaults /\ faults' = faults + 1
Excused(r, why) == excuse' = excuse \cup {<<r, why>>}

-----------------------------------------------------------------------------
(* Writes of records, each with the event it publishes. Events of requests *)
(* that overlap may be published out of order; the order plays no part in  *)
(* what follows, since the worker reads the record and not the event.      *)

Publish(r, kind, text, edited) ==
    events' = Append(events, [record |-> r, kind |-> kind, text |-> text,
                              edited |-> edited])

CreateFeedbackRecord(r, text) ==
    /\ record[r].state = "absent"
    /\ record' = [record EXCEPT ![r] = [state |-> "live", text |-> text]]
    /\ Publish(r, "created", text, TRUE)
    /\ UNCHANGED <<embedding, job, run, backfill, excuse, budgets>>

\* a PATCH with value_text
UpdateFeedbackRecord(r, text) ==
    /\ record[r].state = "live"
    /\ edits < MaxEdits /\ edits' = edits + 1
    /\ record' = [record EXCEPT ![r].text = text]
    /\ Publish(r, "updated", text, text # record[r].text)
    /\ UNCHANGED <<embedding, job, run, backfill, excuse, faults, backfills>>

\* Mutant of DeleteFeedbackRecord: no ON DELETE CASCADE.
DeleteWithoutCascade(r) ==
    /\ record[r].state = "live"
    /\ edits < MaxEdits /\ edits' = edits + 1
    /\ record' = [record EXCEPT ![r] = [state |-> "deleted", text |-> Empty]]
    /\ UNCHANGED <<embedding, events, job, run, backfill, excuse, faults,
                   backfills>>

\* The foreign key deletes the embeddings row with the record. The event of
\* a delete is not one the EmbeddingProvider looks at.
DeleteFeedbackRecord(r) ==
    /\ record[r].state = "live"
    /\ edits < MaxEdits /\ edits' = edits + 1
    /\ record' = [record EXCEPT ![r] = [state |-> "deleted", text |-> Empty]]
    /\ embedding' = [embedding EXCEPT ![r] = None]
    /\ UNCHANGED <<events, job, run, backfill, excuse, faults, backfills>>

-----------------------------------------------------------------------------
(* River's unique insert: a job with the same arguments, in any state but  *)
(* discarded, makes the insert a no-op that reports success.               *)

Blocked(k) == job[k].state \notin {"none", "discarded"}

\* The job that blocks the insert will not read the record again.
AlreadyRead(k) ==
    \/ job[k].state = "completed"
    \/ job[k].state = "running" /\ run[k].at \in {"read", "embedded", "ok"}

InsertUnique(k) ==
    IF Blocked(k)
    THEN /\ UNCHANGED job
         /\ IF AlreadyRead(k) THEN Excused(k[1], "skipped") ELSE UNCHANGED excuse
    ELSE /\ job' = [job EXCEPT ![k] = [state |-> "available", attempt |-> 0]]
         /\ UNCHANGED excuse

\* Mutant of SkipsEvent: an update that empties the text is skipped too.
SkipsEmptyText(e) == e.text = Empty

\* On create only a record with text is enqueued; on update every record is,
\* so that the worker can clear the vector.
SkipsEvent(e) == e.kind = "created" /\ e.text = Empty

\* EmbeddingProvider.PublishEvent; the hash of a text stands for the text
ProviderHandles ==
    /\ events # <<>>
    /\ events' = Tail(events)
    /\ IF SkipsEvent(Head(events))
       THEN UNCHANGED <<job, excuse>>
       ELSE InsertUnique(<<Head(events).record, Head(events).text>>)
    /\ UNCHANGED <<record, embedding, run, backfill, budgets>>

\* enqueue_failed is logged, or the publisher dropped the event.
EventLost ==
    /\ events # <<>>
    /\ Fault
    /\ events' = Tail(events)
    /\ Excused(Head(events).record, "lost")
    /\ UNCHANGED <<record, embedding, job, run, backfill, edits, backfills>>

-----------------------------------------------------------------------------
(* cmd/backfill-embeddings                                                 *)

NeedsBackfill(r) ==
    record[r].state = "live" /\ record[r].text # Empty /\ embedding[r] = None

BackfillList ==
    /\ backfills < MaxBackfills /\ backfills' = backfills + 1
    /\ backfill = {}
    /\ backfill' = {r \in Records : NeedsBackfill(r)}
    /\ UNCHANGED <<record, embedding, events, job, run, excuse, edits, faults>>

BackfillInsert(r) ==
    /\ r \in backfill
    /\ backfill' = backfill \ {r}
    /\ InsertUnique(<<r, Backfill>>)
    /\ UNCHANGED <<record, embedding, events, run, budgets>>

\* "enqueue embedding job for ...": the command stops at the first error
BackfillFails ==
    /\ backfill # {}
    /\ Fault
    /\ backfill' = {}
    /\ UNCHANGED <<record, embedding, events, job, run, excuse, edits, backfills>>

-----------------------------------------------------------------------------
(* River                                                                   *)

FetchJob(k) ==
    /\ job[k].state = "available"
    /\ Cardinality({l \in Jobs : run[l].at # "free"}) < MaxWorkers
    /\ job' = [job EXCEPT ![k] = [state |-> "running", attempt |-> @.attempt + 1]]
    /\ run' = [run EXCEPT ![k] = [at |-> "fetched", text |-> Empty]]
    /\ UNCHANGED <<record, embedding, events, backfill, excuse, budgets>>

\* Mutant of Failed: the last attempt is not recognised.
FailedForever(k) ==
    job' = [job EXCEPT ![k].state = "retryable"] /\ UNCHANGED excuse

\* A job that failed or was abandoned is retried, or discarded for good.
Failed(k) ==
    IF job[k].attempt < MaxAttempts
    THEN /\ job' = [job EXCEPT ![k].state = "retryable"]
         /\ UNCHANGED excuse
    ELSE /\ job' = [job EXCEPT ![k].state = "discarded"]
         /\ Excused(k[1], "lost")

StoreResult(k) ==
    /\ run[k].at \in {"ok", "error"}
    /\ IF run[k].at = "ok"
       THEN job' = [job EXCEPT ![k].state = "completed"] /\ UNCHANGED excuse
       ELSE Failed(k)
    /\ run' = [run EXCEPT ![k] = Free]
    /\ UNCHANGED <<record, embedding, events, backfill, budgets>>

RetryJob(k) ==
    /\ job[k].state = "retryable"
    /\ job' = [job EXCEPT ![k].state = "available"]
    /\ UNCHANGED <<record, embedding, events, run, backfill, excuse, budgets>>

\* Mutant of RescueJob: jobs left by a crash are never looked at.
NeverRescue(k) == FALSE /\ k \in Jobs /\ UNCHANGED vars

RescueJob(k) ==
    /\ job[k].state = "running"
    /\ run[k].at = "free"
    /\ Failed(k)
    /\ UNCHANGED <<record, embedding, events, run, backfill, budgets>>

\* The hub dies: the events in its memory and its workers are gone. An insert
\* that was blocked by a job whose worker dies is excused as "skipped" already.
Crash ==
    /\ Fault
    /\ events' = <<>>
    /\ run' = [k \in Jobs |-> Free]
    /\ excuse' = excuse \cup {<<events[i].record, "lost">> : i \in DOMAIN events}
    /\ UNCHANGED <<record, embedding, job, backfill, edits, backfills>>

-----------------------------------------------------------------------------
(* FeedbackEmbeddingWorker.Work                                            *)

At(k, at) == run' = [run EXCEPT ![k].at = at]

\* Another worker of the same record has read it and not yet stored.
Overlaps(k) ==
    \E h \in Hashes \ {k[2]} : run[<<k[1], h>>].at \in {"read", "embedded"}

GetFeedbackRecord(k) ==
    /\ run[k].at = "fetched"
    /\ record[k[1]].state = "live"
    /\ run' = [run EXCEPT ![k] = [at |-> "read", text |-> record[k[1]].text]]
    /\ IF Overlaps(k) THEN Excused(k[1], "overlapped") ELSE UNCHANGED excuse
    /\ UNCHANGED <<record, embedding, events, job, backfill, budgets>>

\* not found: no retry
RecordNotFound(k) ==
    /\ run[k].at = "fetched"
    /\ record[k[1]].state # "live"
    /\ At(k, "ok")
    /\ UNCHANGED <<record, embedding, events, job, backfill, excuse, budgets>>

\* The vector is deleted, but only for text fields.
HandleEmptyText(k) ==
    /\ run[k].at = "read"
    /\ run[k].text = Empty
    /\ embedding' = IF k[1] \in TextFields
                    THEN [embedding EXCEPT ![k[1]] = None]
                    ELSE embedding
    /\ At(k, "ok")
    /\ UNCHANGED <<record, events, job, backfill, excuse, budgets>>

CreateEmbedding(k) ==
    /\ run[k].at = "read"
    /\ run[k].text # Empty
    /\ At(k, "embedded")
    /\ UNCHANGED <<record, embedding, events, job, backfill, excuse, budgets>>

\* Upsert of the row of (record, model); the foreign key refuses it when the
\* record is gone, which is an error like any other.
SetEmbedding(k) ==
    /\ run[k].at = "embedded"
    /\ IF record[k[1]].state = "live"
       THEN embedding' = [embedding EXCEPT ![k[1]] = run[k].text] /\ At(k, "ok")
       ELSE UNCHANGED embedding /\ At(k, "error")
    /\ UNCHANGED <<record, events, job, backfill, excuse, budgets>>

\* The database or the embedding API fails: Work returns the error.
WorkFails(k) ==
    /\ run[k].at \in {"fetched", "read", "embedded"}
    /\ Fault
    /\ At(k, "error")
    /\ UNCHANGED <<record, embedding, events, job, backfill, excuse, edits,
                   backfills>>

-----------------------------------------------------------------------------
Write ==
    \E r \in Records :
        \/ \E t \in AnyText : CreateFeedbackRecord(r, t) \/ UpdateFeedbackRecord(r, t)
        \/ DeleteFeedbackRecord(r)

Provider == ProviderHandles \/ EventLost

BackfillCommand ==
    BackfillList \/ BackfillFails \/ \E r \in Records : BackfillInsert(r)

Work(k) ==
    \/ GetFeedbackRecord(k) \/ RecordNotFound(k) \/ HandleEmptyText(k)
    \/ CreateEmbedding(k) \/ SetEmbedding(k) \/ WorkFails(k)

River(k) == FetchJob(k) \/ StoreResult(k) \/ RetryJob(k) \/ RescueJob(k)

Next ==
    \/ Write \/ Provider \/ BackfillCommand \/ Crash
    \/ \E k \in Jobs : Work(k) \/ River(k)

Spec == Init /\ [][Next]_vars

System == Provider \/ \E k \in Jobs : Work(k) \/ River(k)

\* The publisher's worker, River and the goroutines of the jobs do not all
\* stop while one of them can go on; nothing is asked of the writers or of the
\* backfill command. The work is finite, so none of it is passed over forever.
FairSpec == Spec /\ WF_vars(System)

-----------------------------------------------------------------------------
TypeOK ==
    /\ record \in [Records -> [state : {"absent", "live", "deleted"}, text : AnyText]]
    /\ embedding \in [Records -> Texts \cup {None}]
    /\ events \in Seq(Event)
    /\ job \in [Jobs -> [state : JobStates, attempt : 0..MaxAttempts]]
    /\ run \in [Jobs -> [at : RunStates, text : AnyText]]
    /\ backfill \subseteq Records
    /\ excuse \subseteq Records \X Excuses
    /\ edits \in 0..MaxEdits /\ faults \in 0..MaxFaults
    /\ backfills \in 0..MaxBackfills

Settled(r) ==
    /\ \A i \in DOMAIN events : events[i].record # r
    /\ \A h \in Hashes : job[<<r, h>>].state \in Ended

\* A vector exists only for a record that exists: a worker that read a record
\* before it was deleted cannot bring its vector back.
EmbeddingHasRecord ==
    \A r \in Records : embedding[r] # None => record[r].state = "live"

\* When no work is left for a text record, its vector is that of its text,
\* or absent when the text is empty - unless an event or job was given up, an
\* insert was skipped for a job that had read the record before, or two
\* workers of the record overlapped. These are all the ways to go stale.
CurrentWhenSettled ==
    \A r \in TextFields :
        /\ record[r].state = "live"
        /\ Settled(r)
        /\ \A why \in Excuses : <<r, why>> \notin excuse
        => embedding[r] = IF record[r].text = Empty THEN None ELSE record[r].text

\* All work on a record ends, whatever fails or crashes.
EventuallySettled == \A r \in Records : []<>Settled(r)

\* "value_text: text that was embedded" (models/embeddings.go): once no work
\* is left for a record, the text a search result shows for it is the text its
\* vector was computed from. An edit back to an earlier text breaks it: its job
\* is a duplicate of the one that embedded that text the first time.
ValueTextWasEmbedded ==
    \A r \in TextFields :
        record[r].state = "live" /\ Settled(r) /\ <<r, "lost">> \notin excuse
            => embedding[r] \in {None, record[r].text}
=============================================================================
