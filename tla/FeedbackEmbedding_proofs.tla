---------------------- MODULE FeedbackEmbedding_proofs ----------------------
(***************************************************************************)
(* Proofs about FeedbackEmbedding, for every set of records and texts,     *)
(* every number of workers and attempts, and any number of writes, runs of *)
(* the backfill command, failing calls and crashes.                        *)
(***************************************************************************)
EXTENDS FeedbackEmbedding, SequenceTheorems, TLAPS

\* The types without the bound on attempts, which needs JobsTracked.
Shapes ==
    /\ record \in [Records -> [state : {"absent", "live", "deleted"}, text : AnyText]]
    /\ embedding \in [Records -> Texts \cup {None}]
    /\ events \in Seq(Event)
    /\ job \in [Jobs -> [state : JobStates, attempt : Nat]]
    /\ run \in [Jobs -> [at : RunStates, text : AnyText]]
    /\ backfill \subseteq Records
    /\ excuse \subseteq Records \X Excuses
    /\ edits \in 0..MaxEdits /\ faults \in 0..MaxFaults
    /\ backfills \in 0..MaxBackfills

\* Only a running job has a worker, only a job with an attempt left waits to
\* run, and the API is never asked for the vector of an empty text.
JobsTracked ==
    \A k \in Jobs :
        /\ run[k].at # "free" => job[k].state = "running"
        /\ job[k].attempt <= MaxAttempts
        /\ job[k].state \in {"available", "retryable"} => job[k].attempt < MaxAttempts
        /\ run[k].at = "embedded" => run[k].text # Empty

\* Nothing knows of a record before it is created.
AbsentUnknown ==
    \A r \in Records : record[r].state = "absent" =>
        /\ \A i \in DOMAIN events : events[i].record # r
        /\ \A h \in Hashes : job[<<r, h>>].state = "none"
        /\ r \notin backfill
        /\ embedding[r] = None

\* The vector a record should have.
Want(r) == IF record[r].text = Empty THEN None ELSE record[r].text

\* A worker of the job has read the record and not yet stored the vector.
Reading(k) == run[k].at \in {"read", "embedded"}

\* The job will read the record before it ends.
WillRead(k) ==
    \/ job[k].state \in {"available", "retryable"}
    \/ job[k].state = "running" /\ run[k].at \in {"free", "fetched", "error"}

Announced(r) ==
    \E i \in DOMAIN events : events[i].record = r /\ ~SkipsEvent(events[i])

\* An event or a job of the record has still to look at it.
LooksLater(r) == Announced(r) \/ \E h \in Hashes : WillRead(<<r, h>>)

\* The vector is the one of the text, or on its way, and no worker is about to
\* store another.
Current(r) ==
    /\ \A h \in Hashes : Reading(<<r, h>>) => run[<<r, h>>].text = record[r].text
    /\ embedding[r] = Want(r) \/ \E h \in Hashes : Reading(<<r, h>>)

Unexcused(r) == \A why \in Excuses : <<r, why>> \notin excuse

CurrentOrLater ==
    \A r \in TextFields :
        record[r].state = "live" /\ Unexcused(r) => LooksLater(r) \/ Current(r)
-----------------------------------------------------------------------------
\* Publishing keeps the events there are and adds one.
LEMMA PublishAdds ==
    ASSUME Shapes, NEW r \in Records, NEW kind \in {"created", "updated"},
           NEW text \in AnyText, NEW edited \in BOOLEAN,
           Publish(r, kind, text, edited)
    PROVE  /\ events' \in Seq(Event)
           /\ \A i \in DOMAIN events : i \in DOMAIN events' /\ events'[i] = events[i]
           /\ \E i \in DOMAIN events' :
                  events'[i].record = r /\ events'[i].kind = kind
                  /\ events'[i].text = text
           /\ \A i \in DOMAIN events' :
                  events'[i].record = r \/ i \in DOMAIN events
<1> DEFINE e == [record |-> r, kind |-> kind, text |-> text, edited |-> edited]
<1>1. e \in Event /\ e.record = r /\ e.kind = kind /\ e.text = text
  BY DEF Event
<1> HIDE DEF e
<1>2. events' = Append(events, e) /\ events \in Seq(Event)
  BY DEF Publish, Shapes, e
<1>3. /\ Len(events) \in Nat /\ DOMAIN events = 1..Len(events)
      /\ events' \in Seq(Event) /\ DOMAIN events' = 1..(Len(events) + 1)
      /\ \A i \in 1..Len(events) : events'[i] = events[i]
      /\ events'[Len(events) + 1] = e
  BY <1>1, <1>2
<1>4. QED
  BY <1>1, <1>3

\* Handling an event, or losing it, leaves the others.
LEMMA TailKeeps ==
    ASSUME Shapes, events # <<>>, events' = Tail(events)
    PROVE  /\ events' \in Seq(Event) /\ Head(events) \in Event
           /\ 1 \in DOMAIN events /\ Head(events) = events[1]
           /\ \A i \in DOMAIN events :
                  i = 1 \/ \E j \in DOMAIN events' : events'[j] = events[i]
           /\ \A j \in DOMAIN events' : \E i \in DOMAIN events : events'[j] = events[i]
<1>1. /\ events \in Seq(Event) /\ Len(events) \in Nat /\ Len(events) > 0
      /\ DOMAIN events = 1..Len(events) /\ Head(events) = events[1]
      /\ events' \in Seq(Event) /\ DOMAIN events' = 1..(Len(events) - 1)
      /\ \A j \in 1..(Len(events) - 1) : events'[j] = events[j + 1]
  BY DEF Shapes
<1>2. \A i \in DOMAIN events :
          i = 1 \/ (i - 1 \in DOMAIN events' /\ events'[i - 1] = events[i])
  BY <1>1
<1>3. \A j \in DOMAIN events' : j + 1 \in DOMAIN events
  BY <1>1
<1>4. QED
  BY <1>1, <1>2, <1>3

LEMMA EventsTyped ==
    ASSUME Shapes
    PROVE  \A i \in DOMAIN events : events[i] \in Event
  BY DEF Shapes

\* A worker moves on without forgetting the text it read.
LEMMA AtKeeps ==
    ASSUME Shapes, NEW k \in Jobs, NEW at \in {"ok", "embedded", "error"}, At(k, at)
    PROVE  /\ run' \in [Jobs -> [at : RunStates, text : AnyText]]
           /\ run'[k].at = at /\ run'[k].text = run[k].text
           /\ \A l \in Jobs : l # k => run'[l] = run[l]
<1>1. at \in RunStates /\ run \in [Jobs -> [at : RunStates, text : AnyText]]
  BY DEF RunStates, Shapes
<1>2. run' = [run EXCEPT ![k].at = at]
  BY DEF At
<1>3. QED
  BY <1>1, <1>2

\* A unique insert adds a job only where none is under way, and what it leaves
\* unsaid it excuses.
LEMMA InsertKeeps ==
    ASSUME Shapes, NEW k \in Jobs, InsertUnique(k)
    PROVE  /\ job' \in [Jobs -> [state : JobStates, attempt : Nat]]
           /\ excuse' \subseteq Records \X Excuses /\ excuse \subseteq excuse'
           /\ \A l \in Jobs :
                  \/ job'[l] = job[l]
                  \/ /\ l = k /\ job[l].state \in {"none", "discarded"}
                     /\ job'[l] = [state |-> "available", attempt |-> 0]
           /\ \/ job'[k].state = "available"
              \/ UNCHANGED job /\ Blocked(k)
                 /\ (AlreadyRead(k) => <<k[1], "skipped">> \in excuse')
<1>1. k[1] \in Records
  BY DEF Jobs
<1>2. QED
  <2>1. CASE Blocked(k)
    <3>1. UNCHANGED job /\ excuse \subseteq excuse'
          /\ excuse' \subseteq excuse \cup {<<k[1], "skipped">>}
          /\ (AlreadyRead(k) => <<k[1], "skipped">> \in excuse')
      BY <2>1 DEF InsertUnique, Excused
    <3>2. QED
      BY <1>1, <2>1, <3>1 DEF Shapes, Excuses
  <2>2. CASE ~Blocked(k)
    <3>1. job' = [job EXCEPT ![k] = [state |-> "available", attempt |-> 0]]
          /\ UNCHANGED excuse
      BY <2>2 DEF InsertUnique
    <3>2. [state |-> "available", attempt |-> 0] \in [state : JobStates, attempt : Nat]
      BY DEF JobStates
    <3>3. QED
      BY <2>2, <3>1, <3>2 DEF Shapes, Blocked
  <2>3. QED
    BY <2>1, <2>2

\* Failing ends a job only after its last attempt, and excuses its record.
LEMMA FailedKeeps ==
    ASSUME Shapes, NEW k \in Jobs, Failed(k)
    PROVE  /\ job' \in [Jobs -> [state : JobStates, attempt : Nat]]
           /\ excuse' \subseteq Records \X Excuses /\ excuse \subseteq excuse'
           /\ \A l \in Jobs : l # k => job'[l] = job[l]
           /\ job'[k].attempt = job[k].attempt
           /\ \/ job'[k].state = "retryable" /\ job[k].attempt < MaxAttempts
              \/ job'[k].state = "discarded" /\ <<k[1], "lost">> \in excuse'
<1>1. k[1] \in Records
  BY DEF Jobs
<1>2. QED
  <2>1. CASE job[k].attempt < MaxAttempts
    <3>1. job' = [job EXCEPT ![k].state = "retryable"] /\ UNCHANGED excuse
      BY <2>1 DEF Failed
    <3>2. QED
      BY <2>1, <3>1 DEF Shapes, JobStates
  <2>2. CASE ~(job[k].attempt < MaxAttempts)
    <3>1. job' = [job EXCEPT ![k].state = "discarded"]
          /\ excuse' = excuse \cup {<<k[1], "lost">>}
      BY <2>2 DEF Failed, Excused
    <3>2. job' \in [Jobs -> [state : JobStates, attempt : Nat]]
      BY <3>1 DEF Shapes, JobStates
    <3>3. job'[k].attempt = job[k].attempt /\ job'[k].state = "discarded"
          /\ \A l \in Jobs : l # k => job'[l] = job[l]
      BY <3>1 DEF Shapes
    <3>4. <<k[1], "lost">> \in Records \X Excuses
      BY <1>1 DEF Excuses
    <3>5. QED
      BY <3>1, <3>2, <3>3, <3>4 DEF Shapes
  <2>3. QED
    BY <2>1, <2>2
-----------------------------------------------------------------------------
\* Variables keep their types: needed by every other step.
LEMMA ShapesInductive ==
    /\ Init => Shapes
    /\ Shapes /\ JobsTracked /\ [Next]_vars => Shapes'
<1> USE EmbeddingAssumption
<1>1. Init => Shapes
  BY DEF Init, Shapes, JobStates, RunStates, Free, AnyText
<1>2. Shapes /\ JobsTracked /\ [Next]_vars => Shapes'
  <2> SUFFICES ASSUME Shapes, JobsTracked, [Next]_vars PROVE Shapes'
    OBVIOUS
  <2>0. Shapes
    OBVIOUS
  <2> USE DEF budgets
  <2>1. ASSUME NEW r \in Records, NEW t \in AnyText, CreateFeedbackRecord(r, t)
        PROVE  Shapes'
    <3>1. events' \in Seq(Event)
      BY <2>1, PublishAdds DEF CreateFeedbackRecord
    <3>2. QED
      BY <2>1, <3>1 DEF CreateFeedbackRecord, Shapes
  <2>2. ASSUME NEW r \in Records, NEW t \in AnyText, UpdateFeedbackRecord(r, t)
        PROVE  Shapes'
    <3>1. events' \in Seq(Event)
      BY <2>2, PublishAdds, (t # record[r].text) \in BOOLEAN DEF UpdateFeedbackRecord
    <3>2. QED
      BY <2>2, <3>1 DEF UpdateFeedbackRecord, Shapes
  <2>3. ASSUME NEW r \in Records, DeleteFeedbackRecord(r) PROVE Shapes'
    BY <2>3 DEF DeleteFeedbackRecord, Shapes, AnyText
  <2>4. CASE ProviderHandles
    <3>1. events' \in Seq(Event) /\ Head(events) \in Event
      BY <2>4, TailKeeps DEF ProviderHandles
    <3>2. CASE SkipsEvent(Head(events))
      BY <2>4, <3>1, <3>2 DEF ProviderHandles, Shapes
    <3>3. CASE ~SkipsEvent(Head(events))
      <4>1. <<Head(events).record, Head(events).text>> \in Jobs
        BY <3>1 DEF Event, Jobs, Hashes
      <4>2. InsertUnique(<<Head(events).record, Head(events).text>>)
        BY <2>4, <3>3 DEF ProviderHandles
      <4>3. QED
        BY <2>4, <3>1, <4>1, <4>2, InsertKeeps DEF ProviderHandles, Shapes
    <3>4. QED
      BY <3>2, <3>3
  <2>5. CASE EventLost
    <3>1. events' \in Seq(Event) /\ Head(events) \in Event
      BY <2>5, TailKeeps DEF EventLost
    <3>2. excuse' \subseteq Records \X Excuses
      BY <2>5, <3>1 DEF EventLost, Excused, Event, Shapes, Excuses
    <3>3. QED
      BY <2>5, <3>1, <3>2 DEF EventLost, Fault, Shapes
  <2>6. CASE BackfillList
    BY <2>6 DEF BackfillList, Shapes
  <2>7. ASSUME NEW r \in Records, BackfillInsert(r) PROVE Shapes'
    <3>1. <<r, Backfill>> \in Jobs
      BY DEF Jobs, Hashes
    <3>2. QED
      BY <2>7, <3>1, InsertKeeps DEF BackfillInsert, Shapes
  <2>8. CASE BackfillFails
    BY <2>8 DEF BackfillFails, Fault, Shapes
  <2>9. CASE Crash
    <3>1. excuse' \subseteq Records \X Excuses
      <4>1. \A i \in DOMAIN events : events[i].record \in Records
        BY EventsTyped DEF Event
      <4>2. "lost" \in Excuses /\ excuse \subseteq Records \X Excuses
        BY DEF Shapes, Excuses
      <4>3. QED
        BY <2>9, <4>1, <4>2 DEF Crash
    <3>2. run' \in [Jobs -> [at : RunStates, text : AnyText]]
      BY <2>9 DEF Crash, Free, RunStates, AnyText
    <3>3. QED
      BY <2>9, <3>1, <3>2 DEF Crash, Fault, Shapes
  <2>10. ASSUME NEW k \in Jobs, FetchJob(k) PROVE Shapes'
    BY <2>10 DEF FetchJob, Shapes, JobStates, RunStates, AnyText
  <2>11. ASSUME NEW k \in Jobs, StoreResult(k) PROVE Shapes'
    <3>1. run' \in [Jobs -> [at : RunStates, text : AnyText]]
      BY <2>11 DEF StoreResult, Free, Shapes, RunStates, AnyText
    <3>2. CASE run[k].at = "ok"
      <4>1. job' = [job EXCEPT ![k].state = "completed"] /\ UNCHANGED excuse
        BY <2>11, <3>2 DEF StoreResult
      <4>2. job' \in [Jobs -> [state : JobStates, attempt : Nat]]
        BY <4>1 DEF Shapes, JobStates
      <4>3. QED
        BY <2>11, <3>1, <4>1, <4>2 DEF StoreResult, Shapes
    <3>3. CASE run[k].at # "ok"
      BY <2>11, <3>1, <3>3, FailedKeeps DEF StoreResult, Shapes
    <3>4. QED
      BY <3>2, <3>3
  <2>12. ASSUME NEW k \in Jobs, RetryJob(k) PROVE Shapes'
    BY <2>12 DEF RetryJob, Shapes, JobStates
  <2>13. ASSUME NEW k \in Jobs, RescueJob(k) PROVE Shapes'
    BY <2>13, FailedKeeps DEF RescueJob, Shapes
  <2>14. ASSUME NEW k \in Jobs, GetFeedbackRecord(k) PROVE Shapes'
    <3>1. k[1] \in Records /\ record[k[1]].text \in AnyText
      BY DEF Jobs, Shapes
    <3>2. excuse' \subseteq Records \X Excuses
      BY <2>14, <3>1 DEF GetFeedbackRecord, Excused, Shapes, Excuses
    <3>3. run' \in [Jobs -> [at : RunStates, text : AnyText]]
      BY <2>14, <3>1 DEF GetFeedbackRecord, Shapes, RunStates
    <3>4. QED
      BY <2>14, <3>2, <3>3 DEF GetFeedbackRecord, Shapes
  <2>15. ASSUME NEW k \in Jobs,
                RecordNotFound(k) \/ CreateEmbedding(k) \/ WorkFails(k)
         PROVE  Shapes'
    <3>1. PICK at \in {"ok", "embedded", "error"} : At(k, at)
      BY <2>15 DEF RecordNotFound, CreateEmbedding, WorkFails
    <3>2. run' \in [Jobs -> [at : RunStates, text : AnyText]]
      BY <3>1, AtKeeps
    <3>3. QED
      BY <2>15, <3>2 DEF RecordNotFound, CreateEmbedding, WorkFails, Fault, Shapes
  <2>16. ASSUME NEW k \in Jobs, HandleEmptyText(k) PROVE Shapes'
    <3>1. run' \in [Jobs -> [at : RunStates, text : AnyText]]
      BY <2>16, AtKeeps DEF HandleEmptyText
    <3>2. QED
      BY <2>16, <3>1 DEF HandleEmptyText, Shapes
  <2>17. ASSUME NEW k \in Jobs, SetEmbedding(k) PROVE Shapes'
    <3>1. run[k].text \in Texts
      BY <2>17 DEF SetEmbedding, JobsTracked, Shapes, AnyText
    <3>2. embedding' \in [Records -> Texts \cup {None}]
      BY <2>17, <3>1 DEF SetEmbedding, Shapes
    <3>3. run' \in [Jobs -> [at : RunStates, text : AnyText]]
      BY <2>17, AtKeeps DEF SetEmbedding
    <3>4. QED
      BY <2>17, <3>2, <3>3 DEF SetEmbedding, Shapes
  <2>18. CASE UNCHANGED vars
    BY <2>18 DEF vars, Shapes
  <2>19. QED
    BY <2>1, <2>2, <2>3, <2>4, <2>5, <2>6, <2>7, <2>8, <2>9, <2>10, <2>11, <2>12,
       <2>13, <2>14, <2>15, <2>16, <2>17, <2>18
       DEF Next, Write, Provider, BackfillCommand, Work, River
<1>3. QED
  BY <1>1, <1>2
-----------------------------------------------------------------------------
\* An attempt is counted when it is fetched, and a job that has none left is
\* not retried.
LEMMA JobsInductive ==
    /\ Init => JobsTracked
    /\ Shapes /\ JobsTracked /\ [Next]_vars => JobsTracked'
<1> USE EmbeddingAssumption DEF JobsTracked
<1>1. Init => JobsTracked
  BY DEF Init, Free
<1>2. Shapes /\ JobsTracked /\ [Next]_vars => JobsTracked'
  <2> SUFFICES ASSUME Shapes, JobsTracked, [Next]_vars PROVE JobsTracked'
    OBVIOUS
  <2>0. /\ job \in [Jobs -> [state : JobStates, attempt : Nat]]
        /\ run \in [Jobs -> [at : RunStates, text : AnyText]]
    BY DEF Shapes
  <2>1. ASSUME NEW k \in Jobs, InsertUnique(k), UNCHANGED run PROVE JobsTracked'
    <3>1. \A l \in Jobs :
              \/ job'[l] = job[l]
              \/ /\ job[l].state \in {"none", "discarded"}
                 /\ job'[l] = [state |-> "available", attempt |-> 0]
      BY <2>1, InsertKeeps
    <3>2. QED
      BY <2>0, <2>1, <3>1
  <2>2. ASSUME NEW k \in Jobs, FetchJob(k) PROVE JobsTracked'
    BY <2>0, <2>2 DEF FetchJob
  <2>3. ASSUME NEW k \in Jobs, StoreResult(k) PROVE JobsTracked'
    <3>1. \A l \in Jobs : run'[l] = IF l = k THEN Free ELSE run[l]
      BY <2>0, <2>3 DEF StoreResult
    <3>2. CASE run[k].at = "ok"
      BY <2>0, <2>3, <3>1, <3>2 DEF StoreResult, Free
    <3>3. CASE run[k].at # "ok"
      <4>1. Failed(k)
        BY <2>3, <3>3 DEF StoreResult
      <4>2. /\ \A l \in Jobs : l # k => job'[l] = job[l]
            /\ job'[k].attempt = job[k].attempt
            /\ \/ job'[k].state = "retryable" /\ job[k].attempt < MaxAttempts
               \/ job'[k].state = "discarded"
        BY <4>1, FailedKeeps
      <4>3. QED
        BY <2>0, <3>1, <4>2 DEF Free
    <3>4. QED
      BY <3>2, <3>3
  <2>4. ASSUME NEW k \in Jobs, RetryJob(k) PROVE JobsTracked'
    BY <2>0, <2>4 DEF RetryJob
  <2>5. ASSUME NEW k \in Jobs, RescueJob(k) PROVE JobsTracked'
    BY <2>0, <2>5, FailedKeeps DEF RescueJob
  <2>6. CASE Crash
    BY <2>0, <2>6 DEF Crash, Free
  <2>7. ASSUME NEW k \in Jobs, Work(k) PROVE JobsTracked'
    <3>1. UNCHANGED job /\ run[k].at # "free"
      BY <2>7 DEF Work, GetFeedbackRecord, RecordNotFound, HandleEmptyText,
         CreateEmbedding, SetEmbedding, WorkFails
    <3>2. CASE GetFeedbackRecord(k)
      BY <2>0, <3>1, <3>2 DEF GetFeedbackRecord
    <3>3. CASE ~GetFeedbackRecord(k)
      <4>1. PICK at \in {"ok", "embedded", "error"} :
                At(k, at) /\ (at = "embedded" => run[k].text # Empty)
        BY <2>7, <3>3 DEF Work, RecordNotFound, HandleEmptyText, CreateEmbedding,
           SetEmbedding, WorkFails
      <4>2. /\ run'[k].at = at /\ run'[k].text = run[k].text
            /\ \A l \in Jobs : l # k => run'[l] = run[l]
        BY <4>1, AtKeeps
      <4>3. QED
        BY <3>1, <4>1, <4>2
    <3>4. QED
      BY <3>2, <3>3
  <2>8. CASE UNCHANGED <<job, run>>
    BY <2>8
  <2>9. CASE ProviderHandles
    <3>1. CASE SkipsEvent(Head(events))
      BY <2>8, <2>9, <3>1 DEF ProviderHandles
    <3>2. CASE ~SkipsEvent(Head(events))
      <4>1. Head(events) \in Event
        BY <2>9, TailKeeps DEF ProviderHandles
      <4>2. <<Head(events).record, Head(events).text>> \in Jobs
        BY <4>1 DEF Event, Jobs, Hashes
      <4>3. QED
        BY <2>1, <2>9, <3>2, <4>2 DEF ProviderHandles
    <3>3. QED
      BY <3>1, <3>2
  <2>10. ASSUME NEW r \in Records, BackfillInsert(r) PROVE JobsTracked'
    <3>1. <<r, Backfill>> \in Jobs
      BY DEF Jobs, Hashes
    <3>2. QED
      BY <2>1, <2>10, <3>1 DEF BackfillInsert
  <2>11. QED
    BY <2>2, <2>3, <2>4, <2>5, <2>6, <2>7, <2>8, <2>9, <2>10
       DEF Next, Write, Provider, BackfillCommand, River, CreateFeedbackRecord,
           UpdateFeedbackRecord, DeleteFeedbackRecord, EventLost, BackfillList,
           BackfillFails, vars
<1>3. QED
  BY <1>1, <1>2
-----------------------------------------------------------------------------
Tracking == Shapes /\ JobsTracked

LEMMA TrackingInvariant == Spec => []Tracking
<1>1. Init => Tracking
  BY ShapesInductive, JobsInductive DEF Tracking
<1>2. Tracking /\ [Next]_vars => Tracking'
  BY ShapesInductive, JobsInductive DEF Tracking
<1>3. QED
  BY <1>1, <1>2, PTL DEF Spec

\* Variables keep their types, and no job counts more attempts than
\* EMBEDDING_MAX_ATTEMPTS.
THEOREM EmbeddingTypes == Spec => []TypeOK
<1>1. Tracking => TypeOK
  BY EmbeddingAssumption DEF Tracking, Shapes, JobsTracked, TypeOK
<1>2. QED
  BY <1>1, TrackingInvariant, PTL

\* A vector exists only for a record that exists: the foreign key refuses the
\* one a worker computed before the record was deleted.
THEOREM EmbeddingsHaveRecords == Spec => []EmbeddingHasRecord
<1> USE DEF EmbeddingHasRecord
<1>1. Init => EmbeddingHasRecord
  BY DEF Init
<1>2. Tracking /\ EmbeddingHasRecord /\ [Next]_vars => EmbeddingHasRecord'
  <2> SUFFICES ASSUME Tracking, EmbeddingHasRecord, [Next]_vars
               PROVE  EmbeddingHasRecord'
    OBVIOUS
  <2>0. /\ record \in [Records -> [state : {"absent", "live", "deleted"},
                                   text : AnyText]]
        /\ embedding \in [Records -> Texts \cup {None}]
        /\ \A k \in Jobs : k[1] \in Records
    BY DEF Tracking, Shapes, Jobs
  <2>1. ASSUME NEW r \in Records, NEW t \in AnyText,
               CreateFeedbackRecord(r, t) \/ UpdateFeedbackRecord(r, t)
        PROVE  EmbeddingHasRecord'
    BY <2>0, <2>1 DEF CreateFeedbackRecord, UpdateFeedbackRecord
  <2>2. ASSUME NEW r \in Records, DeleteFeedbackRecord(r) PROVE EmbeddingHasRecord'
    BY <2>0, <2>2 DEF DeleteFeedbackRecord
  <2>3. ASSUME NEW k \in Jobs, HandleEmptyText(k) PROVE EmbeddingHasRecord'
    BY <2>0, <2>3 DEF HandleEmptyText
  <2>4. ASSUME NEW k \in Jobs, SetEmbedding(k) PROVE EmbeddingHasRecord'
    BY <2>0, <2>4 DEF SetEmbedding
  <2>5. CASE UNCHANGED <<record, embedding>>
    BY <2>5
  <2>6. QED
    BY <2>1, <2>2, <2>3, <2>4, <2>5
       DEF Next, Write, Provider, ProviderHandles, EventLost, BackfillCommand,
           BackfillList, BackfillInsert, BackfillFails, Crash, Work,
           GetFeedbackRecord, RecordNotFound, CreateEmbedding, WorkFails, River,
           FetchJob, StoreResult, RetryJob, RescueJob, vars
<1>3. QED
  BY <1>1, <1>2, TrackingInvariant, PTL DEF Spec
-----------------------------------------------------------------------------
\* Only the events of a record and the backfill of a record add a job of it.
LEMMA JobsFollowRecords ==
    ASSUME Tracking, AbsentUnknown, Next,
           NEW r \in Records, record[r].state = "absent", NEW h \in Hashes
    PROVE  job'[<<r, h>>].state = "none"
<1> DEFINE k == <<r, h>>
<1>1. k \in Jobs /\ k[1] = r
  BY DEF Jobs
<1>2. job[k].state = "none" /\ run[k].at = "free" /\ Shapes
  BY <1>1 DEF AbsentUnknown, Tracking, JobsTracked, Shapes
<1> HIDE DEF k
<1>3. ASSUME NEW l \in Jobs, InsertUnique(l), l[1] # r
      PROVE  job'[k] = job[k]
  BY <1>1, <1>2, <1>3, InsertKeeps
<1>4. CASE ProviderHandles
  <2>1. CASE SkipsEvent(Head(events))
    BY <1>2, <1>4, <2>1 DEF ProviderHandles, k
  <2>2. CASE ~SkipsEvent(Head(events))
    <3>1. Head(events) \in Event /\ 1 \in DOMAIN events /\ Head(events) = events[1]
      BY <1>2, <1>4, TailKeeps DEF ProviderHandles
    <3>2. <<Head(events).record, Head(events).text>> \in Jobs
      BY <3>1 DEF Event, Jobs, Hashes
    <3>3. Head(events).record # r
      BY <3>1 DEF AbsentUnknown
    <3>4. QED
      BY <1>2, <1>3, <1>4, <2>2, <3>2, <3>3 DEF ProviderHandles, k
  <2>3. QED
    BY <2>1, <2>2
<1>5. ASSUME NEW q \in Records, BackfillInsert(q) PROVE job'[k] = job[k]
  <2>1. <<q, Backfill>> \in Jobs /\ q # r
    BY <1>5 DEF Jobs, Hashes, BackfillInsert, AbsentUnknown
  <2>2. QED
    BY <1>3, <1>5, <2>1 DEF BackfillInsert
<1>6. ASSUME NEW l \in Jobs, Work(l) \/ River(l) PROVE job'[k] = job[k]
  <2>1. CASE Work(l)
    BY <2>1 DEF Work, GetFeedbackRecord, RecordNotFound, HandleEmptyText,
       CreateEmbedding, SetEmbedding, WorkFails
  <2>2. CASE River(l)
    <3>1. l # k
      BY <1>2, <2>2 DEF River, FetchJob, StoreResult, RetryJob, RescueJob
    <3>2. \/ Failed(l)
          \/ \E s \in {"available", "completed"} : job' = [job EXCEPT ![l].state = s]
          \/ job' = [job EXCEPT ![l] = [state |-> "running", attempt |-> @.attempt + 1]]
      BY <2>2 DEF River, FetchJob, StoreResult, RetryJob, RescueJob
    <3>3. CASE Failed(l)
      BY <1>1, <1>2, <3>1, <3>3, FailedKeeps
    <3>4. QED
      BY <1>1, <1>2, <3>1, <3>2, <3>3 DEF Shapes
  <2>3. QED
    BY <1>6, <2>1, <2>2
<1>7. QED
  BY <1>2, <1>4, <1>5, <1>6
     DEF k, Next, Write, Provider, BackfillCommand, CreateFeedbackRecord,
         UpdateFeedbackRecord, DeleteFeedbackRecord, EventLost, BackfillList,
         BackfillFails, Crash

\* The three writes of a record. An update tells what it wrote.
LEMMA WriteSteps ==
    ASSUME Shapes, NEW q \in Records
    PROVE  /\ \A t \in AnyText :
                  CreateFeedbackRecord(q, t) \/ UpdateFeedbackRecord(q, t) =>
                      /\ record'[q].state = "live" /\ record'[q].text = t
                      /\ \A r \in Records : r # q => record'[r] = record[r]
           /\ DeleteFeedbackRecord(q) =>
                  /\ record'[q].state = "deleted"
                  /\ \A r \in Records : r # q => record'[r] = record[r]
<1>1. record \in [Records -> [state : {"absent", "live", "deleted"}, text : AnyText]]
  BY DEF Shapes
<1>2. ASSUME NEW t \in AnyText, CreateFeedbackRecord(q, t)
      PROVE  /\ record'[q].state = "live" /\ record'[q].text = t
             /\ \A r \in Records : r # q => record'[r] = record[r]
  BY <1>1, <1>2 DEF CreateFeedbackRecord
<1>3. ASSUME NEW t \in AnyText, UpdateFeedbackRecord(q, t)
      PROVE  /\ record'[q].state = "live" /\ record'[q].text = t
             /\ \A r \in Records : r # q => record'[r] = record[r]
  <2>1. record' = [record EXCEPT ![q].text = t] /\ record[q].state = "live"
    BY <1>3 DEF UpdateFeedbackRecord
  <2>2. QED
    BY <1>1, <2>1
<1>4. ASSUME DeleteFeedbackRecord(q)
      PROVE  /\ record'[q].state = "deleted"
             /\ \A r \in Records : r # q => record'[r] = record[r]
  BY <1>1, <1>4 DEF DeleteFeedbackRecord
<1>5. QED
  BY <1>2, <1>3, <1>4

\* A record that exists or was deleted is never absent again.
LEMMA RecordSteps ==
    ASSUME Shapes, Next, NEW r \in Records
    PROVE  record'[r] = record[r] \/ record'[r].state \in {"live", "deleted"}
<1>1. ASSUME NEW q \in Records, NEW t \in AnyText,
             CreateFeedbackRecord(q, t) \/ UpdateFeedbackRecord(q, t)
      PROVE  record'[r] = record[r] \/ record'[r].state \in {"live", "deleted"}
  BY <1>1, WriteSteps
<1>2. ASSUME NEW q \in Records, DeleteFeedbackRecord(q)
      PROVE  record'[r] = record[r] \/ record'[r].state \in {"live", "deleted"}
  BY <1>2, WriteSteps
<1>3. CASE UNCHANGED record
  BY <1>3
<1>4. QED
  BY <1>1, <1>2, <1>3 DEF Next, Write, Provider, ProviderHandles, EventLost,
     BackfillCommand, BackfillList, BackfillInsert, BackfillFails, Crash, Work,
     GetFeedbackRecord, RecordNotFound, HandleEmptyText, CreateEmbedding,
     SetEmbedding, WorkFails, River, FetchJob, StoreResult, RetryJob, RescueJob

\* A record that was not created has no event, no job and no vector.
LEMMA AbsentInductive ==
    /\ Init => AbsentUnknown
    /\ Tracking /\ AbsentUnknown /\ EmbeddingHasRecord' /\ [Next]_vars
           => AbsentUnknown'
<1>1. Init => AbsentUnknown
  BY DEF Init, AbsentUnknown, Jobs
<1>2. Tracking /\ AbsentUnknown /\ EmbeddingHasRecord' /\ [Next]_vars
          => AbsentUnknown'
  <2> SUFFICES ASSUME Tracking, AbsentUnknown, EmbeddingHasRecord', [Next]_vars,
                      NEW r \in Records, record'[r].state = "absent"
               PROVE  /\ \A i \in DOMAIN events' : events'[i].record # r
                      /\ \A h \in Hashes : job'[<<r, h>>].state = "none"
                      /\ r \notin backfill'
                      /\ embedding'[r] = None
    BY DEF AbsentUnknown
  <2>0. Shapes /\ record \in [Records -> [state : {"absent", "live", "deleted"},
                                          text : AnyText]]
    BY DEF Tracking, Shapes
  <2>1. CASE UNCHANGED vars
    BY <2>1 DEF vars, AbsentUnknown
  <2>2. CASE Next
    <3>1. record[r].state = "absent"
      BY <2>0, <2>2, RecordSteps
    <3>2. /\ \A i \in DOMAIN events : events[i].record # r
          /\ r \notin backfill
      BY <3>1 DEF AbsentUnknown
    <3>3. \A i \in DOMAIN events' : events'[i].record # r
      <4>1. ASSUME NEW q \in Records, NEW t \in AnyText,
                   CreateFeedbackRecord(q, t) \/ UpdateFeedbackRecord(q, t)
            PROVE  \A i \in DOMAIN events' : events'[i].record # r
        <5>1. q # r
          BY <2>0, <4>1, WriteSteps
        <5>2. PICK kind \in {"created", "updated"}, edited \in BOOLEAN :
                  Publish(q, kind, t, edited)
          BY <4>1, (t # record[q].text) \in BOOLEAN
             DEF CreateFeedbackRecord, UpdateFeedbackRecord
        <5>3. QED
          BY <2>0, <3>2, <5>1, <5>2, PublishAdds
      <4>2. CASE ProviderHandles \/ EventLost
        BY <2>0, <3>2, <4>2, TailKeeps DEF ProviderHandles, EventLost
      <4>3. CASE UNCHANGED events \/ events' = <<>>
        BY <3>2, <4>3
      <4>4. QED
        BY <2>2, <4>1, <4>2, <4>3
           DEF Next, Write, DeleteFeedbackRecord, Provider, BackfillCommand,
               BackfillList, BackfillInsert, BackfillFails, Crash, Work,
               GetFeedbackRecord, RecordNotFound, HandleEmptyText, CreateEmbedding,
               SetEmbedding, WorkFails, River, FetchJob, StoreResult, RetryJob,
               RescueJob
    <3>4. r \notin backfill'
      BY <2>2, <3>1, <3>2
         DEF Next, Write, CreateFeedbackRecord, UpdateFeedbackRecord,
         DeleteFeedbackRecord, Provider, ProviderHandles, EventLost,
         BackfillCommand, BackfillList, NeedsBackfill, BackfillInsert,
         BackfillFails, Crash, Work, GetFeedbackRecord, RecordNotFound,
         HandleEmptyText, CreateEmbedding, SetEmbedding, WorkFails, River, FetchJob,
         StoreResult, RetryJob, RescueJob
    <3>5. embedding'[r] = None
      BY DEF EmbeddingHasRecord
    <3>6. QED
      BY <2>2, <3>1, <3>3, <3>4, <3>5, JobsFollowRecords
  <2>3. QED
    BY <2>1, <2>2
<1>3. QED
  BY <1>1, <1>2
-----------------------------------------------------------------------------
IndInv == Tracking /\ EmbeddingHasRecord /\ AbsentUnknown /\ CurrentOrLater

\* What leaves the record, its vector and its jobs alone leaves the promise.
LEMMA OtherRecords ==
    ASSUME NEW r \in TextFields, CurrentOrLater,
           record'[r] = record[r], embedding'[r] = embedding[r],
           excuse \subseteq excuse',
           \A h \in Hashes : job'[<<r, h>>] = job[<<r, h>>]
                             /\ run'[<<r, h>>] = run[<<r, h>>],
           Announced(r) => Announced(r)',
           record'[r].state = "live", Unexcused(r)'
    PROVE  LooksLater(r)' \/ Current(r)'
<1>1. LooksLater(r) \/ Current(r)
  BY DEF CurrentOrLater, Unexcused
<1>2. CASE LooksLater(r)
  BY <1>2 DEF LooksLater, WillRead
<1>3. CASE Current(r)
  BY <1>3 DEF Current, Reading, Want
<1>4. QED
  BY <1>1, <1>2, <1>3

\* Events are only taken from the front, and one that is not skipped leaves a
\* job that will read the record, or an excuse.
LEMMA HandledIsRead ==
    ASSUME IndInv, ProviderHandles, NEW r \in TextFields,
           record[r].state = "live", Unexcused(r)'
    PROVE  LooksLater(r)' \/ Current(r)'
<1>1. /\ Shapes /\ JobsTracked /\ r \in Records
      /\ UNCHANGED <<record, embedding, run>>
      /\ job \in [Jobs -> [state : JobStates, attempt : Nat]]
      /\ run \in [Jobs -> [at : RunStates, text : AnyText]]
  BY EmbeddingAssumption DEF IndInv, Tracking, ProviderHandles, Shapes
<1>2. PICK e \in Event :
          /\ e = Head(events) /\ e = events[1]
          /\ \A i \in DOMAIN events :
                 i = 1 \/ \E j \in DOMAIN events' : events'[j] = events[i]
  BY <1>1, TailKeeps DEF ProviderHandles
<1> DEFINE k == <<e.record, e.text>>
<1>3. k \in Jobs /\ k[1] = e.record /\ k[2] = e.text /\ e.text \in Hashes
  BY <1>2 DEF Event, Jobs, Hashes
<1> HIDE DEF k
<1>4. Announced(r) => Announced(r)' \/ (e.record = r /\ ~SkipsEvent(e))
  BY <1>2 DEF Announced
<1>5. CASE SkipsEvent(e)
  <2>1. UNCHANGED <<job, excuse>>
    BY <1>2, <1>5 DEF ProviderHandles
  <2>2. QED
    BY <1>1, <1>4, <1>5, <2>1, OtherRecords DEF IndInv
<1>6. CASE ~SkipsEvent(e)
  <2>1. InsertUnique(k)
    BY <1>2, <1>6 DEF ProviderHandles, k
  <2>2. /\ excuse \subseteq excuse'
        /\ \A l \in Jobs : l # k => job'[l] = job[l]
        /\ \/ job'[k].state = "available"
           \/ UNCHANGED job /\ Blocked(k)
              /\ (AlreadyRead(k) => <<k[1], "skipped">> \in excuse')
    BY <1>1, <1>3, <2>1, InsertKeeps
  <2>3. CASE e.record # r
    <3>1. \A h \in Hashes : <<r, h>> \in Jobs /\ <<r, h>> # k
      BY <1>1, <1>3, <2>3 DEF Jobs
    <3>2. QED
      BY <1>1, <1>4, <2>2, <2>3, <3>1, OtherRecords DEF IndInv
  <2>4. CASE e.record = r
    <3>1. k = <<r, e.text>>
      BY <2>4 DEF k
    <3>2. <<r, "skipped">> \notin excuse'
      BY DEF Unexcused, Excuses
    <3>3. WillRead(k)'
      <4>1. CASE job'[k].state = "available"
        BY <4>1 DEF WillRead
      <4>2. CASE UNCHANGED job /\ Blocked(k) /\ ~AlreadyRead(k)
        BY <1>1, <1>3, <4>2
           DEF Blocked, AlreadyRead, WillRead, JobStates, RunStates, JobsTracked
      <4>3. QED
        BY <1>3, <2>2, <2>4, <3>2, <4>1, <4>2
    <3>4. LooksLater(r)'
      BY <1>3, <3>1, <3>3 DEF LooksLater
    <3>5. QED
      BY <3>4
  <2>5. QED
    BY <2>3, <2>4
<1>7. QED
  BY <1>5, <1>6

\* The backfill adds a job or finds one of its own.
LEMMA BackfillReads ==
    ASSUME IndInv, NEW q \in Records, BackfillInsert(q), NEW r \in TextFields,
           record[r].state = "live", Unexcused(r)'
    PROVE  LooksLater(r)' \/ Current(r)'
<1> DEFINE k == <<q, Backfill>>
<1>1. k \in Jobs /\ Backfill \in Hashes /\ Shapes /\ r \in Records /\ CurrentOrLater
  BY EmbeddingAssumption DEF Jobs, Hashes, IndInv, Tracking
<1>2. /\ InsertUnique(k) /\ UNCHANGED <<record, embedding, events, run>>
  BY DEF BackfillInsert
<1> HIDE DEF k
<1>3. /\ excuse \subseteq excuse'
      /\ \A l \in Jobs : l # k => job'[l] = job[l]
      /\ job'[k].state = "available" \/ UNCHANGED job
  BY <1>1, <1>2, InsertKeeps
<1>4. CASE q = r /\ job'[k].state = "available"
  BY <1>1, <1>4 DEF LooksLater, WillRead, k
<1>5. CASE q # r \/ UNCHANGED job
  <2>1. \A h \in Hashes : <<r, h>> \in Jobs /\ (q # r => <<r, h>> # k)
    BY <1>1 DEF Jobs, k
  <2>2. \A h \in Hashes : job'[<<r, h>>] = job[<<r, h>>]
    BY <1>3, <1>5, <2>1
  <2>3. Announced(r) => Announced(r)'
    BY <1>2 DEF Announced
  <2>4. QED
    BY <1>1, <1>2, <1>3, <2>2, <2>3, OtherRecords
<1>6. QED
  BY <1>3, <1>4, <1>5

\* A write announces the text it leaves; a record created without text has
\* nothing to be done for it.
LEMMA WritesAnnounce ==
    ASSUME IndInv, NEW q \in Records, NEW t \in AnyText,
           CreateFeedbackRecord(q, t) \/ UpdateFeedbackRecord(q, t),
           NEW r \in TextFields, record'[r].state = "live", Unexcused(r)'
    PROVE  LooksLater(r)' \/ Current(r)'
<1>1. /\ Shapes /\ JobsTracked /\ AbsentUnknown /\ CurrentOrLater /\ r \in Records
      /\ UNCHANGED <<embedding, job, run, excuse>>
  BY EmbeddingAssumption DEF IndInv, Tracking, CreateFeedbackRecord,
     UpdateFeedbackRecord
<1>2. /\ record'[q].text = t
      /\ q # r => record'[r] = record[r]
  BY <1>1, WriteSteps
<1>3. PICK kind \in {"created", "updated"}, edited \in BOOLEAN :
          /\ Publish(q, kind, t, edited)
          /\ kind = "created" => record[q].state = "absent"
  BY (t # record[q].text) \in BOOLEAN DEF CreateFeedbackRecord, UpdateFeedbackRecord
<1>4. /\ \A i \in DOMAIN events : i \in DOMAIN events' /\ events'[i] = events[i]
      /\ \E i \in DOMAIN events' :
             events'[i].record = q /\ events'[i].kind = kind /\ events'[i].text = t
  BY <1>1, <1>3, PublishAdds
<1>5. CASE q # r
  <2>1. Announced(r) => Announced(r)'
    BY <1>4 DEF Announced
  <2>2. QED
    BY <1>1, <1>2, <1>5, <2>1, OtherRecords
<1>6. CASE q = r /\ ~(kind = "created" /\ t = Empty)
  <2>1. Announced(r)'
    BY <1>4, <1>6 DEF Announced, SkipsEvent
  <2>2. QED
    BY <2>1 DEF LooksLater
<1>7. CASE q = r /\ kind = "created" /\ t = Empty
  <2>1. embedding'[r] = None /\ \A h \in Hashes : job[<<r, h>>].state = "none"
    BY <1>1, <1>3, <1>7 DEF AbsentUnknown
  <2>2. ASSUME NEW h \in Hashes PROVE run[<<r, h>>].at = "free"
    <3>1. <<r, h>> \in Jobs
      BY <1>1 DEF Jobs
    <3>2. QED
      BY <1>1, <2>1, <3>1 DEF JobsTracked
  <2>3. Current(r)'
    BY <1>1, <1>2, <1>7, <2>1, <2>2 DEF Current, Want, Reading
  <2>4. QED
    BY <2>3
<1>8. QED
  BY <1>5, <1>6, <1>7

\* The jobs of a dead process will run again, or excuse their record.
LEMMA CrashesExcused ==
    ASSUME IndInv, Crash, NEW r \in TextFields,
           record[r].state = "live", Unexcused(r)'
    PROVE  LooksLater(r)' \/ Current(r)'
<1>1. /\ JobsTracked /\ CurrentOrLater /\ r \in Records
      /\ UNCHANGED <<record, embedding, job>>
      /\ excuse \subseteq excuse'
      /\ \A i \in DOMAIN events : <<events[i].record, "lost">> \in excuse'
      /\ \A k \in Jobs : run'[k].at = "free"
  BY EmbeddingAssumption DEF IndInv, Tracking, Crash, Free
<1>2. ~Announced(r)
  BY <1>1 DEF Announced, Unexcused, Excuses
<1>3. LooksLater(r) \/ Current(r)
  BY <1>1 DEF CurrentOrLater, Unexcused
<1>4. \A h \in Hashes : <<r, h>> \in Jobs
  BY <1>1 DEF Jobs
<1>5. ASSUME NEW h \in Hashes, WillRead(<<r, h>>) \/ Reading(<<r, h>>)
      PROVE  LooksLater(r)'
  <2>1. WillRead(<<r, h>>)'
    BY <1>1, <1>4, <1>5 DEF WillRead, Reading, JobsTracked
  <2>2. QED
    BY <2>1 DEF LooksLater
<1>6. CASE embedding[r] = Want(r) /\ \A h \in Hashes : ~Reading(<<r, h>>)
  BY <1>1, <1>4, <1>6 DEF Current, Want, Reading
<1>7. QED
  BY <1>2, <1>3, <1>5, <1>6 DEF LooksLater, Current

\* River forgets no job: one that has not read the record runs again, or its
\* last failure is the excuse.
LEMMA RiverKeeps ==
    ASSUME IndInv, NEW k \in Jobs, River(k), NEW r \in TextFields,
           record[r].state = "live", Unexcused(r)'
    PROVE  LooksLater(r)' \/ Current(r)'
<1>1. /\ Shapes /\ JobsTracked /\ CurrentOrLater /\ r \in Records
      /\ job \in [Jobs -> [state : JobStates, attempt : Nat]]
      /\ run \in [Jobs -> [at : RunStates, text : AnyText]]
      /\ UNCHANGED <<record, embedding, events>>
  BY EmbeddingAssumption DEF IndInv, Tracking, Shapes, River, FetchJob, StoreResult,
     RetryJob, RescueJob
<1>2. /\ \A l \in Jobs : l # k => job'[l] = job[l] /\ run'[l] = run[l]
      /\ excuse \subseteq excuse'
      /\ \/ WillRead(k)'
         \/ <<k[1], "lost">> \in excuse'
         \/ ~WillRead(k) /\ ~Reading(k) /\ ~Reading(k)'
  <2>1. CASE FetchJob(k)
    BY <1>1, <2>1 DEF FetchJob, WillRead
  <2>2. CASE StoreResult(k) /\ run[k].at = "ok"
    BY <1>1, <2>2 DEF StoreResult, WillRead, Reading, JobsTracked, Free
  <2>3. CASE StoreResult(k) /\ run[k].at # "ok"
    <3>1. Failed(k) /\ run' = [run EXCEPT ![k] = Free]
      BY <2>3 DEF StoreResult
    <3>2. QED
      BY <1>1, <3>1, FailedKeeps DEF WillRead
  <2>4. CASE RetryJob(k)
    BY <1>1, <2>4 DEF RetryJob, WillRead
  <2>5. CASE RescueJob(k)
    BY <1>1, <2>5, FailedKeeps DEF RescueJob, WillRead
  <2>6. QED
    BY <2>1, <2>2, <2>3, <2>4, <2>5 DEF River
<1>3. Announced(r) => Announced(r)'
  BY <1>1 DEF Announced
<1>4. \A h \in Hashes : <<r, h>> \in Jobs
  BY <1>1 DEF Jobs
<1>5. CASE k[1] # r
  <2>1. \A h \in Hashes : <<r, h>> # k
    BY <1>5
  <2>2. QED
    BY <1>1, <1>2, <1>3, <1>4, <2>1, OtherRecords
<1>6. CASE k[1] = r
  <2>1. PICK g \in Hashes : k = <<r, g>>
    BY <1>6 DEF Jobs
  <2>2. <<k[1], "lost">> \notin excuse'
    BY <1>6 DEF Unexcused, Excuses
  <2>3. CASE WillRead(k)'
    BY <2>1, <2>3 DEF LooksLater
  <2>4. CASE ~WillRead(k) /\ ~Reading(k) /\ ~Reading(k)'
    <3>1. LooksLater(r) \/ Current(r)
      BY <1>1, <1>2 DEF CurrentOrLater, Unexcused
    <3>2. CASE LooksLater(r)
      BY <1>2, <1>3, <1>4, <2>1, <2>4, <3>2 DEF LooksLater, WillRead
    <3>3. CASE Current(r)
      BY <1>1, <1>2, <1>4, <2>1, <2>4, <3>3 DEF Current, Reading, Want
    <3>4. QED
      BY <3>1, <3>2, <3>3
  <2>5. QED
    BY <1>2, <2>2, <2>3, <2>4
<1>7. QED
  BY <1>5, <1>6

\* A worker that read the record stores the vector of what it read: the text
\* the record has, if nothing else will look at the record.
LEMMA WorkKeeps ==
    ASSUME IndInv, NEW k \in Jobs, Work(k), NEW r \in TextFields,
           record[r].state = "live", Unexcused(r)'
    PROVE  LooksLater(r)' \/ Current(r)'
<1>1. /\ Shapes /\ JobsTracked /\ CurrentOrLater /\ r \in Records /\ k[1] \in Records
      /\ run \in [Jobs -> [at : RunStates, text : AnyText]]
      /\ embedding \in [Records -> Texts \cup {None}]
      /\ UNCHANGED <<record, events, job>> /\ job[k].state = "running"
  BY EmbeddingAssumption DEF IndInv, Tracking, Shapes, Work, GetFeedbackRecord,
     RecordNotFound, HandleEmptyText, CreateEmbedding, SetEmbedding, WorkFails,
     JobsTracked, Jobs
<1>2. /\ \A l \in Jobs : l # k => run'[l] = run[l]
      /\ \A q \in Records : q # k[1] => embedding'[q] = embedding[q]
      /\ excuse \subseteq excuse'
  <2>1. CASE GetFeedbackRecord(k)
    BY <1>1, <2>1 DEF GetFeedbackRecord, Excused
  <2>2. CASE ~GetFeedbackRecord(k)
    <3>1. PICK at \in {"ok", "embedded", "error"} : At(k, at)
      BY <2>2 DEF Work, RecordNotFound, HandleEmptyText, CreateEmbedding,
         SetEmbedding, WorkFails
    <3>2. \A q \in Records : q # k[1] => embedding'[q] = embedding[q]
      BY <1>1, <2>2 DEF Work, RecordNotFound, HandleEmptyText, CreateEmbedding,
         SetEmbedding, WorkFails
    <3>3. UNCHANGED excuse
      BY <2>2 DEF Work, RecordNotFound, HandleEmptyText, CreateEmbedding,
         SetEmbedding, WorkFails
    <3>4. QED
      BY <1>1, <3>1, <3>2, <3>3, AtKeeps
  <2>3. QED
    BY <2>1, <2>2
<1>3. Announced(r) => Announced(r)'
  BY <1>1 DEF Announced
<1>4. \A h \in Hashes : <<r, h>> \in Jobs
  BY <1>1 DEF Jobs
<1>5. CASE k[1] # r
  <2>1. \A h \in Hashes : <<r, h>> # k
    BY <1>5
  <2>2. QED
    BY <1>1, <1>2, <1>3, <1>4, <1>5, <2>1, OtherRecords
<1>6. CASE k[1] = r
  <2>1. PICK g \in Hashes : k = <<r, g>>
    BY <1>6 DEF Jobs
  <2>2. LooksLater(r) \/ Current(r)
    BY <1>1, <1>2 DEF CurrentOrLater, Unexcused
  <2>3. ASSUME ~WillRead(k), LooksLater(r) PROVE LooksLater(r)'
    BY <1>1, <1>2, <1>3, <1>4, <2>1, <2>3 DEF LooksLater, WillRead
  <2>4. CASE GetFeedbackRecord(k)
    <3>1. /\ run' = [run EXCEPT ![k] = [at |-> "read", text |-> record[r].text]]
          /\ UNCHANGED embedding
      BY <1>6, <2>4 DEF GetFeedbackRecord
    <3>2. ~Overlaps(k)
      BY <1>6, <2>4 DEF GetFeedbackRecord, Excused, Unexcused, Excuses
    <3>3. \A h \in Hashes : h # g => ~Reading(<<r, h>>)
      BY <2>1, <3>2 DEF Overlaps, Reading
    <3>4. Reading(k)' /\ run'[k].text = record'[r].text
      BY <1>1, <3>1 DEF Reading
    <3>5. \A h \in Hashes : h # g => run'[<<r, h>>] = run[<<r, h>>]
      BY <1>2, <1>4, <2>1
    <3>6. Current(r)'
      BY <2>1, <3>3, <3>4, <3>5 DEF Current, Reading
    <3>7. QED
      BY <3>6
  <2>5. CASE RecordNotFound(k)
    BY <1>6, <2>5 DEF RecordNotFound
  <2>6. CASE HandleEmptyText(k) \/ SetEmbedding(k)
    <3>1. /\ ~WillRead(k) /\ Reading(k)
          /\ At(k, "ok")
          /\ embedding'[r] = IF run[k].text = Empty THEN None ELSE run[k].text
      BY <1>1, <1>6, <2>6 DEF HandleEmptyText, SetEmbedding, WillRead, Reading,
         JobsTracked
    <3>2. CASE LooksLater(r)
      BY <2>3, <3>1, <3>2
    <3>3. CASE Current(r)
      <4>1. embedding'[r] = Want(r)'
        BY <1>1, <2>1, <3>1, <3>3 DEF Current, Want
      <4>2. run'[k].at = "ok" /\ \A l \in Jobs : l # k => run'[l] = run[l]
        BY <1>1, <3>1, AtKeeps
      <4>3. ASSUME NEW h \in Hashes, Reading(<<r, h>>)'
            PROVE  run'[<<r, h>>].text = record'[r].text
        <5>1. <<r, h>> # k
          BY <4>2, <4>3 DEF Reading
        <5>2. run'[<<r, h>>] = run[<<r, h>>]
          BY <1>4, <4>2, <5>1
        <5>3. QED
          BY <1>1, <3>3, <4>3, <5>2 DEF Current, Reading
      <4>4. QED
        BY <4>1, <4>3 DEF Current
    <3>4. QED
      BY <2>2, <3>2, <3>3
  <2>7. CASE CreateEmbedding(k)
    <3>1. ~WillRead(k) /\ Reading(k) /\ At(k, "embedded") /\ UNCHANGED embedding
      BY <1>1, <2>7 DEF CreateEmbedding, WillRead, Reading
    <3>2. CASE LooksLater(r)
      BY <2>3, <3>1, <3>2
    <3>3. CASE Current(r)
      <4>1. /\ Reading(k)' /\ run'[k].text = run[k].text
            /\ \A l \in Jobs : l # k => run'[l] = run[l]
        BY <1>1, <3>1, AtKeeps DEF Reading
      <4>2. ASSUME NEW h \in Hashes, Reading(<<r, h>>)'
            PROVE  run'[<<r, h>>].text = record'[r].text
        <5>1. run'[<<r, h>>].text = run[<<r, h>>].text /\ Reading(<<r, h>>)
          BY <1>4, <3>1, <4>1, <4>2 DEF Reading
        <5>2. QED
          BY <1>1, <3>3, <5>1 DEF Current
      <4>3. QED
        BY <2>1, <4>1, <4>2 DEF Current
    <3>4. QED
      BY <2>2, <3>2, <3>3
  <2>8. CASE WorkFails(k)
    <3>1. run'[k].at = "error"
      BY <1>1, <2>8, AtKeeps DEF WorkFails
    <3>2. WillRead(k)'
      BY <1>1, <3>1 DEF WillRead
    <3>3. QED
      BY <2>1, <3>2 DEF LooksLater
  <2>9. QED
    BY <2>4, <2>5, <2>6, <2>7, <2>8 DEF Work
<1>7. QED
  BY <1>5, <1>6

\* The promise is kept by every step.
LEMMA CurrentInductive ==
    /\ Init => CurrentOrLater
    /\ IndInv /\ [Next]_vars => CurrentOrLater'
<1>1. Init => CurrentOrLater
  BY EmbeddingAssumption DEF Init, CurrentOrLater
<1>2. IndInv /\ [Next]_vars => CurrentOrLater'
  <2> SUFFICES ASSUME IndInv, [Next]_vars, NEW r \in TextFields,
                      record'[r].state = "live", Unexcused(r)'
               PROVE  LooksLater(r)' \/ Current(r)'
    BY DEF CurrentOrLater
  <2>0. Shapes /\ CurrentOrLater /\ r \in Records
    BY EmbeddingAssumption DEF IndInv, Tracking
  <2>1. ASSUME NEW q \in Records, NEW t \in AnyText,
               CreateFeedbackRecord(q, t) \/ UpdateFeedbackRecord(q, t)
        PROVE  LooksLater(r)' \/ Current(r)'
    BY <2>1, WritesAnnounce
  <2>2. ASSUME NEW q \in Records, DeleteFeedbackRecord(q)
        PROVE  LooksLater(r)' \/ Current(r)'
    <3>1. q # r /\ record'[r] = record[r]
      BY <2>0, <2>2, WriteSteps
    <3>2. /\ UNCHANGED <<events, job, run, excuse>> /\ embedding'[r] = embedding[r]
      BY <2>0, <2>2, <3>1 DEF DeleteFeedbackRecord, Shapes
    <3>3. Announced(r) => Announced(r)'
      BY <3>2 DEF Announced
    <3>4. QED
      BY <2>0, <3>1, <3>2, <3>3, OtherRecords
  <2>3. CASE ProviderHandles
    BY <2>3, HandledIsRead DEF ProviderHandles
  <2>4. CASE EventLost
    <3>1. /\ UNCHANGED <<record, embedding, job, run>>
          /\ events # <<>> /\ events' = Tail(events)
          /\ excuse' = excuse \cup {<<Head(events).record, "lost">>}
      BY <2>4 DEF EventLost, Excused
    <3>2. Head(events).record # r
      BY <3>1 DEF Unexcused, Excuses
    <3>3. Announced(r) => Announced(r)'
      BY <2>0, <3>1, <3>2, TailKeeps DEF Announced
    <3>4. QED
      BY <2>0, <3>1, <3>3, OtherRecords
  <2>5. ASSUME NEW q \in Records, BackfillInsert(q)
        PROVE  LooksLater(r)' \/ Current(r)'
    BY <2>5, BackfillReads DEF BackfillInsert
  <2>6. CASE UNCHANGED <<record, embedding, events, job, run, excuse>>
    <3>1. Announced(r) => Announced(r)'
      BY <2>6 DEF Announced
    <3>2. QED
      BY <2>0, <2>6, <3>1, OtherRecords
  <2>7. CASE Crash
    BY <2>7, CrashesExcused DEF Crash
  <2>8. ASSUME NEW k \in Jobs, Work(k) PROVE LooksLater(r)' \/ Current(r)'
    <3>1. UNCHANGED record
      BY <2>8 DEF Work, GetFeedbackRecord, RecordNotFound, HandleEmptyText,
         CreateEmbedding, SetEmbedding, WorkFails
    <3>2. QED
      BY <2>8, <3>1, WorkKeeps
  <2>9. ASSUME NEW k \in Jobs, River(k) PROVE LooksLater(r)' \/ Current(r)'
    <3>1. UNCHANGED record
      BY <2>9 DEF River, FetchJob, StoreResult, RetryJob, RescueJob
    <3>2. QED
      BY <2>9, <3>1, RiverKeeps
  <2>10. QED
    BY <2>1, <2>2, <2>3, <2>4, <2>5, <2>6, <2>7, <2>8, <2>9
       DEF Next, Write, Provider, BackfillCommand, BackfillList, BackfillFails, vars
<1>3. QED
  BY <1>1, <1>2
-----------------------------------------------------------------------------
\* When no work is left for a text record its vector is that of its text,
\* unless an event or a job was lost, an insert was skipped for a job that had
\* read the record before, or two workers of the record overlapped: there are
\* no other ways to go stale.
THEOREM CurrentInvariant == Spec => []CurrentWhenSettled
<1>1. Spec => [](Tracking /\ EmbeddingHasRecord)
  BY TrackingInvariant, EmbeddingsHaveRecords, PTL
<1>2. Init => AbsentUnknown /\ CurrentOrLater
  BY AbsentInductive, CurrentInductive
<1>3. /\ Tracking /\ EmbeddingHasRecord /\ EmbeddingHasRecord'
      /\ AbsentUnknown /\ CurrentOrLater /\ [Next]_vars
      => AbsentUnknown' /\ CurrentOrLater'
  BY AbsentInductive, CurrentInductive DEF IndInv
<1>4. Tracking /\ CurrentOrLater => CurrentWhenSettled
  <2> SUFFICES ASSUME Tracking, CurrentOrLater, NEW r \in TextFields,
                      record[r].state = "live", Settled(r), Unexcused(r)
               PROVE  embedding[r] = Want(r)
    BY DEF CurrentWhenSettled, Unexcused, Want
  <2>1. r \in Records /\ JobsTracked
    BY EmbeddingAssumption DEF Tracking
  <2>2. ~Announced(r)
    BY DEF Settled, Announced
  <2>3. ASSUME NEW h \in Hashes PROVE ~WillRead(<<r, h>>) /\ ~Reading(<<r, h>>)
    <3>1. <<r, h>> \in Jobs /\ job[<<r, h>>].state \in Ended
      BY <2>1 DEF Settled, Jobs
    <3>2. QED
      BY <2>1, <3>1 DEF Ended, WillRead, Reading, JobsTracked
  <2>4. QED
    BY <2>2, <2>3 DEF CurrentOrLater, LooksLater, Current
<1>5. QED
  BY <1>1, <1>2, <1>3, <1>4, PTL DEF Spec
=============================================================================
