----------------------- MODULE FeedbackRecords_proofs -----------------------
(***************************************************************************)
(* Proofs about FeedbackRecords, for every set of records, requests, texts *)
(* and workers, and any number of lost events, lost answers and crashes.   *)
(***************************************************************************)
EXTENDS FeedbackRecords, FiniteSetTheorems, SequenceTheorems, TLAPS

\* The types without what relates a variable to another one.
Shapes ==
    /\ row \in [Ids -> Rows \cup {None}]
    /\ request \in [Requests -> {"new", "committed", "done"}]
    /\ announces \in [Requests -> Events \cup {None}]
    /\ events \in Seq(Events)
    /\ jobs \subseteq Jobs /\ known \subseteq Jobs
    /\ worker \in [Workers -> WorkerStates]
    /\ backfill \subseteq Jobs
    /\ announced \in [Ids -> Nat]
    /\ lastPatch \in [Ids -> Requests \cup {None}]
    /\ deleted \subseteq Ids
    /\ overwritten \subseteq Ids /\ excused \subseteq Ids
    /\ upsets \in 0..MaxUpsets

\* Only a request that committed has something to announce.
OnlyCommittedAnnounces ==
    \A r \in Requests : request[r] # "committed" => announces[r] = None

\* The deletion of i is for one request still to announce.
Pending(i) ==
    /\ announced[i] = 0 /\ i \in deleted \ unheard
    /\ \E r \in Requests :
           Announces(r, i) /\ \A s \in Requests : Announces(s, i) => s = r

\* It is for no request to announce.
NotPending(i) ==
    /\ announced[i] = IF i \in deleted \ unheard THEN 1 ELSE 0
    /\ \A r \in Requests : ~Announces(r, i)

\* A deleted record does not come back, and its deletion is with one request,
\* or was published once, or is known to have been lost.
DeletionTracked ==
    /\ unheard \subseteq deleted
    /\ \A i \in deleted : row[i] = None
    /\ \A i \in Ids : Pending(i) \/ NotPending(i)

Busy(w) == worker[w] # Idle

\* A job is in one place, and River knows of it.
JobsTracked ==
    /\ jobs \subseteq known
    /\ \A w \in Workers : Busy(w) =>
           /\ worker[w].job \in known \ jobs
           /\ worker[w].job[1] = worker[w].id
    /\ \A v, w \in Workers : Busy(v) /\ Busy(w) /\ v # w =>
           worker[v].job # worker[w].job

\* Nothing knows of a record before it is created.
Created == Live \cup deleted

OnlyCreatedKnown ==
    /\ \A j \in known \cup backfill : j[1] \in Created
    /\ \A w \in Workers : Busy(w) => worker[w].id \in Created
    /\ \A r \in Requests : announces[r] # None => announces[r].ids \subseteq Created
    /\ \A n \in DOMAIN events : events[n].ids \subseteq Created

\* A worker that is about to write i's metadata back has what was last set.
HasMeta(w, i) ==
    worker[w].at = "merging" /\ worker[w].id = i => worker[w].meta = lastPatch[i]

MergesTracked ==
    \A w \in Workers :
        worker[w].at = "merging" /\ worker[w].id \in Live \ overwritten =>
            HasMeta(w, worker[w].id)

\* An event that will make the job of the text i has.
AsksFor(e, i) == WantsJob(e) /\ i \in e.ids /\ e.text = row[i].text

\* Such an event is on its way, and the job is not yet there.
Announced(i) ==
    /\ <<i, row[i].text>> \notin known
    /\ \/ \E r \in Requests : announces[r] # None /\ AsksFor(announces[r], i)
       \/ \E n \in DOMAIN events : AsksFor(events[n], i)

\* No worker is about to store the sentiment of another text.
NoneWorksOnOther(i) ==
    \A w \in Workers : Busy(w) /\ worker[w].id = i => worker[w].text = row[i].text

\* The sentiment is the one of the text, or a job or an event will see to it.
SeenTo(i) ==
    \/ row[i].text = Empty \/ row[i].sentiment = row[i].text
    \/ \E j \in jobs : j[1] = i
    \/ \E w \in Workers : Busy(w) /\ worker[w].id = i
    \/ Announced(i)

SentimentTracked == \A i \in Live \ excused : NoneWorksOnOther(i) /\ SeenTo(i)

\* The statements a request commits.
Write(r, heard) ==
    \/ \E i \in Ids :
           \/ CreateFeedbackRecord(r, i, heard)
           \/ \E fields \in SUBSET {"value_text", "metadata"}, x \in AllTexts :
                  UpdateFeedbackRecord(r, i, fields, x, heard)
           \/ DeleteFeedbackRecord(r, i, heard)
    \/ BulkDeleteFeedbackRecords(r, heard)

\* The steps of a sentiment worker.
Work(w) ==
    \/ \E j \in Ids \X Texts : WorkReads(w, j)
    \/ MergeReads(w) \/ MergeWrites(w) \/ WorkFails(w)

-----------------------------------------------------------------------------
(* The shapes of the variables.                                            *)

\* An event is made of its four fields.
LEMMA EventShape ==
    ASSUME NEW t \in {"created", "updated", "deleted"}, NEW is \in SUBSET Ids,
           NEW c \in BOOLEAN, NEW x \in AllTexts
    PROVE  Event(t, is, c, x) \in Events
  BY DEF Event, Events

\* What a worker that is busy has at hand.
LEMMA WorkerShape ==
    ASSUME Shapes, NEW w \in Workers
    PROVE  /\ Busy(w) <=> worker[w].at # "idle"
           /\ Busy(w) => /\ worker[w].id \in Ids /\ worker[w].job \in Jobs
                         /\ worker[w].text \in Texts
           /\ worker[w].at = "merging" =>
                  Busy(w) /\ worker[w].meta \in Requests
  BY DEF Shapes, WorkerStates, Busy, Idle

\* A record is a row or None, and not both.
LEMMA RowShape ==
    ASSUME Shapes, NEW i \in Ids
    PROVE  /\ i \in Live <=> row[i] \in Rows
           /\ i \in Live => /\ row[i].text \in AllTexts
                            /\ row[i].meta \in Requests
                            /\ row[i].sentiment \in Texts \cup {None}
                            /\ row[i] = [text |-> row[i].text, meta |-> row[i].meta,
                                         sentiment |-> row[i].sentiment]
<1>1. i \in Live <=> row[i] \in Rows
  BY RecordsAssumption DEF Shapes, Live
<1>2. QED
  BY <1>1 DEF Rows

\* The commit of a statement leaves the other requests alone.
LEMMA CommitEffect ==
    ASSUME Shapes, NEW r \in Requests, NEW heard \in BOOLEAN,
           NEW e \in Events \cup {None}, Commit(r, e, heard)
    PROVE  /\ request[r] = "new"
           /\ request' \in [Requests -> {"new", "committed", "done"}]
           /\ announces' \in [Requests -> Events \cup {None}]
           /\ request'[r] = IF heard THEN "committed" ELSE "done"
           /\ announces'[r] = IF heard THEN e ELSE None
           /\ \A s \in Requests \ {r} :
                  request'[s] = request[s] /\ announces'[s] = announces[s]
  BY DEF Commit, Shapes

\* The merge writes the metadata it read and the sentiment, into one record.
LEMMA MergeEffect ==
    ASSUME Shapes, NEW w \in Workers, MergeWrites(w)
    PROVE  /\ worker[w].at = "merging" /\ worker[w].id \in Live
           /\ row' = [row EXCEPT ![worker[w].id] =
                          [text |-> row[worker[w].id].text, meta |-> worker[w].meta,
                           sentiment |-> worker[w].text]]
           /\ row' \in [Ids -> Rows \cup {None}]
<1> DEFINE i == worker[w].id
           q == [row[i] EXCEPT !.meta = worker[w].meta,
                               !.sentiment = worker[w].text]
<1>1. /\ worker[w].at = "merging" /\ i \in Live /\ i \in Ids
      /\ worker[w].meta \in Requests /\ worker[w].text \in Texts
  BY WorkerShape DEF MergeWrites, Live
<1>2. row[i] \in Rows
  BY <1>1, RowShape
<1>3. /\ q \in Rows
      /\ q.text = row[i].text /\ q.meta = worker[w].meta
      /\ q.sentiment = worker[w].text
  BY <1>1, <1>2 DEF Rows
<1>4. row' = [row EXCEPT ![i] = q]
  BY <1>1, <1>2 DEF MergeWrites, Shapes
<1> HIDE DEF q
<1>5. q = [text |-> row[i].text, meta |-> worker[w].meta,
           sentiment |-> worker[w].text]
  BY <1>3 DEF Rows
<1>6. QED
  BY <1>1, <1>3, <1>4, <1>5 DEF Shapes

\* A removal leaves the rows of the others as they were.
LEMMA RemoveEffect ==
    ASSUME Shapes, NEW is \in SUBSET Ids, NEW heard \in BOOLEAN, Remove(is, heard)
    PROVE  /\ row' \in [Ids -> Rows \cup {None}]
           /\ lastPatch' \in [Ids -> Requests \cup {None}]
           /\ deleted' \subseteq Ids /\ overwritten' \subseteq Ids
           /\ excused' \subseteq Ids
           /\ \A i \in Ids : /\ i \in is => row'[i] = None /\ i \in deleted'
                             /\ i \notin is => /\ row'[i] = row[i]
                                               /\ lastPatch'[i] = lastPatch[i]
  BY DEF Remove, Shapes

\* What is lost concerns records.
LEMMA LostShape ==
    ASSUME Shapes, NEW es \in SUBSET Events, Lost(es)
    PROVE  /\ excused' \subseteq Ids
           /\ \A e \in es : WantsJob(e) => e.ids \subseteq excused'
           /\ excused \subseteq excused'
  BY DEF Shapes, Lost, Events

\* The events a crash loses.
LEMMA HeldEvents ==
    ASSUME Shapes
    PROVE  /\ ({announces[r] : r \in Requests} \ {None})
                  \cup {events[n] : n \in DOMAIN events} \subseteq Events
           /\ \A n \in DOMAIN events : events[n] \in Events
<1>1. \A n \in DOMAIN events : events[n] \in Events
  BY DEF Shapes
<1>2. \A r \in Requests : announces[r] # None => announces[r] \in Events
  BY DEF Shapes
<1>3. QED
  BY <1>1, <1>2

\* The pairs an event makes jobs of.
LEMMA DeliverShape ==
    ASSUME Shapes, DeliverEvent
    PROVE  /\ Head(events) \in Events
           /\ events = <<Head(events)>> \o Tail(events)
           /\ events' = Tail(events) /\ events' \in Seq(Events)
           /\ LET e == Head(events)
              IN  {<<i, e.text>> : i \in IF WantsJob(e) THEN e.ids ELSE {}}
                      \subseteq Jobs
<1>1. /\ events \in Seq(Events) /\ events # <<>> /\ events' = Tail(events)
  BY DEF Shapes, DeliverEvent
<1>2. PICK e \in Events : e = Head(events)
  BY <1>1
<1>3. /\ e.ids \subseteq Ids /\ e.text \in AllTexts
      /\ WantsJob(e) => e.text \in Texts
  BY <1>2 DEF Events, AllTexts, WantsJob
<1>4. QED
  BY <1>1, <1>2, <1>3 DEF Jobs

\* The event that a failed insert loses.
LEMMA FailShape ==
    ASSUME Shapes, EnqueueFails
    PROVE  /\ Head(events) \in Events /\ Lost({Head(events)})
           /\ events \in Seq(Events) /\ events # <<>>
           /\ events' = Tail(events) /\ events' \in Seq(Events)
           /\ UNCHANGED <<row, known, jobs, worker, announces>>
<1>1. /\ events \in Seq(Events) /\ events # <<>> /\ events' = Tail(events)
  BY DEF Shapes, EnqueueFails
<1>2. Head(events) \in Events /\ Tail(events) \in Seq(Events)
  BY <1>1
<1>3. QED
  BY <1>1, <1>2 DEF EnqueueFails, Lost

\* Jobs that are inserted are jobs.
LEMMA InsertShape ==
    ASSUME Shapes, NEW pairs \in SUBSET Jobs, InsertUnique(pairs)
    PROVE  jobs' \subseteq Jobs /\ known' \subseteq Jobs
  BY DEF Shapes, InsertUnique

\* The requests keep the types.
LEMMA WriteShapes ==
    ASSUME Shapes, NEW r \in Requests, NEW heard \in BOOLEAN, Write(r, heard)
    PROVE  Shapes'
<1>1. ASSUME NEW i \in Ids, CreateFeedbackRecord(r, i, heard) PROVE Shapes'
  <2>1. PICK x \in AllTexts :
            /\ row' = [row EXCEPT ![i] = [text |-> x, meta |-> r, sentiment |-> None]]
            /\ Commit(r, Event("created", {i}, FALSE, x), heard)
    BY <1>1 DEF CreateFeedbackRecord
  <2>2. Event("created", {i}, FALSE, x) \in Events
    BY EventShape
  <2>3. row' \in [Ids -> Rows \cup {None}]
    BY <2>1 DEF Shapes, Rows
  <2>4. lastPatch' \in [Ids -> Requests \cup {None}] /\ excused' \subseteq Ids
    BY <1>1 DEF Shapes, CreateFeedbackRecord
  <2>5. /\ request' \in [Requests -> {"new", "committed", "done"}]
        /\ announces' \in [Requests -> Events \cup {None}]
    BY <2>1, <2>2, CommitEffect
  <2>6. QED
    BY <1>1, <2>3, <2>4, <2>5 DEF Shapes, CreateFeedbackRecord, pipeline
<1>2. ASSUME NEW i \in Ids, NEW fields \in SUBSET {"value_text", "metadata"},
             NEW x \in AllTexts, UpdateFeedbackRecord(r, i, fields, x, heard)
      PROVE  Shapes'
  <2> DEFINE newText == IF "value_text" \in fields THEN x ELSE row[i].text
             e == Event("updated", {i}, "value_text" \in fields, newText)
  <2>1. /\ i \in Live
        /\ row' = [row EXCEPT ![i] =
                       [text |-> newText,
                        meta |-> IF "metadata" \in fields THEN r ELSE row[i].meta,
                        sentiment |-> IF "metadata" \in fields THEN None
                                      ELSE row[i].sentiment]]
        /\ Commit(r, e, heard)
        /\ lastPatch' \in [Ids -> Requests \cup {None}]
        /\ excused' \subseteq Ids /\ overwritten' \subseteq Ids
    BY <1>2 DEF UpdateFeedbackRecord, Shapes
  <2>2. newText \in AllTexts
    BY <2>1, RowShape
  <2>3. e \in Events
    <3> HIDE DEF newText
    <3>1. ("value_text" \in fields) \in BOOLEAN
      OBVIOUS
    <3>2. QED
      BY <2>2, <3>1 DEF Event, Events
  <2>4. row' \in [Ids -> Rows \cup {None}]
    <3> HIDE DEF newText
    <3>1. /\ row[i].meta \in Requests
          /\ row[i].sentiment \in Texts \cup {None}
      BY <2>1, RowShape
    <3>2. QED
      BY <2>1, <2>2, <3>1 DEF Shapes, Rows
  <2> HIDE DEF e, newText
  <2>5. QED
    BY <1>2, <2>1, <2>3, <2>4, CommitEffect
       DEF Shapes, UpdateFeedbackRecord, pipeline
<1>3. ASSUME NEW i \in Ids, DeleteFeedbackRecord(r, i, heard) PROVE Shapes'
  <2>1. Event("deleted", {i}, FALSE, Empty) \in Events
    BY EventShape DEF AllTexts
  <2>2. QED
    BY <1>3, <2>1, CommitEffect, RemoveEffect
       DEF Shapes, DeleteFeedbackRecord, Remove, pipeline
<1>4. ASSUME BulkDeleteFeedbackRecords(r, heard) PROVE Shapes'
  <2>1. PICK is \in SUBSET Live :
            /\ Remove(is, heard)
            /\ Commit(r, IF is = {} THEN None
                         ELSE Event("deleted", is, FALSE, Empty), heard)
    BY <1>4 DEF BulkDeleteFeedbackRecords
  <2>2. is \subseteq Ids
    BY DEF Live
  <2>3. Event("deleted", is, FALSE, Empty) \in Events
    BY <2>2, EventShape DEF AllTexts
  <2>4. QED
    BY <2>1, <2>2, <2>3, CommitEffect, RemoveEffect DEF Shapes, Remove, pipeline
<1>5. QED
  BY <1>1, <1>2, <1>3, <1>4 DEF Write

\* The workers keep the types.
LEMMA WorkShapes ==
    ASSUME Shapes, NEW w \in Workers, Work(w)
    PROVE  Shapes'
<1>1. ASSUME NEW j \in Ids \X Texts, WorkReads(w, j) PROVE Shapes'
  <2>1. CASE row[j[1]] = None \/ row[j[1]].text = Empty
    <3>1. worker' = [worker EXCEPT ![w] = Idle]
      BY <1>1, <2>1 DEF WorkReads
    <3>2. worker' \in [Workers -> WorkerStates]
      BY <3>1 DEF Shapes, WorkerStates
    <3>3. QED
      BY <1>1, <3>2 DEF Shapes, WorkReads, history
  <2>2. CASE ~(row[j[1]] = None \/ row[j[1]].text = Empty)
    <3>1. j[1] \in Live /\ row[j[1]].text \in Texts
      BY <2>2, RowShape DEF Live, AllTexts
    <3>2. worker' = [worker EXCEPT ![w] =
                         [at |-> "classifying", id |-> j[1], job |-> j,
                          text |-> row[j[1]].text]]
      BY <1>1, <2>2 DEF WorkReads
    <3>3. [at |-> "classifying", id |-> j[1], job |-> j, text |-> row[j[1]].text]
              \in WorkerStates
      BY <3>1 DEF WorkerStates, Jobs
    <3>4. worker' \in [Workers -> WorkerStates]
      BY <3>2, <3>3 DEF Shapes
    <3>5. QED
      BY <1>1, <3>4 DEF Shapes, WorkReads, history
  <2>3. QED
    BY <2>1, <2>2
<1>2. ASSUME MergeReads(w) PROVE Shapes'
  <2>1. /\ worker[w].id \in Live /\ worker[w].id \in Ids
        /\ worker[w].job \in Jobs /\ worker[w].text \in Texts
    BY <1>2, WorkerShape DEF MergeReads, Live
  <2>2. row[worker[w].id].meta \in Requests
    BY <2>1, RowShape
  <2>3. worker' = [worker EXCEPT ![w] =
                       [at |-> "merging", id |-> worker[w].id, job |-> worker[w].job,
                        text |-> worker[w].text, meta |-> row[worker[w].id].meta]]
    BY <1>2 DEF MergeReads, Shapes
  <2>4. worker' \in [Workers -> WorkerStates]
    BY <2>1, <2>2, <2>3 DEF Shapes, WorkerStates
  <2>5. QED
    BY <1>2, <2>4 DEF Shapes, MergeReads, history
<1>3. ASSUME MergeWrites(w) PROVE Shapes'
  <2>1. worker[w].job \in Jobs
    BY <1>3, MergeEffect, WorkerShape
  <2>2. jobs' \subseteq Jobs /\ upsets' \in 0..MaxUpsets
    BY <1>3, <2>1, RecordsAssumption DEF Shapes, MergeWrites, Upset
  <2>3. worker' \in [Workers -> WorkerStates]
    BY <1>3 DEF Shapes, MergeWrites, WorkerStates
  <2>4. QED
    BY <1>3, <2>2, <2>3, MergeEffect DEF Shapes, MergeWrites
<1>4. ASSUME WorkFails(w) PROVE Shapes'
  <2>1. worker[w].job \in Jobs /\ worker[w].id \in Ids
    BY <1>4, WorkerShape DEF WorkFails
  <2>2. worker' \in [Workers -> WorkerStates]
    BY <1>4 DEF Shapes, WorkFails, WorkerStates
  <2>3. QED
    BY <1>4, <2>1, <2>2 DEF Shapes, WorkFails
<1>5. QED
  BY <1>1, <1>2, <1>3, <1>4 DEF Work

\* Variables keep their types: needed by every other step.
LEMMA ShapesInductive ==
    /\ Init => Shapes
    /\ Shapes /\ [Next]_vars => Shapes'
<1>1. Init => Shapes
  BY RecordsAssumption DEF Init, Shapes, WorkerStates
<1>2. Shapes /\ [Next]_vars => Shapes'
  <2> SUFFICES ASSUME Shapes, [Next]_vars PROVE Shapes'
    OBVIOUS
  <2>1. ASSUME NEW r \in Requests, NEW heard \in BOOLEAN, Write(r, heard)
        PROVE  Shapes'
    BY <2>1, WriteShapes
  <2>2. ASSUME NEW r \in Requests, RequestFails(r) PROVE Shapes'
    BY <2>2 DEF Shapes, RequestFails, pipeline, history
  <2>3. ASSUME NEW r \in Requests, Publish(r) PROVE Shapes'
    <3>1. events' \in Seq(Events)
      BY <2>3 DEF Publish, Shapes
    <3>2. announced' \in [Ids -> Nat]
      BY <2>3 DEF Publish, Shapes
    <3>3. QED
      BY <2>3, <3>1, <3>2 DEF Shapes, Publish
  <2>4. ASSUME NEW r \in Requests, EventDropped(r) PROVE Shapes'
    <3>1. announces[r] \in Events
      BY <2>4 DEF Shapes, EventDropped
    <3>2. excused' \subseteq Ids /\ upsets' \in 0..MaxUpsets
      BY <2>4, <3>1, LostShape, RecordsAssumption DEF EventDropped, Upset, Shapes
    <3>3. QED
      BY <2>4, <3>2 DEF Shapes, EventDropped, Lost
  <2>5. CASE Crash
    <3>1. excused' \subseteq Ids /\ upsets' \in 0..MaxUpsets
      <4>1. PICK es \in SUBSET Events : Lost(es)
        BY <2>5, HeldEvents DEF Crash
      <4>2. QED
        BY <2>5, <4>1, LostShape, RecordsAssumption DEF Crash, Upset, Shapes
    <3>2. jobs' \subseteq Jobs
      BY <2>5, WorkerShape DEF Crash, Shapes, Busy
    <3>3. worker' \in [Workers -> WorkerStates] /\ events' \in Seq(Events)
      BY <2>5 DEF Crash, WorkerStates
    <3>4. QED
      BY <2>5, <3>1, <3>2, <3>3 DEF Shapes, Crash, Lost
  <2>6. CASE DeliverEvent
    BY <2>6, DeliverShape, InsertShape DEF Shapes, DeliverEvent, history
  <2>7. CASE BackfillList
    <3>1. backfill' \subseteq Jobs
      <4>1. \A i \in Live : row[i].text # Empty => <<i, row[i].text>> \in Jobs
        BY RowShape DEF Jobs, AllTexts, Live
      <4>2. QED
        BY <2>7, <4>1 DEF BackfillList
    <3>2. QED
      BY <2>7, <3>1, RecordsAssumption DEF Shapes, BackfillList, Upset
  <2>8. ASSUME NEW j \in Ids \X Texts, BackfillInsert(j) PROVE Shapes'
    BY <2>8, InsertShape DEF Shapes, BackfillInsert, history, Jobs
  <2>9. ASSUME NEW w \in Workers, Work(w) PROVE Shapes'
    BY <2>9, WorkShapes
  <2>10. CASE UNCHANGED vars
    BY <2>10 DEF Shapes, vars
  <2>11. CASE EnqueueFails
    <3>1. excused' \subseteq Ids /\ events' \in Seq(Events)
      <4>1. PICK es \in SUBSET Events : Lost(es)
        BY <2>11, FailShape
      <4>2. QED
        BY <2>11, <4>1, FailShape, LostShape
    <3>2. upsets' \in 0..MaxUpsets
      BY <2>11, RecordsAssumption DEF EnqueueFails, Upset, Shapes
    <3>3. QED
      BY <2>11, <3>1, <3>2 DEF Shapes, EnqueueFails, Lost
  <2>12. QED
    BY <2>1, <2>2, <2>3, <2>4, <2>5, <2>6, <2>7, <2>8, <2>9, <2>10, <2>11
       DEF Next, Write, Work
<1>3. QED
  BY <1>1, <1>2

-----------------------------------------------------------------------------
(* Who announces what, and which jobs River knows.                         *)

\* A write leaves the pipeline and the other requests alone.
LEMMA WriteFrame ==
    ASSUME Shapes, NEW r \in Requests, NEW heard \in BOOLEAN, Write(r, heard)
    PROVE  /\ UNCHANGED <<events, known, jobs, worker, backfill, announced, upsets>>
           /\ request[r] = "new"
           /\ request'[r] = IF heard THEN "committed" ELSE "done"
           /\ ~heard => announces'[r] = None
           /\ \A s \in Requests \ {r} :
                  request'[s] = request[s] /\ announces'[s] = announces[s]
<1>1. PICK e : Commit(r, e, heard)
  <2>1. ASSUME NEW i \in Ids, CreateFeedbackRecord(r, i, heard)
        PROVE  \E e : Commit(r, e, heard)
    BY <2>1 DEF CreateFeedbackRecord
  <2>2. ASSUME NEW i \in Ids, NEW fields \in SUBSET {"value_text", "metadata"},
               NEW x \in AllTexts, UpdateFeedbackRecord(r, i, fields, x, heard)
        PROVE  \E e : Commit(r, e, heard)
    BY <2>2 DEF UpdateFeedbackRecord
  <2>3. ASSUME NEW i \in Ids, DeleteFeedbackRecord(r, i, heard)
        PROVE  \E e : Commit(r, e, heard)
    BY <2>3 DEF DeleteFeedbackRecord
  <2>4. ASSUME BulkDeleteFeedbackRecords(r, heard)
        PROVE  \E e : Commit(r, e, heard)
    BY <2>4 DEF BulkDeleteFeedbackRecords
  <2>5. QED
    BY <2>1, <2>2, <2>3, <2>4 DEF Write
<1>2. /\ request[r] = "new"
      /\ request'[r] = IF heard THEN "committed" ELSE "done"
      /\ ~heard => announces'[r] = None
      /\ \A s \in Requests \ {r} :
             request'[s] = request[s] /\ announces'[s] = announces[s]
  BY <1>1 DEF Commit, Shapes
<1>3. UNCHANGED <<events, known, jobs, worker, backfill, announced, upsets>>
  BY DEF Write, CreateFeedbackRecord, UpdateFeedbackRecord, DeleteFeedbackRecord,
     BulkDeleteFeedbackRecords, Remove, pipeline
<1>4. QED
  BY <1>2, <1>3

LEMMA OnlyCommittedAnnouncesInductive ==
    /\ Init => OnlyCommittedAnnounces
    /\ Shapes /\ OnlyCommittedAnnounces /\ [Next]_vars => OnlyCommittedAnnounces'
<1>1. Init => OnlyCommittedAnnounces
  BY DEF Init, OnlyCommittedAnnounces
<1>2. Shapes /\ OnlyCommittedAnnounces /\ [Next]_vars => OnlyCommittedAnnounces'
  <2> SUFFICES ASSUME Shapes, OnlyCommittedAnnounces, [Next]_vars,
                      NEW s \in Requests, request'[s] # "committed"
               PROVE  announces'[s] = None
    BY DEF OnlyCommittedAnnounces
  <2>1. ASSUME NEW r \in Requests, NEW heard \in BOOLEAN, Write(r, heard)
        PROVE  announces'[s] = None
    BY <2>1, WriteFrame DEF OnlyCommittedAnnounces
  <2>2. ASSUME NEW r \in Requests, RequestFails(r) \/ Publish(r) \/ EventDropped(r)
        PROVE  announces'[s] = None
    BY <2>2 DEF RequestFails, Publish, EventDropped, OnlyCommittedAnnounces, Shapes
  <2>3. CASE Crash
    BY <2>3 DEF Crash
  <2>4. CASE UNCHANGED <<request, announces>>
    BY <2>4 DEF OnlyCommittedAnnounces
  <2>5. QED
    BY <2>1, <2>2, <2>3, <2>4
       DEF Next, Write, DeliverEvent, EnqueueFails, BackfillList, BackfillInsert,
           WorkReads, MergeReads, MergeWrites, WorkFails, vars
<1>3. QED
  BY <1>1, <1>2

LEMMA JobsTrackedInductive ==
    /\ Init => JobsTracked
    /\ Shapes /\ JobsTracked /\ [Next]_vars => JobsTracked'
<1>1. Init => JobsTracked
  BY DEF Init, JobsTracked, Busy
<1>2. Shapes /\ JobsTracked /\ [Next]_vars => JobsTracked'
  <2> SUFFICES ASSUME Shapes, JobsTracked, [Next]_vars PROVE JobsTracked'
    OBVIOUS
  <2> USE DEF JobsTracked, Busy
  <2>1. ASSUME NEW pairs, InsertUnique(pairs), UNCHANGED worker PROVE JobsTracked'
    BY <2>1 DEF InsertUnique
  <2>2. CASE UNCHANGED <<jobs, known, worker>>
    BY <2>2
  <2>3. CASE Crash
    BY <2>3 DEF Crash, Lost
  <2>4. ASSUME NEW w \in Workers, NEW j \in Ids \X Texts, WorkReads(w, j)
        PROVE  JobsTracked'
    <3>1. /\ worker[w] = Idle /\ j \in jobs /\ j \in known
          /\ jobs' = jobs \ {j} /\ known' = known
          /\ \A v \in Workers \ {w} : worker'[v] = worker[v]
      BY <2>4 DEF WorkReads, Shapes
    <3>2. worker'[w] # Idle => worker'[w].job = j /\ worker'[w].id = j[1]
      BY <2>4 DEF WorkReads, Shapes
    <3>3. \A v \in Workers : worker[v] # Idle => worker[v].job # j
      BY <3>1
    <3>4. QED
      BY <3>1, <3>2, <3>3
  <2>5. ASSUME NEW w \in Workers, MergeReads(w) PROVE JobsTracked'
    <3>1. /\ worker[w] # Idle
          /\ UNCHANGED <<jobs, known>>
          /\ \A v \in Workers \ {w} : worker'[v] = worker[v]
          /\ worker'[w].job = worker[w].job /\ worker'[w].id = worker[w].id
      BY <2>5 DEF MergeReads, Shapes, Idle
    <3>2. QED
      BY <3>1
  <2>6. ASSUME NEW w \in Workers, MergeWrites(w) \/ WorkFails(w) PROVE JobsTracked'
    <3>1. /\ worker[w] # Idle
          /\ worker'[w] = Idle
          /\ \A v \in Workers \ {w} : worker'[v] = worker[v]
      BY <2>6 DEF MergeWrites, WorkFails, Shapes, Idle
    <3>2. /\ known \ {worker[w].job} \subseteq known' /\ known' \subseteq known
          /\ jobs \subseteq jobs' /\ jobs' \subseteq jobs \cup {worker[w].job}
          /\ jobs' = jobs \/ known' = known
      BY <2>6 DEF MergeWrites, WorkFails
    <3>3. QED
      BY <3>1, <3>2
  <2>7. ASSUME NEW r \in Requests, NEW heard \in BOOLEAN, Write(r, heard)
        PROVE  JobsTracked'
    BY <2>2, <2>7, WriteFrame
  <2> HIDE DEF JobsTracked
  <2>8. QED
    BY <2>1, <2>2, <2>3, <2>4, <2>5, <2>6, <2>7
       DEF Next, Write, RequestFails, Publish, EventDropped, Lost, pipeline,
           DeliverEvent, EnqueueFails, BackfillList, BackfillInsert, vars
<1>3. QED
  BY <1>1, <1>2

-----------------------------------------------------------------------------
(* Every deletion is announced once, or nobody could announce it.          *)

\* A write of r that does not delete i.
Keeps(r, i) ==
    /\ i \in deleted' <=> i \in deleted
    /\ i \in unheard' <=> i \in unheard
    /\ i \in deleted => row'[i] = None
    /\ ~Announces(r, i)'

\* One that does, and has it to announce if the answer was heard.
Deletes(r, i) ==
    /\ i \in Live /\ i \in deleted' /\ row'[i] = None
    /\ \/ Announces(r, i)' /\ i \notin unheard'
       \/ ~Announces(r, i)' /\ i \in unheard'

\* What a removal does to one record, and to its announcement.
LEMMA RemovalTracked ==
    ASSUME Shapes, DeletionTracked, NEW r \in Requests, NEW heard \in BOOLEAN,
           NEW is \in SUBSET Live, Remove(is, heard),
           Commit(r, IF is = {} THEN None ELSE Event("deleted", is, FALSE, Empty),
                  heard),
           NEW i \in Ids
    PROVE  Keeps(r, i) \/ Deletes(r, i)
<1>1. is \subseteq Ids
  BY DEF Live
<1>2. /\ deleted' = deleted \cup is
      /\ unheard' = IF heard THEN unheard ELSE unheard \cup is
      /\ row'[i] = IF i \in is THEN None ELSE row[i]
  BY DEF Remove
<1>3. i \in is => i \notin deleted /\ i \notin unheard
  BY DEF Live, DeletionTracked
<1> DEFINE e == Event("deleted", is, FALSE, Empty)
<1>4. /\ e \in Events /\ e # None
      /\ e.type = "deleted" /\ e.ids = is
  <2>1. e \in Events
    BY <1>1, EventShape DEF AllTexts
  <2>2. QED
    BY <2>1, RecordsAssumption DEF Event
<1> HIDE DEF e
<1>5. announces'[r] = IF heard /\ is # {} THEN e ELSE None
  BY DEF Commit, Shapes, e
<1>6. Announces(r, i)' <=> heard /\ i \in is
  BY <1>4, <1>5 DEF Announces
<1>7. QED
  BY <1>2, <1>3, <1>6 DEF DeletionTracked, Keeps, Deletes

\* The same for every write: only a removal announces a deletion.
LEMMA WriteTracked ==
    ASSUME Shapes, DeletionTracked, NEW r \in Requests, NEW heard \in BOOLEAN,
           Write(r, heard), NEW i \in Ids
    PROVE  Keeps(r, i) \/ Deletes(r, i)
<1>1. ASSUME NEW k \in Ids, CreateFeedbackRecord(r, k, heard)
      PROVE  Keeps(r, i)
  <2>1. PICK x \in AllTexts : Commit(r, Event("created", {k}, FALSE, x), heard)
    BY <1>1 DEF CreateFeedbackRecord
  <2>2. ~Announces(r, i)'
    BY <2>1 DEF Commit, Shapes, Announces, Event
  <2>3. i # k => row'[i] = row[i]
    BY <1>1 DEF CreateFeedbackRecord, Shapes
  <2>4. QED
    BY <1>1, <2>2, <2>3 DEF CreateFeedbackRecord, DeletionTracked, Keeps
<1>2. ASSUME NEW k \in Ids, NEW fields \in SUBSET {"value_text", "metadata"},
             NEW x \in AllTexts, UpdateFeedbackRecord(r, k, fields, x, heard)
      PROVE  Keeps(r, i)
  <2>1. PICK c, y : Commit(r, Event("updated", {k}, c, y), heard)
    BY <1>2 DEF UpdateFeedbackRecord
  <2>2. ~Announces(r, i)'
    BY <2>1 DEF Commit, Shapes, Announces, Event
  <2>3. /\ i # k => row'[i] = row[i]
        /\ k \in Live
    BY <1>2 DEF UpdateFeedbackRecord, Shapes
  <2>4. QED
    BY <1>2, <2>2, <2>3 DEF UpdateFeedbackRecord, DeletionTracked, Live, Keeps
<1>3. ASSUME NEW k \in Ids, DeleteFeedbackRecord(r, k, heard)
      PROVE  /\ {k} \in SUBSET Live /\ Remove({k}, heard)
             /\ Commit(r, IF {k} = {} THEN None
                          ELSE Event("deleted", {k}, FALSE, Empty), heard)
  BY <1>3 DEF DeleteFeedbackRecord
<1>4. ASSUME NEW k \in Ids, DeleteFeedbackRecord(r, k, heard)
      PROVE  Keeps(r, i) \/ Deletes(r, i)
  BY <1>3, <1>4, RemovalTracked
<1>5. ASSUME BulkDeleteFeedbackRecords(r, heard)
      PROVE  Keeps(r, i) \/ Deletes(r, i)
  BY <1>5, RemovalTracked DEF BulkDeleteFeedbackRecords
<1>6. QED
  BY <1>1, <1>2, <1>4, <1>5 DEF Write

\* What i's tracking reads.
LEMMA TrackingFrame ==
    ASSUME NEW i \in Ids, UNCHANGED <<announces, deleted, unheard, announced>>
    PROVE  Pending(i) \/ NotPending(i) => (Pending(i) \/ NotPending(i))'
  BY DEF Pending, NotPending, Announces

LEMMA DeletionTrackedInductive ==
    /\ Init => DeletionTracked
    /\ Shapes /\ DeletionTracked /\ OnlyCommittedAnnounces /\ [Next]_vars
       => DeletionTracked'
<1>1. Init => DeletionTracked
  BY DEF Init, DeletionTracked, NotPending, Announces
<1>2. Shapes /\ DeletionTracked /\ OnlyCommittedAnnounces /\ [Next]_vars
      => DeletionTracked'
  <2> SUFFICES ASSUME Shapes, DeletionTracked, OnlyCommittedAnnounces, [Next]_vars
               PROVE  DeletionTracked'
    OBVIOUS
  <2>1. ASSUME NEW r \in Requests, NEW heard \in BOOLEAN, Write(r, heard)
        PROVE  DeletionTracked'
    <3>1. ASSUME NEW i \in Ids
          PROVE  /\ i \in unheard' => i \in deleted'
                 /\ i \in deleted' => row'[i] = None
                 /\ (Pending(i) \/ NotPending(i))'
      <4>1. /\ announced' = announced
            /\ ~Announces(r, i)
            /\ \A s \in Requests \ {r} : Announces(s, i)' <=> Announces(s, i)
        <5>1. announces[r] = None
          BY <2>1, WriteFrame DEF OnlyCommittedAnnounces
        <5>2. QED
          BY <2>1, <5>1, WriteFrame DEF Announces
      <4>2. CASE Keeps(r, i)
        BY <4>1, <4>2 DEF Keeps, DeletionTracked, Pending, NotPending
      <4>3. CASE Deletes(r, i)
        <5>1. /\ i \notin deleted /\ i \notin unheard
              /\ announced[i] = 0 /\ \A s \in Requests : ~Announces(s, i)
          BY <4>3 DEF Deletes, DeletionTracked, Live, Pending, NotPending
        <5>2. QED
          BY <4>1, <4>3, <5>1 DEF Deletes, Pending, NotPending
      <4>4. QED
        BY <2>1, <4>2, <4>3, WriteTracked
    <3>2. deleted' \subseteq Ids /\ unheard' \subseteq Ids
      <4>1. Shapes'
        BY ShapesInductive
      <4>2. unheard' \subseteq unheard \cup Ids
        BY <2>1 DEF Write, CreateFeedbackRecord, UpdateFeedbackRecord, Remove,
           DeleteFeedbackRecord, BulkDeleteFeedbackRecords, Live
      <4>3. QED
        BY <4>1, <4>2 DEF Shapes, DeletionTracked
    <3>3. QED
      BY <3>1, <3>2 DEF DeletionTracked
  <2>2. ASSUME NEW r \in Requests, Publish(r) PROVE DeletionTracked'
    <3>1. ASSUME NEW i \in Ids PROVE (Pending(i) \/ NotPending(i))'
      <4>1. /\ announces'[r] = None
            /\ \A s \in Requests \ {r} : announces'[s] = announces[s]
            /\ announced'[i] = announced[i] + IF Announces(r, i) THEN 1 ELSE 0
            /\ UNCHANGED <<deleted, unheard>>
            /\ announced[i] \in Nat
        BY <2>2 DEF Publish, Shapes
      <4>2. ~Announces(r, i)'
        BY <4>1 DEF Announces
      <4>3. \A s \in Requests \ {r} : Announces(s, i)' <=> Announces(s, i)
        BY <4>1 DEF Announces
      <4>4. QED
        BY <4>1, <4>2, <4>3 DEF DeletionTracked, Pending, NotPending
    <3>2. QED
      BY <2>2, <3>1 DEF Publish, DeletionTracked
  <2>3. ASSUME NEW r \in Requests, EventDropped(r) PROVE DeletionTracked'
    <3>1. ASSUME NEW i \in Ids
          PROVE  (Pending(i) \/ NotPending(i))' /\ (i \in unheard' => i \in deleted)
      <4>1. /\ announces'[r] = None
            /\ \A s \in Requests \ {r} : announces'[s] = announces[s]
            /\ i \in unheard' <=> i \in unheard \/ Announces(r, i)
            /\ UNCHANGED <<deleted, announced>>
        BY <2>3 DEF EventDropped, Lost, Shapes, history
      <4>2. ~Announces(r, i)'
        BY <4>1 DEF Announces
      <4>3. \A s \in Requests \ {r} : Announces(s, i)' <=> Announces(s, i)
        BY <4>1 DEF Announces
      <4>4. QED
        BY <4>1, <4>2, <4>3 DEF DeletionTracked, Pending, NotPending
    <3>2. QED
      BY <2>3, <3>1 DEF EventDropped, Lost, DeletionTracked
  <2>4. CASE Crash
    <3>1. ASSUME NEW i \in Ids
          PROVE  (Pending(i) \/ NotPending(i))' /\ (i \in unheard' => i \in deleted)
      <4>1. /\ \A s \in Requests : ~Announces(s, i)'
            /\ i \in unheard' <=> i \in unheard \/ \E r \in Requests : Announces(r, i)
            /\ UNCHANGED <<deleted, announced>>
        BY <2>4 DEF Crash, Lost, Announces
      <4>2. QED
        BY <4>1 DEF DeletionTracked, Pending, NotPending
    <3>2. QED
      BY <2>4, <3>1 DEF Crash, Lost, DeletionTracked
  <2>5. CASE UNCHANGED <<announces, deleted, unheard, announced>>
    <3>1. \A i \in deleted : row'[i] = None
      <4>1. ASSUME NEW w \in Workers, MergeWrites(w), NEW i \in deleted
            PROVE  row'[i] = None
        <5>1. i # worker[w].id /\ i \in Ids
          <6>1. worker[w].id \in Live
            BY <4>1, MergeEffect
          <6>2. QED
            BY <4>1, <6>1 DEF DeletionTracked, Live, Shapes
        <5>2. QED
          BY <4>1, <5>1, MergeEffect DEF DeletionTracked, Shapes
      <4>2. ASSUME NEW r \in Requests, NEW heard \in BOOLEAN, Write(r, heard),
                   NEW i \in deleted
            PROVE  row'[i] = None
        BY <2>1, <2>5, <4>2 DEF DeletionTracked
      <4>3. CASE UNCHANGED row
        BY <4>3 DEF DeletionTracked
      <4>4. QED
        BY <4>1, <4>2, <4>3
           DEF Next, Write, RequestFails, Publish, EventDropped, Lost, Crash,
               DeliverEvent, EnqueueFails, BackfillList, BackfillInsert, WorkReads,
               MergeReads, WorkFails, vars
    <3>2. QED
      BY <2>5, <3>1, TrackingFrame DEF DeletionTracked
  <2>6. QED
    BY <2>1, <2>2, <2>3, <2>4, <2>5
       DEF Next, Write, RequestFails, DeliverEvent, EnqueueFails, Lost,
           BackfillList, BackfillInsert, WorkReads, MergeReads, MergeWrites, WorkFails, history, vars
<1>3. QED
  BY <1>1, <1>2

-----------------------------------------------------------------------------
(* Nothing knows of a record before it is created.                         *)

\* A write creates what its event is about.
LEMMA WriteCreates ==
    ASSUME Shapes, NEW r \in Requests, NEW heard \in BOOLEAN, Write(r, heard)
    PROVE  /\ Created \subseteq Created'
           /\ announces'[r] # None => announces'[r].ids \subseteq Created'
<1>1. ASSUME NEW is \in SUBSET Ids, Remove(is, heard),
             NEW e \in Events \cup {None}, Commit(r, e, heard),
             e # None => e.ids = is
      PROVE  /\ Created \subseteq Created'
             /\ announces'[r] # None => announces'[r].ids \subseteq Created'
  <2>1. \A i \in Ids : i \in Live \/ i \in deleted => i \in Live' \/ i \in deleted'
    BY <1>1 DEF Remove, Live
  <2>2. is \subseteq deleted'
    BY <1>1 DEF Remove
  <2>3. Live \subseteq Ids /\ deleted \subseteq Ids
    BY DEF Live, Shapes
  <2>4. announces'[r] # None => announces'[r] = e
    BY <1>1 DEF Commit, Shapes
  <2>5. QED
    BY <1>1, <2>1, <2>2, <2>3, <2>4 DEF Created
<1>2. ASSUME NEW i \in Ids, NEW q \in Rows, row' = [row EXCEPT ![i] = q],
             UNCHANGED deleted
      PROVE  Created \cup {i} \subseteq Created'
  <2>1. q # None
    BY RecordsAssumption
  <2>2. row'[i] = q /\ \A k \in Ids \ {i} : row'[k] = row[k]
    BY <1>2 DEF Shapes
  <2>3. QED
    BY <1>2, <2>1, <2>2 DEF Created, Live
<1>3. ASSUME NEW i \in Ids, CreateFeedbackRecord(r, i, heard)
      PROVE  /\ Created \subseteq Created'
             /\ announces'[r] # None => announces'[r].ids \subseteq Created'
  <2>1. PICK x \in AllTexts :
            /\ row' = [row EXCEPT ![i] = [text |-> x, meta |-> r, sentiment |-> None]]
            /\ Commit(r, Event("created", {i}, FALSE, x), heard)
    BY <1>3 DEF CreateFeedbackRecord
  <2>2. [text |-> x, meta |-> r, sentiment |-> None] \in Rows
    BY DEF Rows
  <2>3. announces'[r] # None => announces'[r].ids = {i}
    BY <2>1 DEF Commit, Shapes, Event
  <2>4. UNCHANGED deleted
    BY <1>3 DEF CreateFeedbackRecord
  <2>5. QED
    BY <1>2, <2>1, <2>2, <2>3, <2>4
<1>4. ASSUME NEW i \in Ids, NEW fields \in SUBSET {"value_text", "metadata"},
             NEW x \in AllTexts, UpdateFeedbackRecord(r, i, fields, x, heard)
      PROVE  /\ Created \subseteq Created'
             /\ announces'[r] # None => announces'[r].ids \subseteq Created'
  <2>1. PICK q : row' = [row EXCEPT ![i] = q] /\ q # None
    <3> DEFINE q == [text |-> IF "value_text" \in fields THEN x ELSE row[i].text,
                     meta |-> IF "metadata" \in fields THEN r ELSE row[i].meta,
                     sentiment |-> IF "metadata" \in fields THEN None
                                   ELSE row[i].sentiment]
    <3>1. row' = [row EXCEPT ![i] = q]
      BY <1>4 DEF UpdateFeedbackRecord
    <3>2. /\ row[i].text \in AllTexts /\ row[i].meta \in Requests
          /\ row[i].sentiment \in Texts \cup {None}
      BY <1>4, RowShape DEF UpdateFeedbackRecord
    <3>3. q \in Rows
      BY <3>2 DEF Rows
    <3> HIDE DEF q
    <3>4. q # None
      BY <3>3, RecordsAssumption
    <3>5. QED
      BY <3>1, <3>4
  <2>2. PICK c, y : Commit(r, Event("updated", {i}, c, y), heard)
    BY <1>4 DEF UpdateFeedbackRecord
  <2>3. announces'[r] # None => announces'[r].ids = {i}
    BY <2>2 DEF Commit, Shapes, Event
  <2>4. row'[i] # None /\ \A k \in Ids \ {i} : row'[k] = row[k]
    BY <2>1 DEF Shapes
  <2>5. UNCHANGED deleted
    BY <1>4 DEF UpdateFeedbackRecord
  <2>6. QED
    BY <2>3, <2>4, <2>5 DEF Created, Live
<1>5. ASSUME NEW i \in Ids, DeleteFeedbackRecord(r, i, heard)
      PROVE  /\ Created \subseteq Created'
             /\ announces'[r] # None => announces'[r].ids \subseteq Created'
  <2> DEFINE e == Event("deleted", {i}, FALSE, Empty)
  <2>1. e \in Events /\ e.ids = {i}
    BY EventShape DEF AllTexts, Event
  <2>2. Remove({i}, heard) /\ Commit(r, e, heard)
    BY <1>5 DEF DeleteFeedbackRecord
  <2> HIDE DEF e
  <2>3. QED
    BY <1>1, <2>1, <2>2
<1>6. ASSUME BulkDeleteFeedbackRecords(r, heard)
      PROVE  /\ Created \subseteq Created'
             /\ announces'[r] # None => announces'[r].ids \subseteq Created'
  <2>1. PICK is \in SUBSET Live :
            /\ Remove(is, heard)
            /\ Commit(r, IF is = {} THEN None
                         ELSE Event("deleted", is, FALSE, Empty), heard)
    BY <1>6 DEF BulkDeleteFeedbackRecords
  <2>2. is \in SUBSET Ids
    BY DEF Live
  <2> DEFINE e == Event("deleted", is, FALSE, Empty)
  <2>3. e \in Events /\ e.ids = is
    BY <2>2, EventShape DEF AllTexts, Event
  <2>4. Commit(r, IF is = {} THEN None ELSE e, heard)
    BY <2>1
  <2> HIDE DEF e
  <2>5. QED
    BY <1>1, <2>1, <2>2, <2>3, <2>4
<1>7. QED
  BY <1>3, <1>4, <1>5, <1>6 DEF Write

\* A created record stays created.
LEMMA CreatedGrows ==
    Shapes /\ [Next]_vars => Created \subseteq Created'
<1> SUFFICES ASSUME Shapes, [Next]_vars PROVE Created \subseteq Created'
  OBVIOUS
<1>1. CASE UNCHANGED <<row, deleted>>
  BY <1>1 DEF Created, Live
<1>2. ASSUME NEW w \in Workers, MergeWrites(w) PROVE Created \subseteq Created'
  <2>1. PICK q : /\ row' = [row EXCEPT ![worker[w].id] = q]
                 /\ worker[w].id \in Live
    BY <1>2, MergeEffect
  <2>2. worker[w].id \in Ids /\ row' \in [Ids -> Rows \cup {None}]
    BY <1>2, <2>1, MergeEffect DEF Live
  <2>3. row'[worker[w].id] # None
    <3>1. row'[worker[w].id] = [text |-> row[worker[w].id].text,
                                meta |-> worker[w].meta,
                                sentiment |-> worker[w].text]
      BY <1>2, <2>2, MergeEffect DEF Shapes
    <3>2. /\ row[worker[w].id].text \in AllTexts /\ worker[w].meta \in Requests
          /\ worker[w].text \in Texts
      BY <1>2, <2>1, <2>2, RowShape, WorkerShape, MergeEffect
    <3>3. row'[worker[w].id] \in Rows
      BY <3>1, <3>2 DEF Rows
    <3>4. QED
      BY <3>3, RecordsAssumption
  <2>4. \A k \in Ids \ {worker[w].id} : row'[k] = row[k]
    BY <2>1, <2>2 DEF Shapes
  <2>5. UNCHANGED deleted
    BY <1>2 DEF MergeWrites
  <2>6. QED
    BY <2>3, <2>4, <2>5 DEF Created, Live
<1>3. QED
  BY <1>1, <1>2, WriteCreates
     DEF Next, Write, RequestFails, Publish, EventDropped, Lost, Crash,
         DeliverEvent, EnqueueFails, BackfillList, BackfillInsert, WorkReads,
         MergeReads, WorkFails, history, vars

LEMMA OnlyCreatedKnownInductive ==
    /\ Init => OnlyCreatedKnown
    /\ Shapes /\ JobsTracked /\ OnlyCreatedKnown /\ [Next]_vars
       => OnlyCreatedKnown'
<1>1. Init => OnlyCreatedKnown
  BY DEF Init, OnlyCreatedKnown, Busy
<1>2. Shapes /\ JobsTracked /\ OnlyCreatedKnown /\ [Next]_vars
      => OnlyCreatedKnown'
  <2> SUFFICES ASSUME Shapes, JobsTracked, OnlyCreatedKnown, [Next]_vars
               PROVE  OnlyCreatedKnown'
    OBVIOUS
  <2>0. Created \subseteq Created'
    BY CreatedGrows
  <2> DEFINE JobsKnown == \A j \in known \cup backfill : j[1] \in Created
             WorkersKnow == \A w \in Workers : Busy(w) => worker[w].id \in Created
             AnnouncedKnown == \A r \in Requests : announces[r] # None =>
                                   announces[r].ids \subseteq Created
             EventsKnow == \A n \in DOMAIN events : events[n].ids \subseteq Created
  <2>1. JobsKnown'
    <3>1. CASE UNCHANGED <<known, backfill>>
      BY <2>0, <3>1 DEF OnlyCreatedKnown
    <3>2. CASE DeliverEvent
      <4>1. PICK e : e = Head(events)
        OBVIOUS
      <4>2. e.ids \subseteq Created
        BY <3>2, <4>1 DEF OnlyCreatedKnown, DeliverEvent, Shapes
      <4>3. /\ known' = known \cup
                   {<<i, e.text>> : i \in IF WantsJob(e) THEN e.ids ELSE {}}
            /\ backfill' = backfill
        BY <3>2, <4>1 DEF DeliverEvent, InsertUnique
      <4>4. QED
        BY <2>0, <4>2, <4>3 DEF OnlyCreatedKnown
    <3>3. CASE BackfillList
      <4>1. /\ UNCHANGED known
            /\ \A j \in backfill' : j[1] \in Live
        BY <3>3 DEF BackfillList
      <4>2. QED
        BY <2>0, <4>1 DEF OnlyCreatedKnown, Created
    <3>4. ASSUME NEW j \in Ids \X Texts, BackfillInsert(j) PROVE JobsKnown'
      <4>1. known' \cup backfill' \subseteq known \cup backfill
        BY <3>4 DEF BackfillInsert, InsertUnique
      <4>2. QED
        BY <2>0, <4>1 DEF OnlyCreatedKnown
    <3>5. ASSUME NEW w \in Workers, WorkFails(w) PROVE JobsKnown'
      <4>1. known' \subseteq known /\ backfill' = backfill
        BY <3>5 DEF WorkFails
      <4>2. QED
        BY <2>0, <4>1 DEF OnlyCreatedKnown
    <3> HIDE DEF JobsKnown
    <3>6. QED
      BY <3>1, <3>2, <3>3, <3>4, <3>5, WriteFrame
         DEF Next, Write, RequestFails, Publish, EventDropped, EnqueueFails, Lost, Crash,
             WorkReads, MergeReads, MergeWrites, pipeline, vars
  <2>2. WorkersKnow'
    <3>1. CASE UNCHANGED worker
      BY <2>0, <3>1 DEF OnlyCreatedKnown, Busy
    <3>2. CASE Crash
      BY <3>2 DEF Crash, Busy
    <3>3. ASSUME NEW w \in Workers, NEW j \in Ids \X Texts, WorkReads(w, j)
          PROVE  WorkersKnow'
      <4>1. j \in known
        BY <3>3 DEF WorkReads, JobsTracked
      <4>2. /\ \A v \in Workers \ {w} : worker'[v] = worker[v]
            /\ worker'[w] # Idle => worker'[w].id = j[1]
        BY <3>3 DEF WorkReads, Shapes
      <4>3. QED
        BY <2>0, <4>1, <4>2 DEF OnlyCreatedKnown, Busy
    <3>4. ASSUME NEW w \in Workers, MergeReads(w) PROVE WorkersKnow'
      <4>1. /\ worker[w] # Idle
            /\ \A v \in Workers \ {w} : worker'[v] = worker[v]
            /\ worker'[w].id = worker[w].id
        BY <3>4 DEF MergeReads, Shapes, Idle
      <4>2. QED
        BY <2>0, <4>1 DEF OnlyCreatedKnown, Busy
    <3>5. ASSUME NEW w \in Workers, MergeWrites(w) \/ WorkFails(w)
          PROVE  WorkersKnow'
      <4>1. /\ worker'[w] = Idle
            /\ \A v \in Workers \ {w} : worker'[v] = worker[v]
        BY <3>5 DEF MergeWrites, WorkFails, Shapes
      <4>2. QED
        BY <2>0, <4>1 DEF OnlyCreatedKnown, Busy
    <3> HIDE DEF WorkersKnow
    <3>6. QED
      BY <3>1, <3>2, <3>3, <3>4, <3>5, WriteFrame
         DEF Next, Write, RequestFails, Publish, EventDropped, DeliverEvent,
             EnqueueFails, BackfillList, BackfillInsert, pipeline, vars
  <2>3. AnnouncedKnown'
    <3>1. CASE UNCHANGED announces
      BY <2>0, <3>1 DEF OnlyCreatedKnown
    <3>2. ASSUME NEW r \in Requests, NEW heard \in BOOLEAN, Write(r, heard)
          PROVE  AnnouncedKnown'
      BY <2>0, <3>2, WriteFrame, WriteCreates DEF OnlyCreatedKnown
    <3>3. ASSUME NEW r \in Requests, Publish(r) \/ EventDropped(r)
          PROVE  AnnouncedKnown'
      BY <2>0, <3>3 DEF OnlyCreatedKnown, Publish, EventDropped, Shapes
    <3>4. CASE Crash
      BY <3>4 DEF Crash
    <3> HIDE DEF AnnouncedKnown
    <3>5. QED
      BY <3>1, <3>2, <3>3, <3>4
         DEF Next, Write, RequestFails, DeliverEvent, EnqueueFails, BackfillList,
             BackfillInsert, WorkReads, MergeReads, MergeWrites, WorkFails, vars
  <2>4. EventsKnow'
    <3>1. CASE UNCHANGED events
      BY <2>0, <3>1 DEF OnlyCreatedKnown
    <3>2. ASSUME NEW r \in Requests, Publish(r) PROVE EventsKnow'
      <4>1. CASE announces[r] = None
        BY <3>1, <3>2, <4>1 DEF Publish
      <4>2. CASE announces[r] # None
        <5>1. /\ events' = Append(events, announces[r]) /\ events \in Seq(Events)
              /\ announces[r] \in Events
          BY <3>2, <4>2 DEF Publish, Shapes
        <5>2. QED
          BY <2>0, <4>2, <5>1 DEF OnlyCreatedKnown
      <4>3. QED
        BY <4>1, <4>2
    <3>3. CASE DeliverEvent \/ EnqueueFails
      <4>1. /\ events \in Seq(Events) /\ events # <<>> /\ events' = Tail(events)
        BY <3>3 DEF DeliverEvent, EnqueueFails, Shapes
      <4>2. \A n \in DOMAIN events' : n + 1 \in DOMAIN events /\ events'[n] = events[n + 1]
        BY <4>1
      <4>3. QED
        BY <2>0, <4>2 DEF OnlyCreatedKnown
    <3>4. CASE Crash
      BY <3>4 DEF Crash
    <3> HIDE DEF EventsKnow
    <3>5. QED
      BY <3>1, <3>2, <3>3, <3>4, WriteFrame
         DEF Next, Write, RequestFails, EventDropped, BackfillList, BackfillInsert,
             WorkReads, MergeReads, MergeWrites, WorkFails, pipeline, vars
  <2>5. QED
    BY <2>1, <2>2, <2>3, <2>4 DEF OnlyCreatedKnown
<1>3. QED
  BY <1>1, <1>2

-----------------------------------------------------------------------------
(* The metadata a request set is lost only between the merge's statements. *)

\* A write has nothing to do with the record i.
Untouched(i) ==
    /\ row'[i] = row[i] /\ lastPatch'[i] = lastPatch[i]
    /\ i \in overwritten => i \in overwritten'
    /\ i \in excused => i \in excused'

Updated(r, i, heard) ==
    \E fields \in SUBSET {"value_text", "metadata"}, x \in AllTexts :
        UpdateFeedbackRecord(r, i, fields, x, heard)

\* A record that is there after a write was created, updated or untouched.
LEMMA WriteOnRecord ==
    ASSUME Shapes, NEW r \in Requests, NEW heard \in BOOLEAN, Write(r, heard),
           NEW i \in Live'
    PROVE  Untouched(i) \/ CreateFeedbackRecord(r, i, heard) \/ Updated(r, i, heard)
<1>0. i \in Ids /\ row'[i] # None
  BY DEF Live
<1>1. ASSUME NEW k \in Ids \ {i}, CreateFeedbackRecord(r, k, heard)
      PROVE  Untouched(i)
  BY <1>0, <1>1 DEF CreateFeedbackRecord, Untouched, Shapes
<1>2. ASSUME NEW k \in Ids \ {i}, Updated(r, k, heard) PROVE Untouched(i)
  <2>1. PICK fields \in SUBSET {"value_text", "metadata"}, x \in AllTexts :
            UpdateFeedbackRecord(r, k, fields, x, heard)
    BY <1>2 DEF Updated
  <2>2. row'[i] = row[i] /\ lastPatch'[i] = lastPatch[i]
    BY <1>0, <2>1 DEF UpdateFeedbackRecord, Shapes
  <2>3. overwritten \subseteq overwritten' /\ excused \subseteq excused'
    BY <2>1 DEF UpdateFeedbackRecord
  <2>4. QED
    BY <2>2, <2>3 DEF Untouched
<1>3. ASSUME NEW is, Remove(is, heard) PROVE Untouched(i)
  <2>1. i \notin is
    BY <1>0, <1>3 DEF Remove
  <2>2. QED
    BY <1>0, <1>3, <2>1 DEF Remove, Untouched
<1>4. QED
  BY <1>0, <1>1, <1>2, <1>3
     DEF Write, Updated, DeleteFeedbackRecord, BulkDeleteFeedbackRecords

\* What a PATCH does to its record.
LEMMA UpdateEffect ==
    ASSUME Shapes, NEW r \in Requests, NEW heard \in BOOLEAN, NEW i \in Ids,
           NEW fields \in SUBSET {"value_text", "metadata"}, NEW x \in AllTexts,
           UpdateFeedbackRecord(r, i, fields, x, heard)
    PROVE  /\ i \in Live
           /\ row'[i].text = IF "value_text" \in fields THEN x ELSE row[i].text
           /\ "metadata" \in fields =>
                  /\ row'[i].meta = r /\ lastPatch'[i] = r
                  /\ HoldsMetadata(i) => i \in overwritten'
                  /\ i \in excused'
           /\ "metadata" \notin fields =>
                  /\ row'[i].meta = row[i].meta /\ lastPatch'[i] = lastPatch[i]
                  /\ row'[i].sentiment = row[i].sentiment
                  /\ i \in overwritten => i \in overwritten'
           /\ i \in excused => i \in excused'
<1> DEFINE q == [text |-> IF "value_text" \in fields THEN x ELSE row[i].text,
                 meta |-> IF "metadata" \in fields THEN r ELSE row[i].meta,
                 sentiment |-> IF "metadata" \in fields THEN None
                               ELSE row[i].sentiment]
<1>1. row' = [row EXCEPT ![i] = q]
  BY DEF UpdateFeedbackRecord
<1>2. row'[i] = q
  BY <1>1 DEF Shapes
<1>3. /\ i \in Live
      /\ lastPatch' = IF "metadata" \in fields THEN [lastPatch EXCEPT ![i] = r]
                      ELSE lastPatch
      /\ overwritten' = IF "metadata" \in fields /\ HoldsMetadata(i)
                        THEN overwritten \cup {i} ELSE overwritten
      /\ excused \subseteq excused'
      /\ "metadata" \in fields => i \in excused'
  BY DEF UpdateFeedbackRecord
<1>4. lastPatch'[i] = IF "metadata" \in fields THEN r ELSE lastPatch[i]
  BY <1>3 DEF Shapes
<1>5. QED
  BY <1>2, <1>3, <1>4

\* No worker has a record that is being created.
LEMMA CreateEffect ==
    ASSUME Shapes, OnlyCreatedKnown, NEW r \in Requests, NEW heard \in BOOLEAN,
           NEW i \in Ids, CreateFeedbackRecord(r, i, heard)
    PROVE  /\ row'[i].meta = r /\ lastPatch'[i] = r
           /\ i \notin Created
           /\ \A w \in Workers : Busy(w) => worker[w].id # i
           /\ \A j \in known : j[1] # i
<1>1. row'[i].meta = r /\ lastPatch'[i] = r
  BY DEF CreateFeedbackRecord, Shapes
<1>2. i \notin Created
  BY DEF CreateFeedbackRecord, Created, Live
<1>3. QED
  BY <1>1, <1>2 DEF OnlyCreatedKnown

LEMMA MergesInductive ==
    /\ Init => MergesTracked /\ MetadataLostOnlyInMerge
    /\ Shapes /\ OnlyCreatedKnown /\ MergesTracked /\ MetadataLostOnlyInMerge
       /\ [Next]_vars => MergesTracked' /\ MetadataLostOnlyInMerge'
<1>1. Init => MergesTracked /\ MetadataLostOnlyInMerge
  BY DEF Init, MergesTracked, MetadataLostOnlyInMerge, Idle, Live
<1>2. Shapes /\ OnlyCreatedKnown /\ MergesTracked /\ MetadataLostOnlyInMerge
      /\ [Next]_vars => MergesTracked' /\ MetadataLostOnlyInMerge'
  <2> SUFFICES ASSUME Shapes, OnlyCreatedKnown, MergesTracked,
                      MetadataLostOnlyInMerge, [Next]_vars
               PROVE  MergesTracked' /\ MetadataLostOnlyInMerge'
    OBVIOUS
  <2>1. ASSUME NEW r \in Requests, NEW heard \in BOOLEAN, Write(r, heard)
        PROVE  MergesTracked' /\ MetadataLostOnlyInMerge'
    <3> SUFFICES ASSUME NEW i \in Live', i \notin overwritten'
                 PROVE  /\ row'[i].meta = lastPatch'[i]
                        /\ \A w \in Workers : HasMeta(w, i)'
      BY DEF MergesTracked, MetadataLostOnlyInMerge, HasMeta
    <3>1. UNCHANGED worker
      BY <2>1, WriteFrame
    <3>2. i \in Ids
      BY DEF Live
    <3>3. CASE Untouched(i)
      <4>1. i \in Live /\ i \notin overwritten /\ row'[i] = row[i]
            /\ lastPatch'[i] = lastPatch[i]
        BY <3>3 DEF Untouched, Live
      <4>2. QED
        BY <3>1, <4>1 DEF MergesTracked, MetadataLostOnlyInMerge, HasMeta
    <3>4. CASE CreateFeedbackRecord(r, i, heard)
      <4>1. row'[i].meta = r /\ lastPatch'[i] = r
            /\ \A w \in Workers : Busy(w) => worker[w].id # i
        BY <2>1, <3>2, <3>4, CreateEffect
      <4>2. QED
        BY <3>1, <4>1, WorkerShape DEF HasMeta
    <3>5. CASE Updated(r, i, heard)
      <4>1. PICK fields \in SUBSET {"value_text", "metadata"}, x \in AllTexts :
                UpdateFeedbackRecord(r, i, fields, x, heard)
        BY <3>5 DEF Updated
      <4>2. CASE "metadata" \in fields
        <5>1. ~HoldsMetadata(i) /\ row'[i].meta = r /\ lastPatch'[i] = r
          BY <3>2, <4>1, <4>2, UpdateEffect
        <5>2. QED
          BY <3>1, <5>1 DEF HoldsMetadata, HasMeta
      <4>3. CASE "metadata" \notin fields
        <5>1. /\ row'[i].meta = row[i].meta /\ lastPatch'[i] = lastPatch[i]
              /\ i \in Live /\ i \notin overwritten
          BY <3>2, <4>1, <4>3, UpdateEffect
        <5>2. QED
          BY <3>1, <5>1 DEF MergesTracked, MetadataLostOnlyInMerge, HasMeta
      <4>4. QED
        BY <4>2, <4>3
    <3>6. QED
      BY <2>1, <3>3, <3>4, <3>5, WriteOnRecord
  <2>2. CASE UNCHANGED <<row, lastPatch, overwritten>>
    <3>1. MetadataLostOnlyInMerge'
      BY <2>2 DEF MetadataLostOnlyInMerge, Live
    <3>2. CASE UNCHANGED worker
      BY <2>2, <3>1, <3>2 DEF MergesTracked, Live, HasMeta
    <3>3. CASE Crash
      BY <3>1, <3>3 DEF Crash, MergesTracked, Idle
    <3>4. ASSUME NEW w \in Workers,
                 \/ \E j \in Ids \X Texts : WorkReads(w, j)
                 \/ MergeWrites(w) \/ WorkFails(w)
          PROVE  MergesTracked'
      <4>1. /\ \A v \in Workers \ {w} : worker'[v] = worker[v]
            /\ worker'[w].at # "merging"
        BY <3>4 DEF WorkReads, MergeWrites, WorkFails, Shapes, Idle
      <4>2. QED
        BY <2>2, <4>1 DEF MergesTracked, Live, HasMeta
    <3>5. ASSUME NEW w \in Workers, MergeReads(w) PROVE MergesTracked'
      <4>1. /\ worker[w] # Idle /\ row[worker[w].id] # None
            /\ \A v \in Workers \ {w} : worker'[v] = worker[v]
            /\ worker'[w].id = worker[w].id
            /\ worker'[w].meta = row[worker[w].id].meta
        BY <3>5 DEF MergeReads, Shapes, Idle
      <4>2. worker[w].id \in Live
        BY <4>1, WorkerShape DEF Live, Busy
      <4>3. QED
        BY <2>2, <4>1, <4>2 DEF MergesTracked, MetadataLostOnlyInMerge, Live, HasMeta
    <3>6. QED
      BY <2>1, <2>2, <3>1, <3>2, <3>3, <3>4, <3>5
         DEF Next, Write, RequestFails, Publish, EventDropped, DeliverEvent,
             EnqueueFails, Lost, BackfillList, BackfillInsert, pipeline, vars
  <2>3. ASSUME NEW w \in Workers, MergeWrites(w)
        PROVE  MergesTracked' /\ MetadataLostOnlyInMerge'
    <3>1. /\ UNCHANGED <<lastPatch, overwritten>>
          /\ worker'[w] = Idle
          /\ \A v \in Workers \ {w} : worker'[v] = worker[v]
      BY <2>3 DEF MergeWrites, Shapes
    <3>2. /\ worker[w].at = "merging" /\ worker[w].id \in Live
          /\ row'[worker[w].id].meta = worker[w].meta
          /\ \A i \in Ids \ {worker[w].id} : row'[i] = row[i]
      <4>1. /\ worker[w].at = "merging" /\ worker[w].id \in Live
            /\ row' = [row EXCEPT ![worker[w].id] =
                           [text |-> row[worker[w].id].text, meta |-> worker[w].meta,
                            sentiment |-> worker[w].text]]
        BY <2>3, MergeEffect
      <4>2. QED
        BY <4>1 DEF Shapes, Live
    <3>3. Live' \subseteq Live
      BY <3>2 DEF Live
    <3>4. MergesTracked'
      BY <3>1, <3>3 DEF MergesTracked, Idle, HasMeta
    <3>5. MetadataLostOnlyInMerge'
      <4> SUFFICES ASSUME NEW i \in Live', i \notin overwritten
                   PROVE  row'[i].meta = lastPatch[i]
        BY <3>1 DEF MetadataLostOnlyInMerge
      <4>1. i \in Live /\ i \in Ids
        BY <3>3 DEF Live
      <4>2. CASE i = worker[w].id
        BY <3>2, <4>1, <4>2 DEF MergesTracked, HasMeta
      <4>3. CASE i # worker[w].id
        BY <3>2, <4>1, <4>3 DEF MetadataLostOnlyInMerge
      <4>4. QED
        BY <4>2, <4>3
    <3>6. QED
      BY <3>4, <3>5
  <2>4. QED
    BY <2>1, <2>2, <2>3
       DEF Next, Write, RequestFails, Publish, EventDropped, Lost, Crash,
           DeliverEvent, EnqueueFails, BackfillList, BackfillInsert, WorkReads,
           MergeReads, WorkFails, history, vars
<1>3. QED
  BY <1>1, <1>2

-----------------------------------------------------------------------------
(* The sentiment follows the text.                                         *)

\* What says that i is seen to survives a step that leaves i, its workers and
\* its jobs alone and does not lose its events.
LEMMA SentimentFrame ==
    ASSUME NEW i \in Live \ excused, SentimentTracked, row'[i] = row[i],
           UNCHANGED worker, jobs \subseteq jobs',
           Announced(i) => Announced(i)' \/ \E j \in jobs' : j[1] = i
    PROVE  NoneWorksOnOther(i)' /\ SeenTo(i)'
  BY DEF SentimentTracked, NoneWorksOnOther, SeenTo, Busy

\* A write asks for the sentiment of the text it sets.
LEMMA WriteSentiment ==
    ASSUME Shapes, OnlyCommittedAnnounces, OnlyCreatedKnown, SentimentTracked,
           NEW r \in Requests, NEW heard \in BOOLEAN, Write(r, heard),
           NEW i \in (Live \ excused)'
    PROVE  NoneWorksOnOther(i)' /\ SeenTo(i)'
<1>1. /\ UNCHANGED <<events, known, jobs, worker>>
      /\ announces[r] = None
      /\ \A s \in Requests \ {r} : announces'[s] = announces[s]
  BY WriteFrame DEF OnlyCommittedAnnounces
<1>2. i \in Ids /\ i \in Live' /\ i \notin excused'
  BY DEF Live
<1>3. ASSUME row'[i].text = row[i].text PROVE Announced(i) => Announced(i)'
  BY <1>1, <1>3 DEF Announced, AsksFor, WantsJob
<1>4. CASE Untouched(i)
  <2>1. row'[i] = row[i] /\ i \in Live \ excused
    BY <1>2, <1>4 DEF Untouched, Live
  <2>2. QED
    BY <1>1, <1>3, <2>1, SentimentFrame
<1>5. CASE CreateFeedbackRecord(r, i, heard)
  <2>1. /\ \A w \in Workers : Busy(w) => worker[w].id # i
        /\ \A j \in known : j[1] # i
    BY <1>2, <1>5, CreateEffect
  <2>2. PICK x \in AllTexts :
            /\ row' = [row EXCEPT ![i] = [text |-> x, meta |-> r, sentiment |-> None]]
            /\ Commit(r, Event("created", {i}, FALSE, x), heard)
    BY <1>5 DEF CreateFeedbackRecord
  <2>3. row'[i].text = x
    BY <1>2, <2>2 DEF Shapes
  <2>4. heard
    BY <1>2, <1>5 DEF CreateFeedbackRecord
  <2> DEFINE e == Event("created", {i}, FALSE, x)
  <2>5. /\ e \in Events /\ e.type = "created" /\ e.ids = {i} /\ e.text = x
        /\ e # None
    <3>1. e \in Events
      BY <1>2, EventShape
    <3>2. QED
      BY <3>1, RecordsAssumption DEF Event
  <2> HIDE DEF e
  <2>6. announces'[r] = e
    BY <2>2, <2>4 DEF Commit, Shapes, e
  <2>7. x # Empty => Announced(i)'
    BY <1>1, <2>1, <2>3, <2>5, <2>6 DEF Announced, AsksFor, WantsJob
  <2>8. QED
    BY <1>1, <2>1, <2>3, <2>7 DEF NoneWorksOnOther, SeenTo, Busy
<1>6. CASE Updated(r, i, heard)
  <2>1. PICK fields \in SUBSET {"value_text", "metadata"}, x \in AllTexts :
            UpdateFeedbackRecord(r, i, fields, x, heard)
    BY <1>6 DEF Updated
  <2>2. /\ "metadata" \notin fields
        /\ i \in Live \ excused
        /\ row'[i].text = IF "value_text" \in fields THEN x ELSE row[i].text
        /\ row'[i].sentiment = row[i].sentiment
    <3>1. i \in Ids
      BY <1>2
    <3>2. /\ i \in Live
          /\ row'[i].text = IF "value_text" \in fields THEN x ELSE row[i].text
      BY <2>1, <3>1, UpdateEffect
    <3>3. /\ "metadata" \in fields => i \in excused'
          /\ i \in excused => i \in excused'
          /\ "metadata" \notin fields => row'[i].sentiment = row[i].sentiment
      BY <2>1, <3>1, UpdateEffect
    <3>4. QED
      BY <1>2, <3>2, <3>3
  <2>3. CASE "value_text" \in fields
    <3>1. heard /\ <<i, x>> \notin known /\ ~HoldsText(i)
      BY <1>2, <2>1, <2>3 DEF UpdateFeedbackRecord
    <3>2. \A w \in Workers : Busy(w) => worker[w].id # i
      BY <3>1, WorkerShape DEF HoldsText
    <3> DEFINE e == Event("updated", {i}, "value_text" \in fields, x)
    <3>3. /\ e \in Events /\ e.type = "updated" /\ e.ids = {i} /\ e.text = x
          /\ e.textChanged /\ e # None
      <4>1. ("value_text" \in fields) = TRUE
        BY <2>3
      <4>2. e \in Events
        BY <1>2, <4>1, EventShape
      <4>3. QED
        BY <2>3, <4>2, RecordsAssumption DEF Event
    <3>4. Commit(r, e, heard)
      BY <2>1, <2>3 DEF UpdateFeedbackRecord
    <3> HIDE DEF e
    <3>5. announces'[r] = e
      BY <3>1, <3>4 DEF Commit, Shapes
    <3>6. x # Empty => Announced(i)'
      BY <1>1, <2>2, <2>3, <3>1, <3>3, <3>5 DEF Announced, AsksFor, WantsJob
    <3>7. QED
      BY <1>1, <2>2, <2>3, <3>2, <3>6 DEF NoneWorksOnOther, SeenTo, Busy
  <2>4. CASE "value_text" \notin fields
    BY <1>1, <1>3, <2>2, <2>4 DEF SentimentTracked, NoneWorksOnOther, SeenTo, Busy
  <2>5. QED
    BY <2>3, <2>4
<1>7. QED
  BY <1>2, <1>4, <1>5, <1>6, WriteOnRecord

\* Publishing and delivering keep what asks for the sentiment; what is lost is
\* excused.
LEMMA EventsSentiment ==
    ASSUME Shapes, JobsTracked, SentimentTracked,
           \/ \E r \in Requests : Publish(r) \/ EventDropped(r)
           \/ Crash \/ DeliverEvent \/ EnqueueFails
           \/ \E j \in Ids \X Texts : BackfillInsert(j),
           NEW i \in (Live \ excused)'
    PROVE  NoneWorksOnOther(i)' /\ SeenTo(i)'
<1>1. i \in Ids /\ i \in Live' /\ i \notin excused'
  BY DEF Live
<1>2. ASSUME NEW r \in Requests, Publish(r)
      PROVE  NoneWorksOnOther(i)' /\ SeenTo(i)'
  <2>1. /\ i \in Live \ excused /\ row'[i] = row[i]
        /\ UNCHANGED <<worker, jobs, known>>
        /\ \A s \in Requests \ {r} : announces'[s] = announces[s]
        /\ announces[r] = None => events' = events
    BY <1>1, <1>2 DEF Publish, Live, Shapes
  <2>2. announces[r] # None =>
            /\ events'[Len(events) + 1] = announces[r]
            /\ Len(events) + 1 \in DOMAIN events'
            /\ \A n \in DOMAIN events : n \in DOMAIN events' /\ events'[n] = events[n]
    BY <1>2 DEF Publish, Shapes
  <2>3. Announced(i) => Announced(i)'
    BY <2>1, <2>2 DEF Announced, AsksFor, WantsJob
  <2>4. QED
    BY <2>1, <2>3, SentimentFrame
<1>3. ASSUME NEW r \in Requests, EventDropped(r)
      PROVE  NoneWorksOnOther(i)' /\ SeenTo(i)'
  <2>1. /\ announces[r] \in Events /\ Lost({announces[r]})
        /\ UNCHANGED <<row, worker, jobs, known, events>>
        /\ \A s \in Requests \ {r} : announces'[s] = announces[s]
    BY <1>3 DEF EventDropped, Lost, Shapes
  <2>2. /\ excused \subseteq excused'
        /\ WantsJob(announces[r]) => i \notin announces[r].ids
    BY <1>1, <2>1, LostShape
  <2>3. i \in Live \ excused
    BY <1>1, <2>1, <2>2 DEF Live
  <2>4. Announced(i) => Announced(i)'
    BY <2>1, <2>2 DEF Announced, AsksFor, WantsJob
  <2>5. QED
    BY <2>1, <2>3, <2>4, SentimentFrame
<1>4. CASE Crash
  <2> DEFINE es == ({announces[r] : r \in Requests} \ {None})
                       \cup {events[n] : n \in DOMAIN events}
  <2>1. /\ es \in SUBSET Events /\ Lost(es)
        /\ UNCHANGED <<row, known>>
        /\ worker' = [w \in Workers |-> Idle]
        /\ jobs' = jobs \cup {worker[w].job : w \in {w \in Workers : worker[w] # Idle}}
    BY <1>4, HeldEvents DEF Crash, Lost
  <2>2. /\ \A r \in Requests : announces[r] # None => announces[r] \in es
        /\ \A n \in DOMAIN events : events[n] \in es
    OBVIOUS
  <2> HIDE DEF es
  <2>3. /\ excused \subseteq excused'
        /\ \A e \in es : WantsJob(e) => i \notin e.ids
    BY <1>1, <2>1, LostShape
  <2>4. ~Announced(i)
    BY <2>2, <2>3 DEF Announced, AsksFor
  <2>5. i \in Live \ excused
    BY <1>1, <2>1, <2>3 DEF Live
  <2>6. \A w \in Workers : Busy(w) /\ worker[w].id = i =>
            worker[w].job \in jobs' /\ worker[w].job[1] = i
    BY <2>1 DEF JobsTracked, Busy
  <2>7. QED
    BY <2>1, <2>4, <2>5, <2>6 DEF SentimentTracked, NoneWorksOnOther, SeenTo, Busy
<1>5. ASSUME NEW pairs, InsertUnique(pairs), UNCHANGED <<row, announces, worker, excused>>,
             \A n \in DOMAIN events : \/ \E m \in DOMAIN events' : events'[m] = events[n]
                                      \/ AsksFor(events[n], i) => <<i, row[i].text>> \in pairs
      PROVE  NoneWorksOnOther(i)' /\ SeenTo(i)'
  <2>1. i \in Live \ excused /\ row'[i] = row[i] /\ jobs \subseteq jobs'
    BY <1>1, <1>5 DEF Live, InsertUnique
  <2>2. CASE <<i, row[i].text>> \in pairs
    <3>1. Announced(i) => <<i, row[i].text>> \in jobs'
      BY <1>5, <2>2 DEF InsertUnique, Announced
    <3>2. <<i, row[i].text>>[1] = i
      OBVIOUS
    <3>3. QED
      BY <1>5, <2>1, <3>1, <3>2, SentimentFrame
  <2>3. CASE <<i, row[i].text>> \notin pairs
    <3>1. Announced(i) => Announced(i)'
      BY <1>5, <2>1, <2>3 DEF InsertUnique, Announced, AsksFor, WantsJob
    <3>2. QED
      BY <1>5, <2>1, <3>1, SentimentFrame
  <2>4. QED
    BY <2>2, <2>3
<1>6. CASE DeliverEvent
  <2>1. PICK e : e = Head(events)
    OBVIOUS
  <2>2. /\ InsertUnique({<<k, e.text>> : k \in IF WantsJob(e) THEN e.ids ELSE {}})
        /\ UNCHANGED <<row, announces, worker, excused>>
        /\ events \in Seq(Events) /\ events # <<>> /\ events' = Tail(events)
    BY <1>6, <2>1 DEF DeliverEvent, history, Shapes
  <2>3. ASSUME NEW n \in DOMAIN events
        PROVE  \/ \E m \in DOMAIN events' : events'[m] = events[n]
               \/ AsksFor(events[n], i) =>
                      <<i, row[i].text>> \in
                          {<<k, e.text>> : k \in IF WantsJob(e) THEN e.ids ELSE {}}
    <3>1. CASE n = 1
      <4>1. events[n] = e
        BY <2>1, <2>2, <3>1
      <4>2. QED
        BY <4>1 DEF AsksFor
    <3>2. CASE n # 1
      <4>1. n - 1 \in DOMAIN events' /\ events'[n - 1] = events[n]
        BY <2>2, <3>2
      <4>2. QED
        BY <4>1
    <3>3. QED
      BY <3>1, <3>2
  <2>4. QED
    BY <1>5, <2>2, <2>3
<1>7. ASSUME NEW j \in Ids \X Texts, BackfillInsert(j)
      PROVE  NoneWorksOnOther(i)' /\ SeenTo(i)'
  <2>1. UNCHANGED <<row, announces, events, worker, excused>>
    BY <1>7 DEF BackfillInsert, history
  <2>2. InsertUnique({j}) \/ UNCHANGED <<known, jobs>>
    BY <1>7 DEF BackfillInsert
  <2>3. UNCHANGED <<known, jobs>> => InsertUnique({})
    BY DEF InsertUnique
  <2>4. QED
    BY <1>5, <2>1, <2>2, <2>3
<1>8. CASE EnqueueFails
  <2>1. PICK e \in Events : e = Head(events)
    BY <1>8, FailShape
  <2>2. /\ Lost({e}) /\ {e} \in SUBSET Events
        /\ UNCHANGED <<row, known, jobs, worker, announces>>
        /\ events \in Seq(Events) /\ events # <<>> /\ events' = Tail(events)
    BY <1>8, <2>1, FailShape
  <2>3. excused \subseteq excused' /\ (WantsJob(e) => i \notin e.ids)
    BY <1>1, <2>2, LostShape
  <2>4. i \in Live \ excused
    BY <1>1, <2>2, <2>3 DEF Live
  <2>5. ASSUME NEW n \in DOMAIN events, AsksFor(events[n], i)
        PROVE  \E m \in DOMAIN events' : events'[m] = events[n]
    <3>1. events[1] = e
      BY <2>1, <2>2
    <3>2. n # 1
      BY <2>3, <2>5, <3>1 DEF AsksFor
    <3>3. n - 1 \in DOMAIN events' /\ events'[n - 1] = events[n]
      BY <2>2, <3>2
    <3>4. QED
      BY <3>3
  <2>6. Announced(i) => Announced(i)'
    BY <2>2, <2>5 DEF Announced, AsksFor, WantsJob
  <2>7. QED
    BY <2>2, <2>4, <2>6, SentimentFrame
<1>9. QED
  BY <1>2, <1>3, <1>4, <1>6, <1>7, <1>8

\* A worker stores the sentiment of the text, or leaves the job to be done, or
\* excuses the record.
LEMMA WorkSentiment ==
    ASSUME Shapes, JobsTracked, DeletionTracked, SentimentTracked,
           NEW w \in Workers, Work(w), NEW i \in (Live \ excused)'
    PROVE  NoneWorksOnOther(i)' /\ SeenTo(i)'
<1>1. i \in Ids /\ i \in Live' /\ i \notin excused'
  BY DEF Live
<1>2. ASSUME NEW j \in Ids \X Texts, WorkReads(w, j)
      PROVE  NoneWorksOnOther(i)' /\ SeenTo(i)'
  <2>1. /\ UNCHANGED <<row, announces, events, known>>
        /\ worker[w] = Idle /\ jobs' = jobs \ {j}
        /\ \A v \in Workers \ {w} : worker'[v] = worker[v]
        /\ i \in Live \ excused
    BY <1>1, <1>2 DEF WorkReads, history, Shapes, Live
  <2>2. Announced(i) => Announced(i)'
    BY <2>1 DEF Announced, AsksFor, WantsJob
  <2>3. \A v \in Workers \ {w} : Busy(v)' /\ worker'[v].id = i =>
            worker'[v].text = row[i].text
    BY <2>1 DEF SentimentTracked, NoneWorksOnOther, Busy
  <2>4. CASE j[1] # i
    <3>1. Busy(w)' => worker'[w].id # i
      BY <1>2, <2>4 DEF WorkReads, Shapes, Busy
    <3>2. \A k \in jobs : k[1] = i => k \in jobs'
      BY <2>1, <2>4
    <3>3. \A v \in Workers : Busy(v) => v # w /\ Busy(v)' /\ worker'[v].id = worker[v].id
      BY <2>1 DEF Busy
    <3>4. SeenTo(i)'
      BY <2>1, <2>2, <3>2, <3>3 DEF SentimentTracked, SeenTo
    <3>5. QED
      BY <2>1, <2>3, <3>1, <3>4 DEF NoneWorksOnOther
  <2>5. CASE j[1] = i /\ row[i].text = Empty
    <3>1. worker'[w] = Idle
      BY <1>2, <2>5 DEF WorkReads, Shapes
    <3>2. QED
      BY <2>1, <2>3, <2>5, <3>1 DEF NoneWorksOnOther, SeenTo, Busy
  <2>6. CASE j[1] = i /\ row[i].text # Empty
    <3>1. row[i] # None
      BY <2>1 DEF Live
    <3>2. worker'[w] = [at |-> "classifying", id |-> i, job |-> j,
                        text |-> row[i].text]
      BY <1>2, <2>6, <3>1 DEF WorkReads, Shapes
    <3>3. Busy(w)' /\ worker'[w].id = i /\ worker'[w].text = row[i].text
      BY <3>2 DEF Busy, Idle
    <3>4. QED
      BY <2>1, <2>3, <3>3 DEF NoneWorksOnOther, SeenTo
  <2>7. QED
    BY <2>4, <2>5, <2>6
<1>3. ASSUME MergeReads(w) PROVE NoneWorksOnOther(i)' /\ SeenTo(i)'
  <2>1. /\ UNCHANGED <<row, announces, events, known, jobs>>
        /\ \A v \in Workers \ {w} : worker'[v] = worker[v]
        /\ Busy(w) /\ Busy(w)'
        /\ worker'[w].id = worker[w].id /\ worker'[w].text = worker[w].text
        /\ i \in Live \ excused
    BY <1>1, <1>3 DEF MergeReads, history, Shapes, Live, Busy, Idle
  <2>2. Announced(i) => Announced(i)'
    BY <2>1 DEF Announced, AsksFor, WantsJob
  <2>3. \A v \in Workers :
            /\ Busy(v)' <=> Busy(v)
            /\ worker'[v].id = worker[v].id /\ worker'[v].text = worker[v].text
    BY <2>1 DEF Busy
  <2>4. QED
    BY <2>1, <2>2, <2>3 DEF SentimentTracked, NoneWorksOnOther, SeenTo
<1>4. ASSUME MergeWrites(w) PROVE NoneWorksOnOther(i)' /\ SeenTo(i)'
  <2> DEFINE k == worker[w].id
  <2>1. /\ UNCHANGED <<announces, events, known, excused>> /\ jobs \subseteq jobs'
        /\ \A v \in Workers \ {w} : worker'[v] = worker[v]
        /\ worker'[w] = Idle
    BY <1>4 DEF MergeWrites, Shapes
  <2>2. /\ Busy(w) /\ k \in Live /\ k \in Ids
        /\ row' = [row EXCEPT ![k] = [text |-> row[k].text, meta |-> worker[w].meta,
                                      sentiment |-> worker[w].text]]
    BY <1>4, MergeEffect, WorkerShape DEF Live
  <2>3. CASE i = k
    <3>1. /\ row'[i].text = row[i].text /\ row'[i].sentiment = worker[w].text
          /\ i \in Live \ excused
      BY <1>1, <2>1, <2>2, <2>3 DEF Shapes
    <3>2. worker[w].text = row[i].text
      BY <2>2, <2>3, <3>1 DEF SentimentTracked, NoneWorksOnOther
    <3>3. QED
      BY <2>1, <3>1, <3>2 DEF SentimentTracked, NoneWorksOnOther, SeenTo, Busy
  <2>4. CASE i # k
    <3>1. row'[i] = row[i] /\ i \in Live \ excused
      BY <1>1, <2>1, <2>2, <2>4 DEF Shapes, Live
    <3>2. Announced(i) => Announced(i)'
      BY <2>1, <3>1 DEF Announced, AsksFor, WantsJob
    <3>3. QED
      BY <2>1, <2>4, <3>1, <3>2 DEF SentimentTracked, NoneWorksOnOther, SeenTo, Busy
  <2>5. QED
    BY <2>3, <2>4
<1>5. ASSUME WorkFails(w) PROVE NoneWorksOnOther(i)' /\ SeenTo(i)'
  <2>1. /\ UNCHANGED <<row, announces, events, deleted>> /\ known' \subseteq known
        /\ jobs \subseteq jobs' /\ excused \subseteq excused'
        /\ worker[w].job \in jobs' \/ excused' = excused \cup ({worker[w].id} \ deleted)
        /\ \A v \in Workers \ {w} : worker'[v] = worker[v]
        /\ Busy(w) /\ worker'[w] = Idle
    BY <1>5 DEF WorkFails, Shapes, Busy, Idle
  <2>2. i \in Live \ excused /\ i \notin deleted
    BY <1>1, <2>1 DEF Live, DeletionTracked
  <2>3. worker[w].id = i => worker[w].job \in jobs' /\ worker[w].job[1] = i
    BY <1>1, <2>1, <2>2 DEF JobsTracked
  <2>4. Announced(i) => Announced(i)'
    BY <2>1 DEF Announced, AsksFor, WantsJob
  <2>5. QED
    BY <2>1, <2>2, <2>3, <2>4 DEF SentimentTracked, NoneWorksOnOther, SeenTo, Busy
<1>6. QED
  BY <1>2, <1>3, <1>4, <1>5 DEF Work

LEMMA SentimentInductive ==
    /\ Init => SentimentTracked
    /\ Shapes /\ OnlyCommittedAnnounces /\ JobsTracked /\ DeletionTracked
       /\ OnlyCreatedKnown /\ SentimentTracked /\ [Next]_vars => SentimentTracked'
<1>1. Init => SentimentTracked
  BY DEF Init, SentimentTracked, Live
<1>2. Shapes /\ OnlyCommittedAnnounces /\ JobsTracked /\ DeletionTracked
      /\ OnlyCreatedKnown /\ SentimentTracked /\ [Next]_vars => SentimentTracked'
  <2> SUFFICES ASSUME Shapes, OnlyCommittedAnnounces, JobsTracked, DeletionTracked,
                      OnlyCreatedKnown, SentimentTracked, [Next]_vars,
                      NEW i \in (Live \ excused)'
               PROVE  NoneWorksOnOther(i)' /\ SeenTo(i)'
    BY DEF SentimentTracked
  <2>1. CASE UNCHANGED <<row, announces, events, known, jobs, worker, excused>>
    <3>1. i \in Live \ excused
      BY <2>1 DEF Live
    <3>2. Announced(i) => Announced(i)'
      BY <2>1 DEF Announced, AsksFor, WantsJob
    <3>3. QED
      BY <2>1, <3>1, <3>2, SentimentFrame
  <2>2. QED
    BY <2>1, WriteSentiment, EventsSentiment, WorkSentiment
       DEF Next, Write, Work, RequestFails, BackfillList, pipeline, history, vars
<1>3. QED
  BY <1>1, <1>2

-----------------------------------------------------------------------------
(* The theorems.                                                           *)

Tracking ==
    Shapes /\ OnlyCommittedAnnounces /\ JobsTracked /\ DeletionTracked
        /\ OnlyCreatedKnown

LEMMA TrackingInvariant == Spec => []Tracking
<1>1. Init => Tracking
  BY ShapesInductive, OnlyCommittedAnnouncesInductive, JobsTrackedInductive,
     DeletionTrackedInductive, OnlyCreatedKnownInductive DEF Tracking
<1>2. Tracking /\ [Next]_vars => Tracking'
  BY ShapesInductive, OnlyCommittedAnnouncesInductive, JobsTrackedInductive,
     DeletionTrackedInductive, OnlyCreatedKnownInductive DEF Tracking
<1>3. QED
  BY <1>1, <1>2, PTL DEF Spec

\* The variables keep their types: a job that waits is one River knows of, and
\* only deleted records can have a deletion nobody announced.
THEOREM RecordsTypes == Spec => []TypeOK
<1>1. Tracking => TypeOK
  BY DEF Tracking, Shapes, JobsTracked, DeletionTracked, TypeOK
<1>2. QED
  BY <1>1, TrackingInvariant, PTL

\* However many requests delete the same records one by one and in bulk, each
\* deleted record is in exactly one published or pending event, unless it is
\* known that nobody could announce it; and no other record is in any.
THEOREM DeletionsAnnounced == Spec => []DeletionAnnouncedOnce
<1>1. Tracking => DeletionAnnouncedOnce
  <2> SUFFICES ASSUME Tracking, NEW i \in Ids
               PROVE  announced[i] + Cardinality({r \in Requests : Announces(r, i)}) =
                          IF i \in deleted \ unheard THEN 1 ELSE 0
    BY DEF DeletionAnnouncedOnce
  <2>1. announced[i] \in Nat /\ (Pending(i) \/ NotPending(i))
    BY DEF Tracking, Shapes, DeletionTracked
  <2>2. CASE Pending(i)
    <3>1. PICK r \in Requests :
              Announces(r, i) /\ \A s \in Requests : Announces(s, i) => s = r
      BY <2>2 DEF Pending
    <3>2. {s \in Requests : Announces(s, i)} = {r}
      BY <3>1
    <3>3. Cardinality({s \in Requests : Announces(s, i)}) = 1
      BY <3>2, FS_Singleton
    <3>4. QED
      BY <2>2, <3>3 DEF Pending
  <2>3. CASE NotPending(i)
    <3>1. {s \in Requests : Announces(s, i)} = {}
      BY <2>3 DEF NotPending
    <3>2. Cardinality({s \in Requests : Announces(s, i)}) = 0
      BY <3>1, FS_EmptySet
    <3>3. QED
      BY <2>1, <2>3, <3>2 DEF NotPending
  <2>4. QED
    BY <2>1, <2>2, <2>3
<1>2. QED
  BY <1>1, TrackingInvariant, PTL

\* The metadata of a record is what a request last set, unless a request set it
\* while a worker was between reading the metadata and writing it back.
THEOREM MetadataInvariant == Spec => []MetadataLostOnlyInMerge
<1>1. Init => MergesTracked /\ MetadataLostOnlyInMerge
  BY MergesInductive
<1>2. Tracking /\ MergesTracked /\ MetadataLostOnlyInMerge /\ [Next]_vars
      => MergesTracked' /\ MetadataLostOnlyInMerge'
  BY MergesInductive DEF Tracking
<1>3. QED
  BY <1>1, <1>2, TrackingInvariant, PTL DEF Spec

\* In whatever order events are published, jobs run and are retried: once all
\* is quiet a record has the sentiment of its text, or one of the listed
\* excuses. There is no other way for the two to differ.
THEOREM SentimentInvariant == Spec => []SentimentOfCurrentText
<1>1. Init => SentimentTracked
  BY SentimentInductive
<1>2. Tracking /\ SentimentTracked /\ [Next]_vars => SentimentTracked'
  BY SentimentInductive DEF Tracking
<1>3. Tracking /\ SentimentTracked => SentimentOfCurrentText
  <2> SUFFICES ASSUME Tracking, SentimentTracked, Quiet, NEW i \in Live \ excused,
                      row[i].text # Empty
               PROVE  row[i].sentiment = row[i].text
    BY DEF SentimentOfCurrentText
  <2>1. /\ jobs = {} /\ events = <<>>
        /\ \A w \in Workers : ~Busy(w)
        /\ \A r \in Requests : request[r] = "done"
    BY DEF Quiet, Busy
  <2>2. \A r \in Requests : announces[r] = None
    BY <2>1 DEF Tracking, OnlyCommittedAnnounces
  <2>3. ~Announced(i)
    BY <2>1, <2>2 DEF Announced
  <2>4. QED
    BY <2>1, <2>3 DEF SentimentTracked, SeenTo
<1>4. QED
  BY <1>1, <1>2, <1>3, TrackingInvariant, PTL DEF Spec
=============================================================================
