----------------------- MODULE WebhookDispatch_proofs -----------------------
(***************************************************************************)
(* Proofs about WebhookDispatch, for every finite set of webhooks, every   *)
(* set of events and endpoints, every number of attempts and batch size,   *)
(* and any number of admin requests, failing calls and crashes.            *)
(***************************************************************************)
EXTENDS WebhookDispatch, FiniteSetTheorems, TLAPS

\* The types without the bounds on attempts, which need JobsTracked.
Shapes ==
    /\ row \in [Webhooks -> Row]
    /\ listed \in [Events -> SUBSET Webhooks]
    /\ handled \subseteq Events
    /\ fanout \in [event : Events \cup {NoEvent}, rest : SUBSET Webhooks]
    /\ job \in [Jobs -> [state : JobStates, attempt : Nat]]
    /\ run \in [Jobs -> [at : RunStates, url : Urls]]
    /\ received \in [Jobs -> Nat]
    /\ acked \subseteq Jobs /\ changed \subseteq Jobs
    /\ edits \in 0..MaxEdits /\ faults \in 0..MaxFaults

\* What is left of the fan-out comes after what was enqueued, and none of it
\* was; an event that was not handled has no job.
FanOutTracked ==
    /\ \A e \in Events : e \notin handled =>
           listed[e] = {} /\ \A w \in Webhooks : job[<<e, w>>].state = "none"
    /\ fanout.event # NoEvent =>
           /\ fanout.event \in handled
           /\ fanout.rest \subseteq listed[fanout.event]
           /\ \A w \in listed[fanout.event] :
                  job[<<fanout.event, w>>].state = "none" <=> w \in fanout.rest
           /\ \A w \in listed[fanout.event], v \in fanout.rest :
                  w \notin fanout.rest => w < v

\* Only a running job has a goroutine, only a job with an attempt left waits
\* to run, and no job that was not enqueued was POSTed.
JobsTracked ==
    /\ \A j \in Jobs :
           /\ run[j].at # "free" => job[j].state = "running"
           /\ job[j].state = "none" => received[j] = 0
           /\ job[j].state \in {"available", "retryable"} =>
                  job[j].attempt < MaxAttempts
    /\ PostsBounded

\* Without a fault and without an admin request, a worker that is about to end
\* a job has the reason OutcomeMatchesEndpoint asks for.
EndsTruthfully ==
    faults = 0 /\ edits = 0 =>
        /\ \A w \in Webhooks : row[w].exists
        /\ \A j \in Jobs :
            LET disabled == ~row[j[2]].enabled
            IN  /\ job[j].state = "running" => run[j].at # "free"
                /\ run[j].at = "ok" => j \in acked \/ disabled
                /\ run[j].at = "error" /\ IsLastAttempt(j) => disabled

\* The webhooks of a batch come before those left for the next ones.
LEMMA BatchIsFirst ==
    ASSUME NEW rest \in SUBSET Webhooks
    PROVE  /\ Batch(rest) \subseteq rest
           /\ \A w \in Batch(rest), v \in rest \ Batch(rest) : w < v
<1>1. SUFFICES ASSUME NEW w \in Batch(rest), NEW v \in rest, v < w
               PROVE  v \in Batch(rest)
  BY <1>1, DispatchAssumption DEF Batch
<1> DEFINE below(x) == {u \in rest : u < x}
<1>2. w \in rest /\ w \in Nat /\ v \in Nat
  BY DispatchAssumption DEF Batch
<1>3. below(v) \subseteq below(w)
  <2> SUFFICES ASSUME NEW u \in rest, u < v PROVE u < w
    OBVIOUS
  <2>1. u \in Nat
    BY DispatchAssumption
  <2>2. QED
    BY <1>1, <1>2, <2>1
<1>4. IsFiniteSet(below(w))
  BY DispatchAssumption, FS_Subset
<1>5. /\ Cardinality(below(v)) <= Cardinality(below(w))
      /\ Cardinality(below(v)) \in Nat /\ Cardinality(below(w)) \in Nat
  BY <1>3, <1>4, FS_Subset, FS_CardinalityType
<1>6. Cardinality(below(w)) < MaxFanOut
  BY DEF Batch
<1>7. QED
  BY <1>5, <1>6, DispatchAssumption DEF Batch

\* River inserts a job only where there was none.
LEMMA InsertsOnlyNew ==
    ASSUME Shapes, FanOutTracked, fanout.event # NoEvent
    PROVE  LET after == Inserted(fanout.event, Batch(fanout.rest)) IN
           /\ after \in [Jobs -> [state : JobStates, attempt : Nat]]
           /\ \A j \in Jobs :
                  IF j[1] = fanout.event /\ j[2] \in Batch(fanout.rest)
                  THEN /\ after[j] = [state |-> "available", attempt |-> 0]
                       /\ job[j].state = "none"
                  ELSE after[j] = job[j]
<1> DEFINE after == Inserted(fanout.event, Batch(fanout.rest))
<1>1. fanout.rest \subseteq Webhooks /\ fanout.event \in Events
  BY DEF Shapes
<1>2. Batch(fanout.rest) \subseteq fanout.rest
  BY <1>1, BatchIsFirst
<1>3. after \in [Jobs -> [state : JobStates, attempt : Nat]]
  BY DEF Inserted, Shapes, JobStates
<1>4. ASSUME NEW j \in Jobs, j[1] = fanout.event, j[2] \in Batch(fanout.rest)
      PROVE  job[j].state = "none"
  <2>1. j = <<fanout.event, j[2]>>
    BY <1>4 DEF Jobs
  <2>2. QED
    BY <1>1, <1>2, <1>4, <2>1 DEF FanOutTracked
<1>5. QED
  BY <1>3, <1>4 DEF Inserted

\* A worker disables at most one row, and only by its enabled and its reason.
LEMMA DisabledIsRow ==
    ASSUME Shapes, NEW j \in Jobs, NEW reason \in {"gone", "attempts"}
    PROVE  /\ Disabled(j[2], reason) \in [Webhooks -> Row]
           /\ \A w \in Webhooks :
                  LET r == Disabled(j[2], reason)[w] IN
                  IF w = j[2] /\ row[w].exists
                  THEN /\ ~r.enabled /\ r.reason = reason
                       /\ r.exists = row[w].exists /\ r.url = row[w].url
                  ELSE r = row[w]
<1>1. j[2] \in Webhooks /\ row \in [Webhooks -> Row]
  BY DEF Jobs, Shapes
<1>2. CASE row[j[2]].exists
  <2> DEFINE r == [row[j[2]] EXCEPT !.enabled = FALSE, !.reason = reason]
  <2>0. row[j[2]] \in Row
    BY <1>1
  <2>1. /\ r \in Row
        /\ ~r.enabled
        /\ r.reason = reason
        /\ r.exists = row[j[2]].exists /\ r.url = row[j[2]].url
    BY <2>0 DEF Row
  <2>2. Disabled(j[2], reason) = [row EXCEPT ![j[2]] = r]
    BY <1>1, <1>2 DEF Disabled, Row
  <2>3. QED
    BY <1>1, <1>2, <2>1, <2>2
<1>3. CASE ~row[j[2]].exists
  BY <1>1, <1>3 DEF Disabled
<1>4. QED
  BY <1>2, <1>3
-----------------------------------------------------------------------------
\* Variables keep their types: needed by every other step.
LEMMA ShapesInductive ==
    /\ Init => Shapes
    /\ Shapes /\ FanOutTracked /\ [Next]_vars => Shapes'
<1> USE DispatchAssumption DEF Shapes
<1>1. Init => Shapes
  BY DEF Init, NothingPublished, FreshRow, JobStates, RunStates, Free
<1>2. Shapes /\ FanOutTracked /\ [Next]_vars => Shapes'
  <2> SUFFICES ASSUME Shapes, FanOutTracked, [Next]_vars PROVE Shapes'
    OBVIOUS
  <2> USE DEF fanoutVars, history, JobStates, RunStates
  <2>1. ASSUME NEW e \in Events, StartFanOut(e) PROVE Shapes'
    BY <2>1 DEF StartFanOut, ListEnabledForEventType
  <2>2. ASSUME NEW e \in Events, ListFails(e) PROVE Shapes'
    BY <2>2 DEF ListFails, Fault
  <2>3. CASE InsertBatch
    BY <2>3, InsertsOnlyNew DEF InsertBatch
  <2>4. CASE InsertBatchFails
    BY <2>4, InsertsOnlyNew DEF InsertBatchFails, Fault
  <2>5. ASSUME NEW j \in Jobs, FetchJob(j) PROVE Shapes'
    BY <2>5 DEF FetchJob
  <2>6. ASSUME NEW j \in Jobs, StoreResult(j) PROVE Shapes'
    BY <2>6 DEF StoreResult, StateAfterError, Free
  <2>7. ASSUME NEW j \in Jobs, RetryJob(j) PROVE Shapes'
    BY <2>7 DEF RetryJob
  <2>8. ASSUME NEW j \in Jobs, RescueJob(j) PROVE Shapes'
    BY <2>8 DEF RescueJob, StateAfterError
  <2>9. CASE Crash
    BY <2>9 DEF Crash, Fault, Free
  <2>10. ASSUME NEW j \in Jobs, LoadWebhook(j) PROVE Shapes'
    BY <2>10 DEF LoadWebhook, Row, Jobs
  <2>11. ASSUME NEW j \in Jobs, WebhookNotFound(j) PROVE Shapes'
    BY <2>11 DEF WebhookNotFound, At
  <2>12. ASSUME NEW j \in Jobs, LoadFails(j) PROVE Shapes'
    BY <2>12 DEF LoadFails, At, Fault
  <2>13. ASSUME NEW j \in Jobs, PostAccepted(j) PROVE Shapes'
    BY <2>13 DEF PostAccepted, Post, At
  <2>14. ASSUME NEW j \in Jobs, PostGone(j) PROVE Shapes'
    BY <2>14 DEF PostGone, Post, At
  <2>15. ASSUME NEW j \in Jobs, PostFails(j) PROVE Shapes'
    <3>1. run' \in [Jobs -> [at : RunStates, url : Urls]]
      BY <2>15 DEF PostFails, At, AfterFailure
    <3>2. received' \in [Jobs -> Nat]
      BY <2>15 DEF PostFails
    <3>3. QED
      BY <2>15, <3>1, <3>2 DEF PostFails, Post
  <2>16. ASSUME NEW j \in Jobs, DisableGone(j) PROVE Shapes'
    <3>1. row' \in [Webhooks -> Row]
      BY <2>16, DisabledIsRow DEF DisableGone
    <3>2. run' \in [Jobs -> [at : RunStates, url : Urls]]
      BY <2>16 DEF DisableGone, At, AfterFailure
    <3>3. QED
      BY <2>16, <3>1, <3>2 DEF DisableGone, Touched
  <2>17. ASSUME NEW j \in Jobs, DisableFailing(j) PROVE Shapes'
    <3>1. row' \in [Webhooks -> Row]
      BY <2>17, DisabledIsRow DEF DisableFailing
    <3>2. run' \in [Jobs -> [at : RunStates, url : Urls]]
      BY <2>17 DEF DisableFailing, At
    <3>3. QED
      BY <2>17, <3>1, <3>2 DEF DisableFailing, Touched
  <2>18. ASSUME NEW j \in Jobs, DisableFails(j) PROVE Shapes'
    BY <2>18 DEF DisableFails, At, AfterFailure, Fault
  <2>19. ASSUME NEW w \in Webhooks, UpdateWebhook(w) PROVE Shapes'
    BY <2>19 DEF UpdateWebhook, Edit, OnRow, PatchRow, Touched, Row
  <2>20. ASSUME NEW w \in Webhooks, DeleteWebhook(w) PROVE Shapes'
    <3>1. row[w] \in Row
      OBVIOUS
    <3>2. [row[w] EXCEPT !.exists = FALSE] \in Row
      BY <3>1 DEF Row
    <3>3. row' = [row EXCEPT ![w] = [row[w] EXCEPT !.exists = FALSE]]
      BY <2>20 DEF DeleteWebhook, DeleteRow
    <3>4. row' \in [Webhooks -> Row]
      BY <3>2, <3>3
    <3>5. QED
      BY <2>20, <3>4 DEF DeleteWebhook, Edit, OnRow, Touched
  <2>21. CASE UNCHANGED vars
    BY <2>21 DEF vars
  <2>22. QED
    BY <2>1, <2>2, <2>3, <2>4, <2>5, <2>6, <2>7, <2>8, <2>9, <2>10, <2>11,
       <2>12, <2>13, <2>14, <2>15, <2>16, <2>17, <2>18, <2>19, <2>20, <2>21
       DEF Next, FanOut, Work, River
<1>3. QED
  BY <1>1, <1>2
-----------------------------------------------------------------------------
\* A worker and River change jobs that were enqueued and leave the fan-out be.
LEMMA OnlyFanOutInserts ==
    ASSUME Shapes, JobsTracked, NEW j \in Jobs, Work(j) \/ River(j)
    PROVE  /\ UNCHANGED fanoutVars
           /\ \A i \in Jobs : job'[i].state = "none" <=> job[i].state = "none"
           /\ faults' = 0 => faults = 0
<1> USE DispatchAssumption DEF Shapes, JobsTracked, JobStates, RunStates
<1>1. CASE Work(j)
  BY <1>1 DEF Work, LoadWebhook, WebhookNotFound, LoadFails, PostAccepted,
     PostGone, PostFails, Post, DisableGone, DisableFailing, DisableFails, Fault,
     fanoutVars
<1>2. CASE River(j)
  BY <1>2 DEF River, FetchJob, StoreResult, RetryJob, RescueJob, StateAfterError,
     fanoutVars
<1>3. QED
  BY <1>1, <1>2

\* Batches are taken from the front of the listing, one after the other.
LEMMA FanOutInductive ==
    /\ Init => FanOutTracked
    /\ Shapes /\ JobsTracked /\ FanOutTracked /\ [Next]_vars => FanOutTracked'
<1>1. Init => FanOutTracked
  BY DEF Init, NothingPublished, FanOutTracked, Jobs
<1>2. Shapes /\ JobsTracked /\ FanOutTracked /\ [Next]_vars => FanOutTracked'
  <2> SUFFICES ASSUME Shapes, JobsTracked, FanOutTracked, [Next]_vars
               PROVE  FanOutTracked'
    OBVIOUS
  <2> USE DispatchAssumption DEF FanOutTracked
  <2>0. ASSUME \A i \in Jobs : job'[i].state = "none" <=> job[i].state = "none",
               UNCHANGED <<listed, handled>>,
               fanout' = fanout \/ fanout'.event = NoEvent
        PROVE  FanOutTracked'
    BY <2>0 DEF Jobs, Shapes
  <2>1. ASSUME NEW e \in Events, StartFanOut(e) PROVE FanOutTracked'
    BY <2>1 DEF StartFanOut, ListEnabledForEventType, Shapes
  <2>2. ASSUME NEW e \in Events, ListFails(e) PROVE FanOutTracked'
    BY <2>2 DEF ListFails, Shapes
  <2>3. CASE InsertBatch
    <3> DEFINE batch == Batch(fanout.rest)
    <3>1. fanout.event \in Events /\ fanout.rest \in SUBSET Webhooks
      BY <2>3 DEF InsertBatch, Shapes
    <3>2. batch \subseteq fanout.rest /\ \A w \in batch, v \in fanout.rest \ batch : w < v
      BY <3>1, BatchIsFirst
    <3>3. \A e \in Events, w \in Webhooks :
              job'[<<e, w>>].state = "none" <=>
                  job[<<e, w>>].state = "none" /\ ~(e = fanout.event /\ w \in batch)
      <4>1. SUFFICES ASSUME NEW e \in Events, NEW w \in Webhooks
                     PROVE  job'[<<e, w>>].state = "none" <=>
                                job[<<e, w>>].state = "none"
                                /\ ~(e = fanout.event /\ w \in batch)
        OBVIOUS
      <4>2. <<e, w>> \in Jobs /\ <<e, w>>[1] = e /\ <<e, w>>[2] = w
        BY DEF Jobs
      <4>3. QED
        BY <2>3, <4>2, InsertsOnlyNew DEF InsertBatch
    <3>4. UNCHANGED <<listed, handled>> /\ fanout'.rest = fanout.rest \ batch
          /\ fanout'.event \in {fanout.event, NoEvent}
      BY <2>3 DEF InsertBatch
    <3> HIDE DEF batch
    <3>5. ASSUME NEW e \in Events, e \notin handled'
          PROVE  listed'[e] = {} /\ \A w \in Webhooks : job'[<<e, w>>].state = "none"
      BY <2>3, <3>1, <3>3, <3>4, <3>5 DEF InsertBatch
    <3>6. ASSUME fanout'.event # NoEvent
          PROVE  /\ fanout'.event \in handled'
                 /\ fanout'.rest \subseteq listed'[fanout'.event]
                 /\ \A w \in listed'[fanout'.event] :
                        job'[<<fanout'.event, w>>].state = "none" <=> w \in fanout'.rest
                 /\ \A w \in listed'[fanout'.event], v \in fanout'.rest :
                        w \notin fanout'.rest => w < v
      <4>1. fanout'.event = fanout.event /\ listed[fanout.event] \subseteq Webhooks
        BY <3>1, <3>4, <3>6 DEF Shapes
      <4>2. /\ fanout.event \in handled
            /\ fanout.rest \subseteq listed[fanout.event]
            /\ \A w \in listed[fanout.event] :
                   job[<<fanout.event, w>>].state = "none" <=> w \in fanout.rest
            /\ \A w \in listed[fanout.event], v \in fanout.rest :
                   w \notin fanout.rest => w < v
        BY <2>3 DEF InsertBatch
      <4>3. \A w \in listed[fanout.event] :
                job'[<<fanout.event, w>>].state = "none" <=> w \in fanout'.rest
        <5>1. TAKE w \in listed[fanout.event]
        <5>2. job[<<fanout.event, w>>].state = "none" <=> w \in fanout.rest
          BY <4>2
        <5>3. QED
          BY <3>1, <3>3, <3>4, <4>1, <5>2
      <4>4. \A w \in listed[fanout.event], v \in fanout'.rest :
                w \notin fanout'.rest => w < v
        BY <3>2, <3>4, <4>2
      <4>5. QED
        BY <3>4, <4>1, <4>2, <4>3, <4>4
    <3>7. QED
      BY <3>5, <3>6
  <2>4. CASE InsertBatchFails
    <3>1. fanout'.event = NoEvent /\ UNCHANGED <<listed, handled>>
          /\ fanout.event \in handled
      BY <2>4 DEF InsertBatchFails
    <3>2. \A j \in Jobs : job'[j] = job[j] \/ j[1] = fanout.event
      BY <2>4, InsertsOnlyNew DEF InsertBatchFails
    <3>3. QED
      BY <3>1, <3>2 DEF Jobs
  <2>5. ASSUME NEW j \in Jobs, Work(j) \/ River(j) PROVE FanOutTracked'
    BY <2>0, <2>5, OnlyFanOutInserts DEF fanoutVars
  <2>6. CASE Crash
    BY <2>0, <2>6 DEF Crash
  <2>7. ASSUME NEW w \in Webhooks, UpdateWebhook(w) \/ DeleteWebhook(w)
        PROVE  FanOutTracked'
    BY <2>0, <2>7 DEF UpdateWebhook, DeleteWebhook, OnRow, fanoutVars
  <2>8. CASE UNCHANGED vars
    BY <2>0, <2>8 DEF vars
  <2>9. QED
    BY <2>1, <2>2, <2>3, <2>4, <2>5, <2>6, <2>7, <2>8 DEF Next, FanOut
<1>3. QED
  BY <1>1, <1>2
-----------------------------------------------------------------------------
\* An attempt is counted when it is fetched, and POSTs once at most.
LEMMA JobsInductive ==
    /\ Init => JobsTracked
    /\ Shapes /\ FanOutTracked /\ JobsTracked /\ [Next]_vars => JobsTracked'
<1> USE DispatchAssumption DEF JobsTracked, PostsBounded
<1>1. Init => JobsTracked
  BY DEF Init, NothingPublished, Free
<1>2. Shapes /\ FanOutTracked /\ JobsTracked /\ [Next]_vars => JobsTracked'
  <2> SUFFICES ASSUME Shapes, FanOutTracked, JobsTracked, [Next]_vars
               PROVE  JobsTracked'
    OBVIOUS
  <2> DEFINE Posting(at) == IF at \in {"fetched", "loaded"} THEN 1 ELSE 0
             Tracked(at, state, attempt, n) ==
                 /\ at # "free" => state = "running"
                 /\ state = "none" => n = 0
                 /\ state \in {"available", "retryable"} => attempt < MaxAttempts
                 /\ n + Posting(at) <= attempt
                 /\ attempt <= MaxAttempts
  <2>a. \A i \in Jobs : Tracked(run[i].at, job[i].state, job[i].attempt, received[i])
    BY DEF Shapes
  <2>b. /\ received \in [Jobs -> Nat]
        /\ job \in [Jobs -> [state : JobStates, attempt : Nat]]
        /\ run \in [Jobs -> [at : RunStates, url : Urls]]
    BY DEF Shapes
  <2>c. SUFFICES \A i \in Jobs :
            Tracked(run'[i].at, job'[i].state, job'[i].attempt, received'[i])
    OBVIOUS
  <2>1. CASE UNCHANGED <<job, run, received>>
    BY <2>1, <2>a
  <2>2. CASE InsertBatch \/ InsertBatchFails
    <3>1. fanout.event # NoEvent /\ UNCHANGED <<run, received>>
      BY <2>2 DEF InsertBatch, InsertBatchFails, history
    <3>2. \A i \in Jobs : \/ job'[i] = job[i]
                          \/ job'[i] = [state |-> "available", attempt |-> 0]
                             /\ job[i].state = "none"
      BY <2>2, InsertsOnlyNew DEF InsertBatch, InsertBatchFails
    <3>3. QED
      BY <2>a, <2>b, <3>1, <3>2
  <2>3. CASE Crash
    BY <2>a, <2>b, <2>3 DEF Crash, history, Free
  <2>4. ASSUME NEW j \in Jobs, River(j)
        PROVE  \A i \in Jobs :
                   Tracked(run'[i].at, job'[i].state, job'[i].attempt, received'[i])
    <3>1. CASE FetchJob(j)
      BY <2>a, <2>b, <3>1 DEF FetchJob
    <3>2. CASE StoreResult(j)
      BY <2>a, <2>b, <3>2 DEF StoreResult, StateAfterError, Free, history
    <3>3. CASE RetryJob(j)
      BY <2>a, <2>b, <3>3 DEF RetryJob, history
    <3>4. CASE RescueJob(j)
      BY <2>a, <2>b, <3>4 DEF RescueJob, StateAfterError, history
    <3>5. QED
      BY <2>4, <3>1, <3>2, <3>3, <3>4 DEF River
  <2>5. ASSUME NEW j \in Jobs, Work(j)
        PROVE  \A i \in Jobs :
                   Tracked(run'[i].at, job'[i].state, job'[i].attempt, received'[i])
    <3>1. UNCHANGED job /\ run[j].at # "free"
      BY <2>5 DEF Work, LoadWebhook, WebhookNotFound, LoadFails, PostAccepted,
         PostGone, PostFails, Post, DisableGone, DisableFailing, DisableFails
    <3>2. \A i \in Jobs : i # j => run'[i] = run[i] /\ received'[i] = received[i]
      BY <2>b, <2>5 DEF Work, LoadWebhook, WebhookNotFound, LoadFails, PostAccepted,
         PostGone, PostFails, Post, DisableGone, DisableFailing, DisableFails,
         At, history
    <3>3. \/ run[j].at = "fetched" /\ received'[j] = received[j]
          \/ /\ run[j].at = "loaded" /\ run'[j].at \notin {"fetched", "loaded"}
             /\ received'[j] \in {received[j], received[j] + 1}
          \/ run'[j].at \notin {"fetched", "loaded"} /\ received'[j] = received[j]
      BY <2>b, <2>5 DEF Work, LoadWebhook, WebhookNotFound, LoadFails, PostAccepted,
         PostGone, PostFails, Post, DisableGone, DisableFailing, DisableFails,
         At, AfterFailure, history
    <3>4. run[j].at # "free" /\ received[j] \in Nat /\ job[j].attempt \in Nat
      BY <2>b, <3>1
    <3>5. Tracked(run'[j].at, job'[j].state, job'[j].attempt, received'[j])
      BY <2>a, <3>1, <3>3, <3>4
    <3>6. QED
      BY <2>a, <3>1, <3>2, <3>5
  <2>6. QED
    BY <2>1, <2>2, <2>3, <2>4, <2>5
       DEF Next, FanOut, StartFanOut, ListFails, UpdateWebhook, DeleteWebhook, OnRow,
           fanoutVars, history, vars
<1>3. QED
  BY <1>1, <1>2
-----------------------------------------------------------------------------
Tracking == Shapes /\ FanOutTracked /\ JobsTracked

\* The three parts of Tracking rest on one another, and hold together.
LEMMA TrackingInvariant == Spec => []Tracking
<1>1. Init => Tracking
  BY ShapesInductive, FanOutInductive, JobsInductive DEF Tracking
<1>2. Tracking /\ [Next]_vars => Tracking'
  BY ShapesInductive, FanOutInductive, JobsInductive DEF Tracking
<1>3. QED
  BY <1>1, <1>2, PTL DEF Spec

\* Variables keep their types, and no job counts more attempts or POSTs than
\* WEBHOOK_DELIVERY_MAX_ATTEMPTS.
THEOREM DispatchTypes == Spec => []TypeOK
<1>1. Tracking => TypeOK
  BY DispatchAssumption DEF Tracking, Shapes, JobsTracked, PostsBounded, TypeOK
<1>2. QED
  BY <1>1, TrackingInvariant, PTL

\* However retries, rescues and crashes interleave, one event is POSTed to one
\* webhook no more often than the job has attempts.
THEOREM PostsStayBounded == Spec => []PostsBounded
<1>1. Tracking => PostsBounded
  BY DEF Tracking, JobsTracked
<1>2. QED
  BY <1>1, TrackingInvariant, PTL
-----------------------------------------------------------------------------
\* What an admin request can write: an enabled row has its reason cleared, or
\* keeps both its flag and its reason.
LEMMA EditedRow ==
    ASSUME Shapes, NEW w \in Webhooks, UpdateWebhook(w) \/ DeleteWebhook(w)
    PROVE  /\ \A v \in Webhooks : v # w => row'[v] = row[v]
           /\ \/ ~row'[w].enabled
              \/ row'[w].reason = "none"
              \/ row'[w].enabled = row[w].enabled /\ row'[w].reason = row[w].reason
           /\ changed' = changed \cup Touched(w) /\ UNCHANGED <<run, job, acked>>
           /\ edits' > 0
<1>0. row \in [Webhooks -> Row] /\ row[w] \in Row /\ edits \in Nat
  BY DispatchAssumption DEF Shapes
<1>1. CASE UpdateWebhook(w)
  <2>1. PICK u \in Urls, s \in BOOLEAN :
          LET patched == [row EXCEPT ![w].url = u, ![w].subscribed = s]
          IN  \/ row' = patched
              \/ row' = [patched EXCEPT ![w].enabled = TRUE, ![w].reason = "none"]
              \/ row' = [patched EXCEPT ![w].enabled = FALSE]
    BY <1>1 DEF UpdateWebhook, PatchRow
  <2>2. QED
    BY <1>0, <1>1, <2>1 DEF UpdateWebhook, OnRow, Edit, Row, fanoutVars
<1>2. CASE DeleteWebhook(w)
  BY <1>0, <1>2 DEF DeleteWebhook, DeleteRow, OnRow, Edit, Row, fanoutVars
<1>3. QED
  BY <1>1, <1>2

\* The rows change only with an admin request or when a worker disables one.
LEMMA RowsKept ==
    ASSUME Tracking, [Next]_vars
    PROVE  \/ UNCHANGED row
           \/ \E w \in Webhooks : UpdateWebhook(w) \/ DeleteWebhook(w)
           \/ \E j \in Jobs : DisableGone(j) \/ DisableFailing(j)
  BY DEF Next, FanOut, Work, River, StartFanOut, ListFails, InsertBatch,
     InsertBatchFails, Crash, LoadWebhook, WebhookNotFound, LoadFails, PostAccepted,
     PostGone, PostFails, Post, DisableFails, FetchJob, StoreResult, RetryJob,
     RescueJob, vars

\* The reason a webhook was disabled for never outlives its being disabled,
\* whichever of the workers and the admin's requests comes last.
THEOREM ReasonsInvariant == Spec => []ReasonOnlyWhenDisabled
<1>1. Init => ReasonOnlyWhenDisabled
  BY DEF Init, FreshRow, ReasonOnlyWhenDisabled
<1>2. Tracking /\ ReasonOnlyWhenDisabled /\ [Next]_vars => ReasonOnlyWhenDisabled'
  <2> SUFFICES ASSUME Tracking, ReasonOnlyWhenDisabled, [Next]_vars
               PROVE  ReasonOnlyWhenDisabled'
    OBVIOUS
  <2> USE DEF ReasonOnlyWhenDisabled
  <2>0. Shapes
    BY DEF Tracking
  <2>1. CASE UNCHANGED row
    BY <2>1
  <2>2. ASSUME NEW w \in Webhooks, UpdateWebhook(w) \/ DeleteWebhook(w)
        PROVE  ReasonOnlyWhenDisabled'
    BY <2>0, <2>2, EditedRow
  <2>3. ASSUME NEW j \in Jobs, DisableGone(j) \/ DisableFailing(j)
        PROVE  ReasonOnlyWhenDisabled'
    <3>1. PICK reason \in {"gone", "attempts"} : row' = Disabled(j[2], reason)
      BY <2>3 DEF DisableGone, DisableFailing
    <3>2. QED
      BY <2>0, <3>1, DisabledIsRow
  <2>4. QED
    BY <2>1, <2>2, <2>3, RowsKept
<1>3. QED
  BY <1>1, <1>2, TrackingInvariant, PTL DEF Spec
-----------------------------------------------------------------------------
\* The endpoint a worker is about to POST to is the one of the enabled row,
\* unless the row was written during this attempt.
THEOREM SnapshotInvariant == Spec => []SnapshotIsFresh
<1> USE DEF SnapshotIsFresh
<1>1. Init => SnapshotIsFresh
  BY DEF Init, NothingPublished, Free
<1>2. Tracking /\ SnapshotIsFresh /\ [Next]_vars => SnapshotIsFresh'
  <2> SUFFICES ASSUME Tracking, SnapshotIsFresh, [Next]_vars PROVE SnapshotIsFresh'
    OBVIOUS
  <2>0. /\ Shapes /\ row \in [Webhooks -> Row]
        /\ run \in [Jobs -> [at : RunStates, url : Urls]]
        /\ \A j \in Jobs : j[2] \in Webhooks
    BY DEF Tracking, Shapes, Jobs
  <2>1. ASSUME NEW j \in Jobs, LoadWebhook(j) PROVE SnapshotIsFresh'
    BY <2>0, <2>1 DEF LoadWebhook, history
  <2>2. ASSUME NEW w \in Webhooks, UpdateWebhook(w) \/ DeleteWebhook(w)
        PROVE  SnapshotIsFresh'
    <3>1. \A i \in Jobs : run[i].at = "loaded" /\ i \notin changed' => i[2] # w
      BY <2>0, <2>2, EditedRow DEF Touched
    <3>2. QED
      BY <2>0, <2>2, <3>1, EditedRow
  <2>3. ASSUME NEW j \in Jobs, DisableGone(j) \/ DisableFailing(j)
        PROVE  SnapshotIsFresh'
    <3>1. PICK reason \in {"gone", "attempts"} : row' = Disabled(j[2], reason)
      BY <2>3 DEF DisableGone, DisableFailing
    <3>2. changed' = changed \cup Touched(j[2])
      BY <2>3 DEF DisableGone, DisableFailing
    <3>3. \A i \in Jobs : run'[i].at = "loaded" => run'[i] = run[i]
      BY <2>0, <2>3 DEF DisableGone, DisableFailing, At, AfterFailure
    <3>4. \A i \in Jobs : run[i].at = "loaded" /\ i \notin changed' => i[2] # j[2]
      BY <3>2 DEF Touched
    <3>5. QED
      BY <2>0, <3>1, <3>2, <3>3, <3>4, DisabledIsRow
  <2>4. ASSUME UNCHANGED row,
               \A i \in Jobs : run'[i].at = "loaded" =>
                   run'[i] = run[i] /\ (i \in changed => i \in changed')
        PROVE  SnapshotIsFresh'
    BY <2>0, <2>4
  <2>5. ASSUME NEW j \in Jobs, Work(j)
        PROVE  SnapshotIsFresh'
    <3>1. CASE WebhookNotFound(j) \/ LoadFails(j) \/ DisableFails(j)
      BY <2>0, <2>4, <3>1
         DEF WebhookNotFound, LoadFails, DisableFails, At, AfterFailure, history
    <3>2. CASE PostAccepted(j) \/ PostGone(j) \/ PostFails(j)
      BY <2>0, <2>4, <3>2
         DEF PostAccepted, PostGone, PostFails, Post, At, AfterFailure
    <3>3. QED
      BY <2>1, <2>3, <2>5, <3>1, <3>2 DEF Work
  <2>6. ASSUME NEW j \in Jobs, River(j)
        PROVE  SnapshotIsFresh'
    BY <2>0, <2>4, <2>6
       DEF River, FetchJob, StoreResult, RetryJob, RescueJob, Free, history
  <2>7. CASE FanOut \/ Crash
    BY <2>0, <2>4, <2>7 DEF FanOut, StartFanOut, ListFails, InsertBatch,
       InsertBatchFails, Crash, Free, history
  <2>8. QED
    BY <2>2, <2>4, <2>5, <2>6, <2>7 DEF Next, vars
<1>3. QED
  BY <1>1, <1>2, TrackingInvariant, PTL DEF Spec
-----------------------------------------------------------------------------
\* While nothing fails and nobody edits, the step to the end of a job is taken
\* only with the reason the outcome asks for.
LEMMA EndsInductive ==
    /\ Init => EndsTruthfully /\ OutcomeMatchesEndpoint
    /\ Tracking /\ EndsTruthfully /\ OutcomeMatchesEndpoint /\ [Next]_vars
           => EndsTruthfully' /\ OutcomeMatchesEndpoint'
<1> USE DispatchAssumption DEF EndsTruthfully, OutcomeMatchesEndpoint, IsLastAttempt
<1>1. Init => EndsTruthfully /\ OutcomeMatchesEndpoint
  BY DEF Init, NothingPublished, FreshRow, Free
<1>2. Tracking /\ EndsTruthfully /\ OutcomeMatchesEndpoint /\ [Next]_vars
          => EndsTruthfully' /\ OutcomeMatchesEndpoint'
  <2> SUFFICES ASSUME Tracking, EndsTruthfully, OutcomeMatchesEndpoint, [Next]_vars,
                      faults' = 0, edits' = 0
               PROVE  EndsTruthfully' /\ OutcomeMatchesEndpoint'
    OBVIOUS
  <2> DEFINE Truthful(at, state, last, taken, disabled) ==
                 /\ state = "running" => at # "free"
                 /\ at = "ok" => taken \/ disabled
                 /\ at = "error" /\ last => disabled
                 /\ state = "completed" => taken \/ disabled
                 /\ state = "discarded" => disabled
             Now(i) == Truthful(run[i].at, job[i].state, IsLastAttempt(i),
                                i \in acked, ~row[i[2]].enabled)
             Then(i) == Truthful(run'[i].at, job'[i].state, IsLastAttempt(i)',
                                 i \in acked', ~row'[i[2]].enabled)
  <2>a. /\ Shapes /\ row \in [Webhooks -> Row]
        /\ run \in [Jobs -> [at : RunStates, url : Urls]]
        /\ job \in [Jobs -> [state : JobStates, attempt : Nat]]
        /\ \A j \in Jobs : j[2] \in Webhooks
        /\ faults \in Nat /\ edits \in Nat
        /\ \A j \in Jobs : run[j].at # "free" => job[j].state = "running"
    BY DEF Tracking, Shapes, JobsTracked, Jobs
  <2>b. faults = 0 /\ edits = 0
    <3>1. faults' >= faults /\ edits' >= edits
      BY <2>a DEF Next, FanOut, Work, River, StartFanOut, ListFails, InsertBatch,
         InsertBatchFails, Crash, LoadWebhook, WebhookNotFound, LoadFails,
         PostAccepted, PostGone, PostFails, Post, DisableGone, DisableFailing,
         DisableFails, FetchJob, StoreResult, RetryJob, RescueJob, UpdateWebhook,
         DeleteWebhook, OnRow, Edit, Fault, vars
    <3>2. QED
      BY <2>a, <3>1
  <2>c. (\A w \in Webhooks : row[w].exists) /\ \A i \in Jobs : Now(i)
    BY <2>b
  <2>d. SUFFICES (\A w \in Webhooks : row'[w].exists) /\ \A i \in Jobs : Then(i)
    OBVIOUS
  <2>1. ASSUME NEW e \in Events, StartFanOut(e)
        PROVE  UNCHANGED <<row, job, run, acked>>
    BY <2>1 DEF StartFanOut, history
  <2>2. CASE InsertBatch
    <3>1. fanout.event # NoEvent /\ UNCHANGED <<row, run, acked>>
      BY <2>2 DEF InsertBatch, history
    <3>2. \A i \in Jobs : \/ job'[i] = job[i]
                          \/ job'[i] = [state |-> "available", attempt |-> 0]
                             /\ job[i].state = "none"
      BY <2>2, InsertsOnlyNew DEF InsertBatch, Tracking
    <3>3. QED
      BY <2>a, <2>c, <3>1, <3>2
  <2>3. ASSUME NEW j \in Jobs, River(j)
        PROVE  UNCHANGED <<row, acked>> /\ \A i \in Jobs : Then(i)
    <3>1. UNCHANGED <<row, acked>>
      BY <2>3 DEF River, FetchJob, StoreResult, RetryJob, RescueJob, history
    <3>2. \A i \in Jobs : i # j => run'[i] = run[i] /\ job'[i] = job[i]
      BY <2>a, <2>3 DEF River, FetchJob, StoreResult, RetryJob, RescueJob
    <3>3. Then(j)
      <4>0. Now(j)
        BY <2>c
      <4>1. CASE FetchJob(j)
        BY <2>a, <4>0, <4>1 DEF FetchJob
      <4>2. CASE StoreResult(j)
        BY <2>a, <4>0, <3>1, <4>2 DEF StoreResult, StateAfterError, Free
      <4>3. CASE RetryJob(j)
        BY <2>a, <4>0, <3>1, <4>3 DEF RetryJob
      <4>4. CASE RescueJob(j)
        BY <4>0, <4>4 DEF RescueJob
      <4>5. QED
        BY <2>3, <4>1, <4>2, <4>3, <4>4 DEF River
    <3>4. QED
      BY <2>c, <3>1, <3>2, <3>3
  <2>4. ASSUME NEW j \in Jobs, Work(j)
        PROVE  (\A w \in Webhooks : row'[w].exists) /\ \A i \in Jobs : Then(i)
    <3>1. UNCHANGED job /\ acked \subseteq acked' /\ job[j].state = "running"
          /\ \A i \in Jobs : IsLastAttempt(i)' <=> IsLastAttempt(i)
      BY <2>a, <2>4 DEF Work, LoadWebhook, WebhookNotFound, LoadFails, PostAccepted,
         PostGone, PostFails, Post, DisableGone, DisableFailing, DisableFails,
         history
    <3>2. \A i \in Jobs : i # j => run'[i] = run[i]
      BY <2>a, <2>4 DEF Work, LoadWebhook, WebhookNotFound, LoadFails, PostAccepted,
         PostGone, PostFails, Post, DisableGone, DisableFailing, DisableFails, At
    <3>3. \A w \in Webhooks :
              row'[w].exists /\ (~row[w].enabled => ~row'[w].enabled)
      <4>1. CASE UNCHANGED row
        BY <2>c, <4>1
      <4>2. CASE DisableGone(j) \/ DisableFailing(j)
        <5>1. PICK reason \in {"gone", "attempts"} : row' = Disabled(j[2], reason)
          BY <4>2 DEF DisableGone, DisableFailing
        <5>2. QED
          BY <2>a, <2>c, <5>1, DisabledIsRow
      <4>3. QED
        BY <2>4, <4>1, <4>2 DEF Work, LoadWebhook, WebhookNotFound, LoadFails,
           PostAccepted, PostGone, PostFails, Post, DisableFails
    <3>4. run'[j].at # "free" /\ (run'[j].at = "ok" => j \in acked' \/ ~row'[j[2]].enabled)
      <4>1. CASE LoadWebhook(j)
        BY <2>a, <4>1 DEF LoadWebhook
      <4>2. CASE WebhookNotFound(j) \/ LoadFails(j) \/ DisableFails(j)
        <5>1. row[j[2]].exists
          BY <2>a, <2>c
        <5>2. ~Fault
          BY <2>b DEF Fault
        <5>3. QED
          BY <2>a, <4>2, <5>1, <5>2 DEF At, AfterFailure, WebhookNotFound, LoadFails, DisableFails
      <4>3. CASE PostAccepted(j) \/ PostGone(j) \/ PostFails(j)
        BY <2>a, <4>3 DEF PostAccepted, PostGone, PostFails, At, AfterFailure
      <4>4. CASE DisableGone(j) \/ DisableFailing(j)
        BY <2>a, <4>4 DEF DisableGone, DisableFailing, At, AfterFailure
      <4>5. QED
        BY <2>4, <4>1, <4>2, <4>3, <4>4 DEF Work
    <3>5. run'[j].at = "error" /\ IsLastAttempt(j) => ~row'[j[2]].enabled
      <4>1. CASE LoadWebhook(j) \/ WebhookNotFound(j)
        BY <2>a, <4>1 DEF LoadWebhook, WebhookNotFound, At
      <4>2. CASE LoadFails(j) \/ DisableFails(j)
        BY <2>a, <2>b, <4>2 DEF LoadFails, DisableFails, Fault
      <4>3. CASE PostAccepted(j) \/ PostGone(j) \/ PostFails(j)
        BY <2>a, <4>3 DEF PostAccepted, PostGone, PostFails, At, AfterFailure
      <4>4. CASE DisableGone(j)
        BY <2>a, <4>4 DEF DisableGone, At, AfterFailure
      <4>5. CASE DisableFailing(j)
        BY <2>a, <2>c, <4>5, DisabledIsRow DEF DisableFailing
      <4>6. QED
        BY <2>4, <4>1, <4>2, <4>3, <4>4, <4>5 DEF Work
    <3>6. ASSUME NEW i \in Jobs PROVE Then(i)
      <4>1. CASE i = j
        BY <2>a, <3>1, <3>4, <3>5, <4>1
      <4>2. CASE i # j
        BY <2>a, <2>c, <3>1, <3>2, <3>3, <4>2
      <4>3. QED
        BY <4>1, <4>2
    <3>7. QED
      BY <3>3, <3>6
  <2>5. CASE UNCHANGED <<row, job, run, acked>>
    BY <2>c, <2>5
  <2>6. ASSUME NEW w \in Webhooks, UpdateWebhook(w) \/ DeleteWebhook(w)
        PROVE  FALSE
    BY <2>a, <2>6 DEF UpdateWebhook, DeleteWebhook, Edit
  <2>7. ~Crash /\ ~InsertBatchFails /\ \A e \in Events : ~ListFails(e)
    BY <2>a DEF Crash, InsertBatchFails, ListFails, Fault
  <2>8. QED
    BY <2>c, <2>1, <2>2, <2>3, <2>4, <2>5, <2>6, <2>7 DEF Next, FanOut, vars
<1>3. QED
  BY <1>1, <1>2

\* Without faults and edits a completed job was acknowledged or its endpoint
\* is disabled, and a discarded one left a disabled endpoint: the worker's idea
\* of the last attempt and River's agree, for any number of attempts.
THEOREM OutcomesInvariant == Spec => []OutcomeMatchesEndpoint
  BY EndsInductive, TrackingInvariant, PTL DEF Spec
-----------------------------------------------------------------------------
\* Whatever fails, the jobs of an event are those of the first webhooks of the
\* listing; without a fault, of all of them.
THEOREM FanOutInvariant == Spec => []FanOutIsPrefix
<1> USE DEF FanOutIsPrefix
<1>1. Init => FanOutIsPrefix
  BY DEF Init, NothingPublished, Jobs
<1>2. Tracking /\ Tracking' /\ FanOutIsPrefix /\ [Next]_vars => FanOutIsPrefix'
  <2> SUFFICES ASSUME Tracking, Tracking', FanOutIsPrefix, [Next]_vars
               PROVE  FanOutIsPrefix'
    OBVIOUS
  <2> DEFINE Enqueued(e) == {w \in Webhooks : job[<<e, w>>].state # "none"}
             Left(e) == IF fanout.event = e THEN fanout.rest ELSE {}
  <2>a. /\ Shapes /\ FanOutTracked /\ Shapes' /\ FanOutTracked' /\ faults \in Nat
        /\ \A e \in Events : listed[e] \subseteq Webhooks
    BY DispatchAssumption DEF Tracking, Shapes
  <2>1. ASSUME \A i \in Jobs : job'[i].state = "none" <=> job[i].state = "none",
               UNCHANGED <<listed, fanout>> \/ (UNCHANGED listed /\ faults' # 0),
               faults' = 0 => faults = 0
        PROVE  FanOutIsPrefix'
    <3>1. \A e \in Events : Enqueued(e)' = Enqueued(e)
      BY <2>1 DEF Jobs
    <3>2. QED
      BY <2>1, <3>1
  <2>2. ASSUME NEW e \in Events, StartFanOut(e) PROVE FanOutIsPrefix'
    <3>1. \A d \in Events : Enqueued(d)' = Enqueued(d)
      BY <2>2 DEF StartFanOut
    <3>2. Enqueued(e) = {}
      BY <2>a, <2>2 DEF StartFanOut, FanOutTracked
    <3>3. \A d \in Events \ {e} : listed'[d] = listed[d] /\ Left(d)' = Left(d)
      <4>1. listed' = [listed EXCEPT ![e] = ListEnabledForEventType]
            /\ listed \in [Events -> SUBSET Webhooks]
        BY <2>a, <2>2 DEF StartFanOut, Shapes
      <4>2. fanout.event = NoEvent /\ fanout'.event \in {NoEvent, e}
        BY <2>2 DEF StartFanOut
      <4>3. QED
        BY <4>1, <4>2, DispatchAssumption
    <3>4. listed'[e] = Left(e)'
      <4>1. listed'[e] = ListEnabledForEventType
        BY <2>a, <2>2 DEF StartFanOut, Shapes
      <4>2. CASE ListEnabledForEventType = {}
        BY <2>2, <4>1, <4>2, DispatchAssumption DEF StartFanOut
      <4>3. CASE ListEnabledForEventType # {}
        BY <2>2, <4>1, <4>3 DEF StartFanOut
      <4>4. QED
        BY <4>2, <4>3
    <3>5. faults' = faults
      BY <2>2 DEF StartFanOut
    <3>6. ASSUME NEW d \in Events
          PROVE  /\ Enqueued(d)' \subseteq listed'[d]
                 /\ \A w \in Enqueued(d)', v \in listed'[d] :
                        v < w => v \in Enqueued(d)'
                 /\ faults' = 0 => Enqueued(d)' = listed'[d] \ Left(d)'
      <4> HIDE DEF Enqueued, Left
      <4>1. CASE d = e
        BY <3>1, <3>2, <3>4, <4>1
      <4>2. CASE d # e
        <5>1. /\ Enqueued(d) \subseteq listed[d]
              /\ \A w \in Enqueued(d), v \in listed[d] : v < w => v \in Enqueued(d)
              /\ faults = 0 => Enqueued(d) = listed[d] \ Left(d)
          BY DEF Enqueued, Left
        <5>2. QED
          BY <3>1, <3>3, <3>5, <4>2, <5>1
      <4>3. QED
        BY <4>1, <4>2
    <3>7. QED
      BY <3>6
  <2>3. CASE InsertBatch \/ InsertBatchFails
    <3> DEFINE batch == Batch(fanout.rest)
    <3>0. PICK e0 \in Events : fanout.event = e0
      BY <2>a, <2>3 DEF InsertBatch, InsertBatchFails, Shapes
    <3>1. /\ e0 \in Events /\ e0 # NoEvent
          /\ fanout.rest \in SUBSET Webhooks /\ fanout.rest \subseteq listed[e0]
          /\ listed[e0] \subseteq Webhooks /\ UNCHANGED listed
          /\ \A w \in listed[e0] : job[<<e0, w>>].state = "none" <=> w \in fanout.rest
          /\ \A w \in listed[e0], v \in fanout.rest : w \notin fanout.rest => w < v
      BY <2>a, <2>3, <3>0 DEF InsertBatch, InsertBatchFails, Shapes, FanOutTracked
    <3>2. batch \subseteq fanout.rest /\ \A w \in batch, v \in fanout.rest \ batch : w < v
      BY <3>1, BatchIsFirst
    <3>3. Enqueued(e0) = listed[e0] \ fanout.rest
      BY <3>1
    <3>4. ASSUME NEW d \in Events
          PROVE  /\ Enqueued(d) \subseteq listed[d]
                 /\ \A w \in Enqueued(d), v \in listed[d] : v < w => v \in Enqueued(d)
                 /\ faults = 0 => Enqueued(d) = listed[d] \ Left(d)
      OBVIOUS
    <3>5. CASE job' = job /\ faults' # 0
      <4>1. \A d \in Events : Enqueued(d)' = Enqueued(d)
        BY <3>5
      <4>2. QED
        BY <3>1, <3>4, <3>5, <4>1
    <3>6. CASE job' = Inserted(e0, batch) /\ (InsertBatch \/ faults' # 0)
      <4>1. \A d \in Events : Enqueued(d)' =
                IF d = e0 THEN Enqueued(d) \cup batch ELSE Enqueued(d)
        <5>1. ASSUME NEW d \in Events, NEW w \in Webhooks
              PROVE  job'[<<d, w>>].state # "none" <=>
                         job[<<d, w>>].state # "none" \/ (d = e0 /\ w \in batch)
          <6>1. <<d, w>> \in Jobs /\ <<d, w>>[1] = d /\ <<d, w>>[2] = w
            BY DEF Jobs
          <6>2. QED
            BY <2>a, <3>0, <3>1, <3>6, <6>1, InsertsOnlyNew
        <5>2. QED
          BY <3>1, <3>2, <5>1
      <4>2. Enqueued(e0)' = listed[e0] \ (fanout.rest \ batch)
        <5> HIDE DEF Enqueued, batch
        <5>1. Enqueued(e0)' = Enqueued(e0) \cup batch
          BY <3>1, <4>1
        <5>2. QED
          BY <3>1, <3>2, <3>3, <5>1
      <4>3. \A w \in Enqueued(e0)', v \in listed[e0] : v < w => v \in Enqueued(e0)'
        <5> HIDE DEF Enqueued
        <5>1. SUFFICES ASSUME NEW w \in listed[e0] \ (fanout.rest \ batch),
                              NEW v \in fanout.rest \ batch
                       PROVE  w < v /\ w \in Nat /\ v \in Nat
          BY <4>2
        <5>2. QED
          BY <3>1, <3>2, DispatchAssumption
      <4>4. InsertBatch => \A d \in Events : Left(d)' =
                IF d = e0 THEN fanout.rest \ batch ELSE Left(d)
        <5>1. SUFFICES ASSUME InsertBatch, NEW d \in Events
                       PROVE  Left(d)' = IF d = e0 THEN fanout.rest \ batch
                                         ELSE Left(d)
          OBVIOUS
        <5>2. /\ fanout'.event = IF fanout.rest \ batch = {} THEN NoEvent ELSE e0
              /\ fanout'.rest = fanout.rest \ batch
          BY <3>0, <5>1 DEF InsertBatch
        <5>3. d # NoEvent
          BY DispatchAssumption
        <5>4. QED
          BY <3>0, <5>2, <5>3
      <4>5. InsertBatch => faults' = faults
        BY DEF InsertBatch
      <4>6. ASSUME NEW d \in Events
            PROVE  /\ Enqueued(d)' \subseteq listed'[d]
                   /\ \A w \in Enqueued(d)', v \in listed'[d] :
                          v < w => v \in Enqueued(d)'
                   /\ faults' = 0 => Enqueued(d)' = listed'[d] \ Left(d)'
        <5> HIDE DEF Enqueued, Left
        <5>1. CASE d = e0
          <6>1. listed' = listed /\ listed[e0] \ (fanout.rest \ batch) \subseteq listed[e0]
            BY <3>1
          <6>2. faults' = 0 => Left(e0)' = fanout.rest \ batch
            BY <3>1, <3>6, <4>4
          <6>3. QED
            BY <4>2, <4>3, <5>1, <6>1, <6>2
        <5>2. CASE d # e0
          BY <3>1, <3>4, <3>6, <4>1, <4>4, <4>5, <5>2
        <5>3. QED
          BY <5>1, <5>2
      <4>7. QED
        BY <4>6
    <3>7. QED
      <4>1. InsertBatchFails => faults' # 0
        BY <2>a DEF InsertBatchFails, Fault
      <4>2. QED
        BY <2>3, <3>0, <3>5, <3>6, <4>1 DEF InsertBatch, InsertBatchFails
  <2>4. ASSUME NEW e \in Events, ListFails(e) PROVE FanOutIsPrefix'
    BY <2>a, <2>1, <2>4 DEF ListFails, Fault
  <2>5. ASSUME NEW j \in Jobs, Work(j) \/ River(j) PROVE FanOutIsPrefix'
    BY <2>1, <2>5, OnlyFanOutInserts DEF Tracking, fanoutVars
  <2>6. CASE Crash
    BY <2>a, <2>1, <2>6 DEF Crash, Fault
  <2>7. ASSUME NEW w \in Webhooks, UpdateWebhook(w) \/ DeleteWebhook(w)
        PROVE  FanOutIsPrefix'
    BY <2>1, <2>7 DEF UpdateWebhook, DeleteWebhook, OnRow, fanoutVars
  <2>8. CASE UNCHANGED vars
    BY <2>1, <2>8 DEF vars
  <2>9. QED
    BY <2>2, <2>3, <2>4, <2>5, <2>6, <2>7, <2>8 DEF Next, FanOut
<1>3. QED
  BY <1>1, <1>2, TrackingInvariant, PTL DEF Spec
=============================================================================
