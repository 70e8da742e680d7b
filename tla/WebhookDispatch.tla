--------------------------- MODULE WebhookDispatch ---------------------------
(***************************************************************************)
(* Webhook delivery: the fan-out of an event to one River job per enabled  *)
(* webhook (internal/service/webhook_provider.go), the worker that loads   *)
(* the webhook, POSTs once and disables an endpoint that is gone or keeps  *)
(* failing (internal/workers/webhook_dispatch.go,                          *)
(* internal/service/webhook_sender.go), the rows both of them and the      *)
(* admin API change (internal/repository/webhooks_repository.go), and the  *)
(* part of River they rely on: attempts, retries, rescue after a crash.    *)
(* All events have one type; a row says whether it subscribes to it.       *)
(***************************************************************************)
EXTENDS Naturals, FiniteSets

CONSTANTS
    Webhooks,     \* webhook ids, numbers: the fan-out goes ORDER BY id
    Events,       \* the events given to the provider
    Urls,         \* endpoints a webhook can point to
    InitialUrl,   \* the endpoint every webhook starts with
    NoEvent,      \* the provider is not in PublishEvent
    MaxAttempts,  \* WEBHOOK_DELIVERY_MAX_ATTEMPTS
    MaxFanOut,    \* WEBHOOK_MAX_FAN_OUT_PER_EVENT, the batch size
    MaxEdits,     \* bound: admin requests
    MaxFaults     \* bound: failed database calls and crashes

ASSUME DispatchAssumption ==
    /\ Webhooks \subseteq Nat /\ IsFiniteSet(Webhooks)
    /\ InitialUrl \in Urls
    /\ NoEvent \notin Events
    /\ MaxAttempts \in Nat \ {0} /\ MaxFanOut \in Nat \ {0}
    /\ MaxEdits \in Nat /\ MaxFaults \in Nat

VARIABLES
    row,       \* row[w]: the webhooks table
    listed,    \* listed[e]: what ListEnabledForEventType returned for e
    handled,   \* the events PublishEvent was called with
    fanout,    \* the call in progress: its event and the webhooks left
    job,       \* job[<<e, w>>]: the River row of the delivery
    run,       \* run[<<e, w>>]: where the goroutine working it is
    received,  \* history: POSTs of the job that reached an endpoint
    acked,     \* history: the jobs whose POST was answered 2xx
    changed,   \* history: jobs whose webhook changed since they were fetched
    edits, faults

vars == <<row, listed, handled, fanout, job, run, received, acked, changed,
          edits, faults>>
fanoutVars == <<listed, handled, fanout>>
history == <<received, acked, changed>>

Jobs == Events \X Webhooks

\* exists is FALSE once the row was deleted
Row == [exists : BOOLEAN, url : Urls, enabled : BOOLEAN, subscribed : BOOLEAN,
        reason : {"none", "gone", "attempts"}]

JobStates == {"none", "available", "running", "retryable", "completed",
              "discarded"}
\* "free" nobody works the job; "fetched" Work was entered; "loaded" the
\* webhook was read and is enabled; "gone" the answer was 410, "failing" the
\* last attempt failed, both with the row still to be updated; "ok" and
\* "error" Work returned, River has not stored it yet
RunStates == {"free", "fetched", "loaded", "gone", "failing", "ok", "error"}
Free == [at |-> "free", url |-> InitialUrl]

\* What a webhook can look like that no worker has disabled.
FreshRow == {r \in Row : r.exists /\ r.url = InitialUrl /\ r.reason = "none"}

NothingPublished ==
    /\ listed = [e \in Events |-> {}]
    /\ handled = {}
    /\ fanout = [event |-> NoEvent, rest |-> {}]
    /\ job = [j \in Jobs |-> [state |-> "none", attempt |-> 0]]
    /\ run = [j \in Jobs |-> Free]
    /\ received = [j \in Jobs |-> 0]
    /\ acked = {} /\ changed = {}
    /\ edits = 0 /\ faults = 0

Init == row \in [Webhooks -> FreshRow] /\ NothingPublished

Fault == faults < MaxFaults /\ faults' = faults + 1

-----------------------------------------------------------------------------
(* The provider, called by the publisher's worker for one event at a time. *)

\* Mutant of ListEnabledForEventType: deleted rows are still listed.
ListDeletedToo == {w \in Webhooks : row[w].enabled /\ row[w].subscribed}

\* enabled = true AND the row listens to the event type
ListEnabledForEventType ==
    {w \in Webhooks : row[w].exists /\ row[w].enabled /\ row[w].subscribed}

\* The first MaxFanOut of the webhooks left, ORDER BY id.
Batch(rest) == {w \in rest : Cardinality({v \in rest : v < w}) < MaxFanOut}

StartFanOut(e) ==
    /\ fanout.event = NoEvent
    /\ e \notin handled
    /\ handled' = handled \cup {e}
    /\ listed' = [listed EXCEPT ![e] = ListEnabledForEventType]
    /\ fanout' = IF ListEnabledForEventType = {} THEN fanout
                 ELSE [event |-> e, rest |-> ListEnabledForEventType]
    /\ UNCHANGED <<row, job, run, history, edits, faults>>

\* list_failed: the event is given up
ListFails(e) ==
    /\ fanout.event = NoEvent
    /\ e \notin handled
    /\ handled' = handled \cup {e}
    /\ Fault
    /\ UNCHANGED <<row, listed, fanout, job, run, history, edits>>

\* River inserts the jobs of one batch, in one statement.
Inserted(e, batch) ==
    [j \in Jobs |-> IF j[1] = e /\ j[2] \in batch
                    THEN [state |-> "available", attempt |-> 0]
                    ELSE job[j]]

InsertBatch ==
    LET batch == Batch(fanout.rest)
        left  == fanout.rest \ batch
    IN  /\ fanout.event # NoEvent
        /\ job' = Inserted(fanout.event, batch)
        /\ fanout' = [event |-> IF left = {} THEN NoEvent ELSE fanout.event,
                      rest |-> left]
        /\ UNCHANGED <<row, listed, handled, run, history, edits, faults>>

\* Mutant of InsertBatchFails: the loop goes on with the next batch.
SkipFailedBatch ==
    LET left == fanout.rest \ Batch(fanout.rest)
    IN  /\ fanout.event # NoEvent
        /\ Fault
        /\ fanout' = [event |-> IF left = {} THEN NoEvent ELSE fanout.event,
                      rest |-> left]
        /\ UNCHANGED <<row, listed, handled, job, run, history, edits>>

\* enqueue_failed: the batches before this one stay, the rest is never tried.
\* The error may hide a commit (the context ran out while waiting for it).
InsertBatchFails ==
    /\ fanout.event # NoEvent
    /\ Fault
    /\ job' \in {job, Inserted(fanout.event, Batch(fanout.rest))}
    /\ fanout' = [event |-> NoEvent, rest |-> {}]
    /\ UNCHANGED <<row, listed, handled, run, history, edits>>

-----------------------------------------------------------------------------
(* River: fetch, store the result, schedule the retry, rescue.             *)

FetchJob(j) ==
    /\ job[j].state = "available"
    /\ job' = [job EXCEPT ![j] = [state |-> "running", attempt |-> @.attempt + 1]]
    /\ run' = [run EXCEPT ![j] = [at |-> "fetched", url |-> InitialUrl]]
    /\ changed' = changed \ {j}
    /\ UNCHANGED <<row, fanoutVars, received, acked, edits, faults>>

StateAfterError(j) ==
    IF job[j].attempt < MaxAttempts THEN "retryable" ELSE "discarded"

StoreResult(j) ==
    /\ run[j].at \in {"ok", "error"}
    /\ job' = [job EXCEPT ![j].state =
                  IF run[j].at = "ok" THEN "completed" ELSE StateAfterError(j)]
    /\ run' = [run EXCEPT ![j] = Free]
    /\ UNCHANGED <<row, fanoutVars, history, edits, faults>>

RetryJob(j) ==
    /\ job[j].state = "retryable"
    /\ job' = [job EXCEPT ![j].state = "available"]
    /\ UNCHANGED <<row, fanoutVars, run, history, edits, faults>>

\* The process dies: what it was enqueueing and working on is forgotten.
Crash ==
    /\ Fault
    /\ run' = [j \in Jobs |-> Free]
    /\ fanout' = [event |-> NoEvent, rest |-> {}]
    /\ UNCHANGED <<row, listed, handled, job, history, edits>>

\* Mutant of RescueJob: a rescued job always runs again.
RescueForever(j) ==
    /\ job[j].state = "running"
    /\ run[j].at = "free"
    /\ job' = [job EXCEPT ![j].state = "retryable"]
    /\ UNCHANGED <<row, fanoutVars, run, history, edits, faults>>

\* Mutant of RescueJob: jobs left by a crash are never looked at.
NeverRescue(j) == FALSE /\ j \in Jobs /\ UNCHANGED vars

\* A job still "running" with nobody working it is made to run again, or
\* discarded when that was its last attempt.
RescueJob(j) ==
    /\ job[j].state = "running"
    /\ run[j].at = "free"
    /\ job' = [job EXCEPT ![j].state = StateAfterError(j)]
    /\ UNCHANGED <<row, fanoutVars, run, history, edits, faults>>

-----------------------------------------------------------------------------
(* WebhookDispatchWorker.Work                                              *)

At(j, at) == run' = [run EXCEPT ![j].at = at]

\* Mutant of LoadWebhook: the enabled flag of the row is not looked at.
LoadIgnoringDisabled(j) ==
    /\ run[j].at = "fetched"
    /\ row[j[2]].exists
    /\ run' = [run EXCEPT ![j] = [at |-> "loaded", url |-> row[j[2]].url]]
    /\ UNCHANGED <<row, fanoutVars, job, history, edits, faults>>

\* GetByID succeeds; a disabled webhook is skipped
LoadWebhook(j) ==
    LET w == row[j[2]] IN
    /\ run[j].at = "fetched"
    /\ w.exists
    /\ run' = [run EXCEPT ![j] = IF w.enabled
                                 THEN [at |-> "loaded", url |-> w.url]
                                 ELSE [at |-> "ok", url |-> InitialUrl]]
    /\ UNCHANGED <<row, fanoutVars, job, history, edits, faults>>

\* "return nil // no retry if webhook not found"
WebhookNotFound(j) ==
    /\ run[j].at = "fetched"
    /\ ~row[j[2]].exists
    /\ At(j, "ok")
    /\ UNCHANGED <<row, fanoutVars, job, history, edits, faults>>

\* The same return for every other error of GetByID.
LoadFails(j) ==
    /\ run[j].at = "fetched"
    /\ Fault
    /\ At(j, "ok")
    /\ UNCHANGED <<row, fanoutVars, job, history, edits>>

Post(j) ==
    /\ run[j].at = "loaded"
    /\ UNCHANGED <<row, fanoutVars, job, changed, edits, faults>>

PostAccepted(j) ==
    /\ Post(j)
    /\ received' = [received EXCEPT ![j] = @ + 1]
    /\ acked' = acked \cup {j}
    /\ At(j, "ok")

\* 410 Gone
PostGone(j) ==
    /\ Post(j)
    /\ received' = [received EXCEPT ![j] = @ + 1]
    /\ At(j, "gone")
    /\ UNCHANGED acked

\* Mutant of IsLastAttempt: off by one.
IsPastLastAttempt(j) == job[j].attempt > MaxAttempts

IsLastAttempt(j) == job[j].attempt >= MaxAttempts

AfterFailure(j) == IF IsLastAttempt(j) THEN "failing" ELSE "error"

\* Another status, no connection, or no answer in time: the endpoint may or
\* may not have taken the request.
PostFails(j) ==
    /\ Post(j)
    /\ received' \in {received, [received EXCEPT ![j] = @ + 1]}
    /\ At(j, AfterFailure(j))
    /\ UNCHANGED acked

\* repo.Update with enabled = false and a reason, by id alone: an UPDATE that
\* matches no row is only logged.
Disabled(w, reason) ==
    IF row[w].exists
    THEN [row EXCEPT ![w].enabled = FALSE, ![w].reason = reason]
    ELSE row

\* The row changed under every job of w that somebody works on.
Touched(w) == {j \in Jobs : j[2] = w /\ run[j].at # "free"}

\* Send: the endpoint said 410
DisableGone(j) ==
    /\ run[j].at = "gone"
    /\ row' = Disabled(j[2], "gone")
    /\ changed' = changed \cup Touched(j[2])
    /\ At(j, AfterFailure(j))
    /\ UNCHANGED <<fanoutVars, job, received, acked, edits, faults>>

\* Work: the last attempt failed
DisableFailing(j) ==
    /\ run[j].at = "failing"
    /\ row' = Disabled(j[2], "attempts")
    /\ changed' = changed \cup Touched(j[2])
    /\ At(j, "error")
    /\ UNCHANGED <<fanoutVars, job, received, acked, edits, faults>>

\* An Update that fails is logged, and the worker goes on.
DisableFails(j) ==
    /\ run[j].at \in {"gone", "failing"}
    /\ Fault
    /\ At(j, IF run[j].at = "gone" THEN AfterFailure(j) ELSE "error")
    /\ UNCHANGED <<row, fanoutVars, job, history, edits>>

-----------------------------------------------------------------------------
(* The admin API: one statement each. The event such a request then        *)
(* publishes reaches the provider like any other, as a member of Events.   *)

\* Mutant of PatchRow: re-enabling leaves the reason in the row.
PatchKeepingReason(w) ==
    \E u \in Urls, s, b \in BOOLEAN :
        row' = [row EXCEPT ![w].url = u, ![w].subscribed = s, ![w].enabled = b]

\* PATCH of the url, the event types and enabled, or of some of them (a field
\* left out keeps its value). Only enabled = true clears the reason.
PatchRow(w) ==
    \E u \in Urls, s \in BOOLEAN :
        LET patched == [row EXCEPT ![w].url = u, ![w].subscribed = s]
        IN  \/ row' = patched
            \/ row' = [patched EXCEPT ![w].enabled = TRUE, ![w].reason = "none"]
            \/ row' = [patched EXCEPT ![w].enabled = FALSE]

DeleteRow(w) == row' = [row EXCEPT ![w].exists = FALSE]

OnRow(w) ==
    /\ row[w].exists
    /\ changed' = changed \cup Touched(w)
    /\ UNCHANGED <<fanoutVars, job, run, received, acked, faults>>

Edit == edits < MaxEdits /\ edits' = edits + 1

UpdateWebhook(w) == Edit /\ OnRow(w) /\ PatchRow(w)

DeleteWebhook(w) == Edit /\ OnRow(w) /\ DeleteRow(w)

-----------------------------------------------------------------------------
FanOut ==
    \/ \E e \in Events : StartFanOut(e) \/ ListFails(e)
    \/ InsertBatch \/ InsertBatchFails

Work(j) ==
    \/ LoadWebhook(j) \/ WebhookNotFound(j) \/ LoadFails(j)
    \/ PostAccepted(j) \/ PostGone(j) \/ PostFails(j)
    \/ DisableGone(j) \/ DisableFailing(j) \/ DisableFails(j)

River(j) == FetchJob(j) \/ StoreResult(j) \/ RetryJob(j) \/ RescueJob(j)

Next ==
    \/ FanOut
    \/ \E j \in Jobs : Work(j) \/ River(j)
    \/ Crash
    \/ \E w \in Webhooks : UpdateWebhook(w) \/ DeleteWebhook(w)

Spec == Init /\ [][Next]_vars

System == FanOut \/ \E j \in Jobs : Work(j) \/ River(j)

\* The publisher's worker, River and the goroutines of the jobs (each of their
\* waits is bounded by the job timeout) do not all stop while one can go on.
FairSpec == Spec /\ WF_vars(System)

-----------------------------------------------------------------------------
TypeOK ==
    /\ row \in [Webhooks -> Row]
    /\ listed \in [Events -> SUBSET Webhooks]
    /\ handled \subseteq Events
    /\ fanout \in [event : Events \cup {NoEvent}, rest : SUBSET Webhooks]
    /\ job \in [Jobs -> [state : JobStates, attempt : 0..MaxAttempts]]
    /\ run \in [Jobs -> [at : RunStates, url : Urls]]
    /\ received \in [Jobs -> 0..MaxAttempts]
    /\ acked \subseteq Jobs /\ changed \subseteq Jobs
    /\ edits \in 0..MaxEdits /\ faults \in 0..MaxFaults

\* disabled_reason is "set by the system when the webhook was disabled" and
\* "cleared when the webhook is re-enabled" (openapi.yaml): no interleaving of
\* workers and admin requests leaves an enabled webhook with a reason.
ReasonOnlyWhenDisabled ==
    \A w \in Webhooks : row[w].reason # "none" => ~row[w].enabled

\* Retries, rescues and crashes together never POST one event to one webhook
\* more often than the attempts the job was inserted with.
PostsBounded ==
    \A j \in Jobs : received[j] + (IF run[j].at \in {"fetched", "loaded"} THEN 1 ELSE 0)
                        <= job[j].attempt /\ job[j].attempt <= MaxAttempts

\* The endpoint a worker is about to POST to is the webhook's own, and the
\* webhook is enabled, unless the row was written after this attempt began:
\* nothing older than the attempt (the fan-out, an earlier attempt) is used.
SnapshotIsFresh ==
    \A j \in Jobs : run[j].at = "loaded" /\ j \notin changed =>
        LET w == row[j[2]] IN w.exists /\ w.enabled /\ w.url = run[j].url

\* Without a fault and without an admin request the end of a job tells the
\* truth about its endpoint: "completed" only if it acknowledged the event or
\* a worker disabled the webhook, "discarded" only if the webhook is disabled.
\* The worker and River each decide by themselves which attempt is the last.
OutcomeMatchesEndpoint ==
    faults = 0 /\ edits = 0 => \A j \in Jobs :
        LET disabled == ~row[j[2]].enabled
        IN  /\ job[j].state = "completed" => j \in acked \/ disabled
            /\ job[j].state = "discarded" => disabled

\* Whatever fails, the jobs of an event are those of the webhooks that come
\* first in the listing; without a fault, of all of them.
FanOutIsPrefix ==
    \A e \in Events :
        LET enqueued == {w \in Webhooks : job[<<e, w>>].state # "none"}
            left == IF fanout.event = e THEN fanout.rest ELSE {}
        IN  /\ enqueued \subseteq listed[e]
            /\ \A w \in enqueued, v \in listed[e] : v < w => v \in enqueued
            /\ faults = 0 => enqueued = listed[e] \ left

\* A job that was enqueued ends, whatever is edited, fails or crashes.
EveryJobEnds ==
    \A j \in Jobs : job[j].state # "none" ~>
        job[j].state \in {"completed", "discarded"}

\* "no retry if webhook not found" (webhook_dispatch.go): a delivery is closed
\* without having been acknowledged only because the webhook is gone or was
\* disabled. Every other error of the lookup closes it too.
ClosedOnlyIfNotFound ==
    \A j \in Jobs : run[j].at = "ok" /\ j \notin changed =>
        j \in acked \/ ~row[j[2]].exists \/ ~row[j[2]].enabled
=============================================================================
