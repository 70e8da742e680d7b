# TLA+ verification of the HiveCFM Hub

The hub is a Go HTTP service (`cmd/api`) over PostgreSQL. It stores feedback
records, publishes an event for every write, and hands each event to three
providers that insert River jobs: webhook deliveries, embeddings and sentiment
analysis. Workers of those jobs run in the same process. Two commands,
`cmd/backfill-embeddings` and `cmd/backfill-sentiment`, enqueue jobs for older
records.

    handler --commit--> database
       |                    ^ ^
       +--publish--> channel --> worker --> WebhookProvider   --\
                                      \--> EmbeddingProvider  ---> River jobs --> workers
                                       \-> SentimentProvider  --/      |  (database, endpoints,
                                                                       v   embedding and chat APIs)

This directory holds modules that model the parts that keep state or run
concurrently, the TLC configurations that check them on small instances, and
theorems about every one of them, checked by TLAPS: each safety property that a
run checks on a small instance is also proved for every value of the constants.

* `tlc -config MCMessagePublisher.cfg MCMessagePublisher` runs one check;
* `tlapm M_proofs.tla` checks the proofs about `M`, for `M` in `AppLifecycle`
  (which covers `MessagePublisher` and `EventBus` too), `WebhookDispatch`,
  `WebhooksApi`, `FeedbackRecords`, `FeedbackEmbedding`, `KeysetPagination`,
  `SearchPaging` and `QueryCache`.

## Inventory

| Component | State it keeps | Operations | What is hard | What makes it correct | Module |
|---|---|---|---|---|---|
| Event publisher (`internal/service/message_publisher.go`) | buffered channel, one worker goroutine, wait group | `PublishEventWithChangedFields`, `startWorker`, `Shutdown` | full channel, hanging providers, a send after close | accepted events reach every provider once and in order; Shutdown drains and returns | `EventBus`, `MessagePublisher` |
| Process life cycle (`cmd/api/app.go`, `main.go`) | which parts run, registered providers, exit code | `config.Load`, `NewPostgresPool`, `NewApp`, `Run`, `Shutdown`, deferred closes | error returns half way up, providers appended under a running worker, order of shutdown, one deadline for all, handlers that outlive it | no committed event lost when the exit code is 0, no panic in a handler the server waits for, no event before the providers are complete or after the pool is closed | `AppLifecycle` |
| Feedback records (`feedback_records_service.go`, `feedback_records_repository.go`) | rows of `feedback_records` | create, patch, delete, bulk delete, `UpdateMetadata` | concurrent requests, lost answers, dropped events, crashes, read-merge-write of metadata | one announcement per deletion, metadata of a request kept | `FeedbackRecords` |
| Sentiment (`sentiment_provider.go`, `workers/sentiment_analysis.go`, `cmd/backfill-sentiment`) | River jobs, `metadata.sentiment` | provider, worker, backfill | jobs of several texts in any order, unique jobs, retries | the sentiment is that of the current text | `FeedbackRecords` |
| Embeddings (`embedding_provider.go`, `workers/feedback_embedding.go`, `embeddings_repository.go`, `cmd/backfill-embeddings`) | rows of `embeddings`, River jobs | provider, worker, upsert, delete, cascade, backfill | record changes while the API answers, unique jobs, crash, rescue | no vector without record, none stale but for named reasons | `FeedbackEmbedding` |
| Webhook delivery (`webhook_provider.go`, `webhook_sender.go`, `workers/webhook_dispatch.go`) | River jobs, `webhooks.enabled`, `disabled_reason` | fan-out, POST, disable, retry | batches that fail, crash between POST and result, admin edits meanwhile | attempts bounded, disabling and re-enabling consistent, every job ends | `WebhookDispatch` |
| Webhooks API (`webhooks_service.go`, `webhooks_repository.go`) | rows of `webhooks` | create with a limit, update, delete, list | count and insert are two statements; the event of a change is fanned out to the rows as they are later | the limit is exceeded only by overlapping creations, the listing for an event sees its change | `WebhooksApi` (list in `KeysetPagination`) |
| List endpoints (`pagination.go`, `pkg/cursor`) | the client's cursor | list page by page | writers between pages, ties, the exactly full page | no row twice, none skipped | `KeysetPagination` |
| Search (`search_service.go`, `search_cursor.go`, `embeddings_repository.go`) | the client's cursor, query cache, singleflight group | semantic search, similar feedback | over-fetch, an index scan cut before the filters, minimum score, re-ranking that moves the cursor; one call shared under one caller's context | no repeats and no skips but for named reasons, own cursors accepted; a search fails only with the one whose call it shares | `SearchPaging`, `QueryCache` |
| Configuration and pool (how they fail at start: `AppLifecycle`), validation, responses, middleware, models, API clients, observability, schema, deployment | none that changes while requests run, or an external service | - | - | - | not modelled (see the end) |

The hazards of this code, each at its line and with the properties that would
catch it, are listed in `PROJECT.json`.

## The modules

### EventBus and MessagePublisher

`EventBus` is the abstract promise: an event is taken into one log or refused
for good, and every provider consumes the log in its order, the provider
registered first always first. `MessagePublisher` is the code: the three
outcomes of the `select` in `PublishEventWithChangedFields` (`SendEvent`,
`DropEvent`, `PanicOnClosed`), the body of `startWorker` (`Receive`,
`CallProvider`, `ProviderReturns`, `FinishEvent`, `WorkerExits`), the timer of
the one context all providers of an event share (`ContextExpires`), and the two
steps of `Shutdown` (`CloseChannel`, `ShutdownReturns`). A request publishes at
most one event, so the request names the event. `accepted` and `handed` are
history variables; the refinement maps the bus's log to `accepted`, its
consumption to `handed`, and the refused events to requests that were dropped or
panicked.

### AppLifecycle

Extends `MessagePublisher` with the process around it, from `config.Load` to
`os.Exit`. Start-up goes through `load`, `connect`, `wire` and `register`, each
but the last with its error return: `LoadFails` and `ConnectFails` exit at once,
`WireFails` stands for the returns of `NewApp` that leave the publisher's worker
waiting, and only `RiverClientFails` shuts the publisher down. `RegisterProvider`
appends to the list of providers while the worker is already there. Then handlers
accept, query, commit, publish and answer; the goroutines of `Run` start the
server and River, either of which may fail; and `App.Shutdown` goes step by step
in the order the code runs it: River's context is cancelled when `Run` returns,
`server.Shutdown` waits for handlers or gives up at the deadline, `river.Stop`,
then the deferred functions in reverse (telemetry, `message.Shutdown`), and last
the deferred `db.Close` of `run`, which waits for connections that are out.
`failed` is the exit code. `message.Shutdown` has no deadline; that it ends anyhow
is `ShutdownEnds`.

### FeedbackRecords

Every handler is one statement, then the event of what it committed
(`announces`), then `Publish`; `heard = FALSE` is a statement whose answer was
lost, after which the handler publishes nothing. PATCH sets any subset of text
and metadata (metadata as a whole, so that a sentiment in it goes too). The
sentiment provider inserts unique jobs per record and text; the worker reads the
record, classifies (`WorkReads`), reads the metadata (`MergeReads`) and writes
the merge (`MergeWrites`): the two statements of `UpdateMetadata` are separate
steps. Metadata is one model value, the request that set it; the classification
of a text is that text. `excused` collects, at the step where each happens, the
reasons for which a sentiment may stay behind, so `SentimentOfCurrentText` is as
strong as the code allows. What goes wrong around it is bounded by `MaxUpsets`:
the channel drops an event (`EventDropped`), the provider's insert of the job
fails and is logged only (`EnqueueFails`), the process dies with its requests,
events and workers while River keeps the jobs (`Crash`), the answer of the
merge's UPDATE is lost and the job runs again, or somebody starts the backfill.

### FeedbackEmbedding

Writes publish events; the provider turns them into jobs unique by record and
hash of the text (a hash stands for its text; the backfill's fixed hash is
`Backfill`); River fetches, retries, discards and rescues; the worker reads the
record, embeds, and stores the vector or clears it. A vector is the text it was
computed from. A crash loses the events in memory and the workers. All of it
happens within the 24 hours in which River's unique jobs block another insert.
`excuse` names, when it happens, each of the three ways a vector may stay stale:
`lost` (an event or job was given up), `skipped` (the insert was a duplicate of a
job that had already read the record), `overlapped` (two workers of one record).
`CurrentWhenSettled` says there is no fourth.

### WebhookDispatch

The fan-out (`StartFanOut`, `InsertBatch`, `InsertBatchFails` with a commit that
may be hidden behind the error), River (`FetchJob`, `StoreResult`, `RetryJob`,
`RescueJob`, `Crash`), `Work` with every return (`LoadWebhook`,
`WebhookNotFound`, `LoadFails`, the outcomes of the POST, the two places that
disable the row), and the admin API's PATCH, of any of its fields, and DELETE.
All events have one type; a row says whether it subscribes to it. `changed` remembers which jobs'
webhooks were written since their attempt began, `acked` which POST was answered
2xx.

### WebhooksApi

Composes the admin API with the two modules behind it: it EXTENDS
`WebhookDispatch`, whose rows its requests write and whose fan-out follows, and
the publisher between them is its abstraction `EventBus`, instantiated with one
provider. `CreateWebhook` is two statements (`CountWebhooks`, `CreateWebhook`);
PATCH and DELETE are one each, and a PATCH without a field writes no row but is
announced (`PatchNothing`). `heard = FALSE` is again a statement whose answer was lost. The bus may
refuse an event, a crash starts it anew, and a delivery's worker may disable a
row at any time (`WorkerDisables`); the deliveries themselves are in
`WebhookDispatch`. `overtaken` remembers the creations that had counted when
another one inserted, `rewritten` the requests whose row was written between
their commit and the listing for their event.

### KeysetPagination

The keyset query of both list endpoints with `limit + 1` rows, the sentinel that
decides `next_cursor`, and writers between pages. Neither `collected_at` nor
`created_at` changes after the insert; the filtered columns do (a row is
`match` or `hidden`). A cursor stands for the key it encodes.

### SearchPaging

One page is: what the database reads (`Scans`), filtered and taken after the
cursor (`Candidates`), the nearest of it in `(distance, id)` order, cut at
`fetchLimit`, filtered by the minimum score, cut at the page (`Nearest`),
re-ranked by sentiment for a classified query, and a cursor made from the last
row's re-ranked score. Distances are hundredths and scores millionths, in which
the products of the code are exact.

The planner may read every row, or the HNSW index. The index yields at most
`hnsw.ef_search` tuples (`SET LOCAL`, 200), the nearest of all tenants, and only
then come the tenant, the model, the other filters and the cursor: no iterative
scan is enabled. Rows that do not match, rows of earlier pages and dead tuples use
the scan up, so a page may come out short and end the listing although rows that
match were left. `Matching` are the records the filters let through; `cut`
records, for a page, that its scan left rows out and that nothing it read shows
them to be irrelevant (`CutShort`). Which tuples are nearest is exact here; what
an approximate graph search misses besides is not modelled. The query's vector is
recomputed or read again for every page: should it have changed, the distances
move as by `UpsertEmbedding`.

### QueryCache

`getQueryEmbeddingCached`: the cache lookup (`Hit`, `Miss`), the singleflight
group (`Lead`, `Join`), the call of the API under the leader's context
(`LoadSucceeds`, `LoadCancelled`, `LoadFails`), and the end of `Do`, which
releases all its callers at once (`FlightEnds`). Which entry a full cache evicts
is left open. `allowed` counts the calls of the API there is a reason for: the
first, one after each failed call, one after each eviction, and one for every
search that had looked into the cache before the vector was there.

## The runs

| Run | Instance | What it shows |
|---|---|---|
| `publisher` | 4 requests, buffer 2, 2 providers | `HandedInOrder`, `DrainedOnShutdown`, refinement of `EventBus`; under fairness, every accepted event reaches every provider and Shutdown returns although providers hang until their context expires |
| `lifecycle` | 3 requests, buffer 1, 1 provider | `PanicOnlyIfAbandoned`, `CommittedEventsDelivered`, `ProvidersHaveDatabase`; under fairness the process exits |
| `feedback_records` | 3 requests, 2 records, 2 texts, 2 workers, 1 upset; symmetry | `DeletionAnnouncedOnce`, `MetadataLostOnlyInMerge`, `SentimentOfCurrentText` |
| `webhook_dispatch` | 1 webhook, 2 events, 2 attempts, 1 admin request, 1 fault | `ReasonOnlyWhenDisabled`, `PostsBounded`, `SnapshotIsFresh`, `OutcomeMatchesEndpoint`; under fairness every job ends |
| `webhooks_api` | 3 requests, 2 webhook ids, limit 1, batches of 1, 1 fault; symmetry of the requests | `LimitExceededOnlyByOverlap`, `ListingSeesChange`, `FanOutIsPrefix` |
| `webhook_lookup` (violated) | 1 webhook, 1 event, 1 fault | a failing lookup closes a delivery for good |
| `embedding` | 1 record, 2 texts and the empty one, 2 workers, 2 attempts, 2 edits, 1 fault, 1 backfill | `EmbeddingHasRecord`, `CurrentWhenSettled`; under fairness all work ends |
| `embedding_revisit` (violated) | 1 record, 2 edits, no fault | an edit and the edit back leave the vector of the text in between |
| `keyset` | 5 rows on 2 timestamps, pages of 2 | `PagesContinue`, `NothingSkipped`, `CursorPromisesPage` |
| `search` | 3 matching records and one of another tenant, distances 0, 0.1 and 0.7, pages of 2, minimum score 0.6, 3 pages, `hnsw.ef_search` 2 | `RepeatsOnlyIfBoosted`, `SkipsOnlyIfPenalisedOrCut` |
| `search_cursor` (violated) | the same | a cursor of the service itself is refused |
| `query_cache` | 3 searches, 2 queries, 1 cache entry, 1 error of the API | `FailsOnlyWithLeader`, `LoadsHaveReasons`; under fairness every search ends |

Why these bounds are enough for the cases of interest:

* publisher: with four requests against two places the channel is empty, filling
  and full while an event is in the worker's hands; with two providers one can
  starve the other. Larger values are covered by the proof.
* lifecycle: a full channel, an abandoned handler and an orderly one need three
  requests; the process meets its deadline in each of its waits, and every error
  return of the start-up is taken. The proofs cover larger values.
* feedback_records: a create, an edit and a third request that races either of
  them; two records so that a bulk delete overlaps a single one; two workers on
  one record; the one upset falls on any step. Requests, ids, texts and workers
  are interchangeable and every property is invariant under permuting them, which makes the symmetry sound (no
  liveness is checked in that run).
* webhook_dispatch: jobs of different webhooks share nothing but the fan-out, so
  deliveries are checked with one webhook and two events. Two attempts have a
  first, and a last that is not the first; one fault can fall on any call of
  either. The proofs have any number of each.
* webhooks_api: with room for one webhook two overlapping creations exceed the
  limit and a third request deletes or patches; batches of one make two batches
  of two webhooks, the first of which can fail. Proved for every size.
* query_cache: of three searches one leads, one joins and one comes late; a cache
  of one entry evicts as soon as a second query is loaded. Proved for every size.
* embedding: records share nothing but the workers' number; two texts and two
  edits allow the edit back, the emptying and the delete; one fault falls
  anywhere.
* keyset: five rows in pages of two make three pages, with ties across a page
  boundary and an exactly full last page.
* search: pages of two with a fetch limit of six cannot cut four records off,
  but `Cardinality(scored) >= Limit` decides continuation; distances 0 (boost
  above 1), 0.1, and 0.7 (below the minimum score), ties included. An index scan
  of two tuples can hold a full page, the record of the other tenant, the page
  before, or nothing of use, and every page may also be read without the index.
  `LIMIT fetchLimit`, which no such small instance meets, is covered by the proof.

`CHECK_DEADLOCK FALSE` appears in every configuration because each system really
stops: the process exits, a listing ends, or the bounded numbers of requests,
searches, edits and faults are spent.

### Fairness

* `MessagePublisher`: weak fairness of the worker's steps, of the context's
  timer, and of a provider's return once its context is done. Providers pass
  that context to every database and River call, and are not asked to return
  before.
* `AppLifecycle`: the same worker, the main goroutine, the deadline, and a query
  in flight that ends (with a result or a broken connection). Handlers are not
  asked to finish otherwise, River not at all; nothing says that the start-up
  gets anywhere or that a signal ever comes.
* `WebhookDispatch`, `FeedbackEmbedding`: weak fairness of the system as a
  whole. River and the Go scheduler do not stop while something can be done;
  work is finite (attempts are bounded), so nothing is passed over forever. Admin
  requests, writers, backfills, faults and crashes are never required.
* `QueryCache`: a search that missed asks the group, a call whose context ended
  ends, and `Do` returns; these are steps of goroutines that wait for nothing
  else. That the API answers is not assumed: `EveryCallerAnswered` has it as its
  hypothesis (no call goes on for ever), since no timeout of the service bounds
  the call.
* The other modules claim no liveness.

## Disagreements between code and text

The runs marked "violated" check what a comment or the API description says:

1. `webhook_lookup`: `workers/webhook_dispatch.go:67` says there is no retry "if
   webhook not found"; there is none after any error of the lookup, so a
   transient one loses the delivery.
2. `embedding_revisit`: `models/embeddings.go:28` says `value_text` is the text
   that was embedded; A to B to A leaves B's vector under A's text, because the last
   job is a duplicate for 24 hours.
3. `search_cursor`: `openapi.yaml:640` asks clients to send the exact
   `next_cursor`; after a boost above score 1 the cursor holds a negative
   distance and the next page is refused with 400.

Four more were met and have no run, since a line or two of code show each:

* `cmd/api/app.go:533` says Shutdown stops "the server, message publisher, and
  River in order"; `AppLifecycle` has the code's order, River before the
  publisher. Events handed out meanwhile become jobs for the next start.
* `config.go:40` calls `WEBHOOK_MAX_FAN_OUT_PER_EVENT` the "max jobs enqueued per
  event"; it is the size of a batch (`Batch` in `WebhookDispatch`).
* `embeddings_repository.go:23` over-fetches "so that after tenant/minScore
  filtering we still have enough results", and line 171 keeps the score out of the
  WHERE clause "so pgvector's iterative index scan can run". Nothing sets
  `hnsw.iterative_scan`, so the index scan ends after `hnsw.ef_search` = 200 tuples
  of all tenants while `fetchLimit` goes to 300: a listing can end with matching
  rows above the minimum score unreturned. It is the excuse `cut` of
  `SkipsOnlyIfPenalisedOrCut`, without which TLC finds that property violated.
* `search_service.go:266` says that `shared == true` means another caller loaded;
  singleflight also returns it to the caller that did, once others joined, so a
  call of the API can be counted as a hit.

## What is proved

Every invariant that a run of the modules checks is a theorem of the
specification, and so are the refinement of `EventBus` and the action property of
the listing. All that is assumed is
the `ASSUME` of each module, which TLC evaluates on every run: positive sizes and
attempts, model values for "none" that are none of the values they stand beside,
and finite sets of ids where the code counts rows or takes the last of them (a
UUID has 128 bits). Sets of requests, events, texts and workers may be infinite.

The proofs all have the same shape: an inductive invariant of named parts,
`Init` and each action preserve each part, lemmas about the one record or row an
action writes, and PTL for the last step. What the parts are, and why they are
needed:

### AppLifecycle_proofs: the publisher

* `TypeCorrect`: `Spec => []TypeOK`, the channel never above its capacity;
* `OrderKept`: `Spec => []HandedInOrder`;
* `ShutdownDrains`: `Spec => []DrainedOnShutdown`;
* `PublisherImplementsBus`: `Spec => ImplementsEventBus`, every step of the
  publisher being a step of `EventBus` or a stutter.

`HandedInOrder` is not inductive by itself: nothing in it says that the event in
the worker's hands exists, that a channel is only left for good when it is closed
and empty, or that a request publishes once. The inductive invariant `IndInv`
adds `Phases` (how `worker`, `event`, `next`, `closed` and `shutdown` go
together) and `AcceptedWereSent` (what was accepted was sent by its own request,
which the refinement needs: an event is taken or refused once). Lemmas about
appending to and taking from sequences come first; then one step per action, and
under it one per part of the invariant. The refinement maps `SendEvent` to
`Take`, `DropEvent` and `PanicOnClosed` to `Refuse`, `CallProvider` to
`Consume`, and everything else to a stutter; that a provider is called after
those registered before it follows from `HandedInOrder` for both.

### AppLifecycle_proofs: the process

* `LifecycleTypes`: `AppSpec => []AppTypeOK`;
* `PanicsOnlyAfterDeadline`: `AppSpec => []PanicOnlyIfAbandoned`;
* `PoolOutlivesWorker`: `AppSpec => []ProvidersHaveDatabase` (no event before the
  last provider, none in the worker's hands after the pool is closed);
* `OrderlyExitDelivers`: `AppSpec => []CommittedEventsDelivered`;
* `ProcessImplementsBus`: `AppSpec => ImplementsEventBus`, since every step of the
  process is a step of the publisher or leaves it alone.

Its invariant `AppIndInv` adds to `IndInv` where the main goroutine is:
`NothingBeforeRun` (nothing is accepted and no handler exists before the server
listens, which it does only with every provider registered),
`PublisherClosesInOrder` (the channel is closed after `server.Shutdown` and
before `db.Close`), `ServerStopsFirst` (past `server.Shutdown` the server is
drained, with no handler left, or abandoned), `DatabaseClosesLast`, and
`SentWereAccepted`. `PanicOnlyIfAbandoned` alone is not inductive: that a handler
still in flight when the channel is closed was abandoned takes
`PublisherClosesInOrder` and `ServerStopsFirst`.

### FeedbackRecords_proofs

* `RecordsTypes` (`TypeOK`), `DeletionsAnnounced` (`DeletionAnnouncedOnce`),
  `MetadataInvariant` (`MetadataLostOnlyInMerge`), `SentimentInvariant`
  (`SentimentOfCurrentText`).

`DeletionTracked` counts a deletion before it is announced: it is pending with
exactly one request, or announced once and pending with none, so a request that
commits and one that publishes both keep the count. `JobsTracked` says that the
job of a busy worker is known, no longer waiting, and in no other worker's hands;
`OnlyCreatedKnown` that no event or job is about a record that was never created.
`MergesTracked` is the reason `UpdateMetadata` loses nothing but what overlapped:
the metadata a worker is about to write is the last a request set, unless that is
recorded. `SentimentTracked` is the heart: for a record without an excuse, no
worker is on another text than the current one, and somebody will see to the
current one if the sentiment is not its own (a waiting job, a worker, or an event
that asks for a job no earlier one makes a duplicate).

### FeedbackEmbedding_proofs

* `EmbeddingTypes` (`TypeOK`), `EmbeddingsHaveRecords` (`EmbeddingHasRecord`),
  `CurrentInvariant` (`CurrentWhenSettled`).

`CurrentOrLater` says for each text field of a live record without an excuse: an
event or a job has yet to read it (`LooksLater`), or all workers that have read
it read the current text, and the vector is the current one unless such a worker
is still computing it (`Current`). The three excuses are exactly the steps that
break it. `AbsentUnknown` keeps events and jobs of a record from preceding it.

### WebhookDispatch_proofs

* `DispatchTypes` (`TypeOK`), `PostsStayBounded` (`PostsBounded`),
  `ReasonsInvariant` (`ReasonOnlyWhenDisabled`), `SnapshotInvariant`
  (`SnapshotIsFresh`), `OutcomesInvariant` (`OutcomeMatchesEndpoint`),
  `FanOutInvariant` (`FanOutIsPrefix`).

`JobsTracked` says that only a running job has a goroutine, that a job waits only
with an attempt left, and that POSTs never exceed attempts, a job before its POST
having one in hand. `FanOutTracked` says that what is left of a fan-out comes
after what was enqueued, with a lemma that a batch is the least of what is left.
`EndsTruthfully` says that without faults and edits a worker about to end a job
already has what `OutcomeMatchesEndpoint` asks for; it needs the worker's test for
the last attempt to be River's.

### WebhooksApi_proofs

* `WebhooksApiTypes` (`ApiTypeOK`), `ListingInvariant` (`ListingSeesChange`),
  `LimitHoldsUpToRaces` (`LimitExceededOnlyByOverlap`).

The bound is not inductive: an insertion needs room. `LimitInv` adds
`RoomWhenCounted` (a creation that counted and was not overtaken still finds room
for its row, because any insertion after its count overtakes it, and the
insertion of an overtaken one raises the bound by one) and `NothingYet` (a
request that has not committed has no change, so that its own insertion is
counted once). Of infinitely many requests only those that have counted are
counted, finitely many at any time. `ListingSeesChange` rests on `Published`
(what travels on the bus was committed) and `RowsAsLeft`: from the commit until
the listing for its event the row is as the request left it, unless somebody
wrote it again.

### KeysetPagination_proofs

* `PaginationTypes` (`TypeOK`), `PagesNeverOverlap` (`PagesContinue`),
  `ListingIsComplete` (`NothingSkipped`), and `CursorKeepsPromise`, the action
  property `CursorPromisesPage`.

The order of the query is a strict total order, a finite set of rows that is not
empty has a first and a last one in it (from the well-foundedness of strict
inclusion), `FirstOf` keeps a prefix of the size of the limit, and so a page is a
prefix of the candidates that ends with its cursor (`PageOfCandidates`). The
invariant `ListingProgress` says that no page reaches beyond the cursor, and that
what matched all along is on a page or after it.

### SearchPaging_proofs

* `SearchTypes` (`TypeOK`), `RepeatsInvariant` (`RepeatsOnlyIfBoosted`),
  `SkipsInvariant` (`SkipsOnlyIfPenalisedOrCut`).

The same lemmas for the order by distance, whose rows move, and for the order
after re-ranking (`LastOfIsLast`). `PageOfCandidates` covers `fetchLimit`, the
limit of the page and the minimum score: what was scanned, reaches it and is not
on the page comes after all of the page, and with no next page there is nothing
left. `LeftByScan` says the same of what was not scanned, unless the page was cut
short: the scan then either read a row below the minimum score, and all that is
left is below it too, or read on past a full page. `PageOfRemaining` puts the two
together. `CursorOfPage` relates the
cursor to the page: it lies at or after all results if none was raised, and
before all that follow them if none was lowered, the stable sort deciding ties.
`ListingProgress` then has two halves, each under the history variables that would
excuse its failure. `SkipsOnlyIfPenalisedOrCut` is no promise of completeness: a
deployment whose index scans end early has the excuse `cut`; the theorem says that
this and the penalty are all there is, and that `LIMIT fetchLimit` by itself loses
no row.

### QueryCache_proofs

* `CacheTypes` (`TypeOK`), the cache never above its size;
* `WaitersShareOneFate` (`FailsOnlyWithLeader`);
* `CallsAreShared` (`LoadsHaveReasons`).

The second rests on `LeaderKnown`: who waits names the leader of the call that is
in the group, and a call that failed has a culprit. The third rests on
`ReasonsLeft`, the reason that is left for the next call: a query that is neither
cached nor being loaded has one call in hand, and a cached one has a call for
every search that missed before it was cached.

### Only model-checked

Liveness under fairness and `ENABLED`, which are out of the prover's reach:
`EveryEventReachesProviders`, `ShutdownTerminates`, `ShutdownEnds`, `EveryJobEnds`,
`EventuallySettled` and `EveryCallerAnswered`. The three disagreements between
code and text are counterexamples, found by TLC.

## What is not modelled

* Request validation, error mapping and middleware: stateless; a rejected request
  is `RequestFails` or `Answer`. Of the configuration only that it loads or not:
  its settings are constants.
* What River's cancelled contexts do to the deliveries in flight when `Run`
  returns: `WebhookDispatch` has the failing statements and the crash, not their
  common cause.
* Two corner cases of single values (metadata `null`, an emptied field that is
  not text): listed among the hazards.
* API clients for OpenAI and Google: an answer or an error in the workers.
* Observability: changes no state of the hub; its shutdown is one step.
* Pool and schema: statements are atomic; unique keys, the cascade and the
  foreign key appear where a module relies on them.
* River is external and modelled from how the hub uses it: unique inserts,
  attempts, retry, discard and rescue.
* Texts are compared as their trimmed values, although the sentiment worker does
  not trim; webhook payloads and signatures are abstracted.

## Plan

The modules above are done and their safety properties proved. Left:

1. The deliveries in flight while River shuts down: `WebhookDispatch` composed
   with the last steps of `AppLifecycle`.
2. What the liveness properties rest on, as safety: that a system with work left
   and no worker hanging has a step to take.
