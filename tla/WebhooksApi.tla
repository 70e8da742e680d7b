----------------------------- MODULE WebhooksApi -----------------------------
(***************************************************************************)
(* The admin API of webhooks (internal/service/webhooks_service.go with    *)
(* its handlers and repository) in front of the fan-out. Requests create,  *)
(* change and delete rows and publish what they did; the publisher is its  *)
(* abstraction EventBus; the provider fans every event out to the rows it  *)
(* finds then, the row the event is about included. Of the deliveries only *)
(* their writes to the rows are here: WebhookDispatch has them.            *)
(* A request publishes at most one event, so an event is its request.      *)
(***************************************************************************)
EXTENDS WebhookDispatch, Sequences

CONSTANTS
    MaxWebhooks,  \* WEBHOOK_MAX_COUNT
    Preexisting,  \* the webhooks there are at the start
    NoChange      \* a request that has committed nothing

\* What a request does to a row; listens: to the event type, and enabled
Change == [type : {"created", "updated", "deleted"}, id : Webhooks,
           listens : BOOLEAN]

ASSUME ApiAssumption ==
    /\ MaxWebhooks \in Nat \ {0}
    /\ NoChange \notin Change
    /\ Preexisting \subseteq Webhooks
    /\ Cardinality(Preexisting) <= MaxWebhooks

VARIABLES
    request,    \* request[r]: where the handler of r is
    created,    \* history: the ids ever given to a row
    about,      \* about[r]: the change r committed
    overtaken,  \* history: creations that counted before another one inserted
    rewritten,  \* history: requests whose row was written between their
                \* commit and the listing for their event
    log, refused, consumed  \* the bus

apiVars == <<vars, request, created, about, overtaken, rewritten, log, refused,
             consumed>>

Bus == INSTANCE EventBus WITH NumProviders <- 1
busVars == <<log, refused, consumed>>

RequestStates == {"new", "counted", "committed", "done"}

Existing == {w \in Webhooks : row[w].exists}

NeverCreated == [exists |-> FALSE, url |-> InitialUrl, enabled |-> FALSE,
                 subscribed |-> FALSE, reason |-> "none"]

ApiInit ==
    /\ row \in {f \in [Webhooks -> FreshRow \cup {NeverCreated}] :
                    \A w \in Webhooks : f[w].exists <=> w \in Preexisting}
    /\ NothingPublished
    /\ request = [r \in Events |-> "new"]
    /\ created = Preexisting
    /\ about = [r \in Events |-> NoChange]
    /\ overtaken = {} /\ rewritten = {}
    /\ Bus!BusInit

-----------------------------------------------------------------------------
(* What every committed statement does besides its row.                    *)

\* The requests whose change of w has not reached the provider yet.
About(w) == {r \in Events \ handled : about[r] # NoChange /\ about[r].id = w}

\* r has a change of w to publish; heard is FALSE when the answer of the
\* database was lost: the handler then reports an error and publishes nothing.
Announces(r, type, w, heard) ==
    /\ request' = [request EXCEPT ![r] = IF heard THEN "committed" ELSE "done"]
    /\ about' = [about EXCEPT ![r] =
                     [type |-> type, id |-> w,
                      listens |-> row'[w].enabled /\ row'[w].subscribed]]
    /\ UNCHANGED busVars

\* r wrote the row of w, and so over what others had announced of it.
Commits(r, type, w, heard) ==
    /\ Announces(r, type, w, heard)
    /\ rewritten' = rewritten \cup About(w)

\* Mutant of RequestFails: the handler goes on to publish.
ErrorIgnored(r) ==
    /\ request[r] \in {"new", "counted"}
    /\ request' = [request EXCEPT ![r] = "committed"]
    /\ UNCHANGED <<vars, created, about, overtaken, rewritten, busVars>>

\* Not found, invalid, a database error: nothing is committed.
RequestFails(r) ==
    /\ request[r] \in {"new", "counted"}
    /\ request' = [request EXCEPT ![r] = "done"]
    /\ UNCHANGED <<vars, created, about, overtaken, rewritten, busVars>>

-----------------------------------------------------------------------------
(* CreateWebhook: two statements.                                          *)

\* Mutant of CountWebhooks: the limit itself is let through.
CountOneMore(r) ==
    /\ request[r] = "new"
    /\ Cardinality(Existing) <= MaxWebhooks
    /\ request' = [request EXCEPT ![r] = "counted"]
    /\ UNCHANGED <<vars, created, about, overtaken, rewritten, busVars>>

\* repo.Count below the limit; the signing key is made or validated
CountWebhooks(r) ==
    /\ request[r] = "new"
    /\ Cardinality(Existing) < MaxWebhooks
    /\ request' = [request EXCEPT ![r] = "counted"]
    /\ UNCHANGED <<vars, created, about, overtaken, rewritten, busVars>>

\* LimitExceeded: 403
LimitReached(r) ==
    /\ request[r] = "new"
    /\ Cardinality(Existing) >= MaxWebhooks
    /\ request' = [request EXCEPT ![r] = "done"]
    /\ UNCHANGED <<vars, created, about, overtaken, rewritten, busVars>>

\* repo.Create, under an id no row ever had
CreateWebhook(r, w, heard) ==
    /\ request[r] = "counted"
    /\ w \notin created
    /\ \E fresh \in FreshRow : row' = [row EXCEPT ![w] = fresh]
    /\ created' = created \cup {w}
    /\ overtaken' = overtaken \cup {q \in Events \ {r} : request[q] = "counted"}
    /\ Commits(r, "created", w, heard)
    /\ UNCHANGED <<fanoutVars, job, run, history, edits, faults>>

-----------------------------------------------------------------------------
(* UpdateWebhook, DeleteWebhook: one statement each, on a row that exists. *)

PatchWebhook(r, w, heard) ==
    /\ request[r] = "new"
    /\ OnRow(w) /\ PatchRow(w) /\ UNCHANGED edits
    /\ Commits(r, "updated", w, heard)
    /\ UNCHANGED <<created, overtaken>>

\* A PATCH without a field reads the row, and is announced all the same.
PatchNothing(r, w) ==
    /\ request[r] = "new"
    /\ row[w].exists
    /\ UNCHANGED vars
    /\ Announces(r, "updated", w, TRUE)
    /\ UNCHANGED <<created, overtaken, rewritten>>

RemoveWebhook(r, w, heard) ==
    /\ request[r] = "new"
    /\ OnRow(w) /\ DeleteRow(w) /\ UNCHANGED edits
    /\ Commits(r, "deleted", w, heard)
    /\ UNCHANGED <<created, overtaken>>

\* A worker of a delivery disables its webhook: nothing is announced.
WorkerDisables(w) ==
    /\ \E j \in Jobs : j[2] = w /\ job[j].state # "none"
    /\ row' = Disabled(w, "attempts")
    /\ rewritten' = rewritten \cup About(w)
    /\ UNCHANGED <<fanoutVars, job, run, history, edits, faults, request,
                   created, about, overtaken, busVars>>

-----------------------------------------------------------------------------
(* The bus and the provider behind it.                                     *)

\* PublishEvent: into the log, or dropped by the full channel
Publish(r) ==
    /\ request[r] = "committed"
    /\ request' = [request EXCEPT ![r] = "done"]
    /\ Bus!Take(r) \/ Bus!Refuse(r)
    /\ UNCHANGED <<vars, created, about, overtaken, rewritten>>

\* The provider is given the next event: it lists, or fails to.
ConsumeEvent ==
    /\ Bus!Consume(1)
    /\ LET e == log[Len(consumed[1]) + 1] IN StartFanOut(e) \/ ListFails(e)
    /\ UNCHANGED <<request, created, about, overtaken, rewritten>>

Enqueue ==
    /\ InsertBatch \/ InsertBatchFails
    /\ UNCHANGED <<request, created, about, overtaken, rewritten, busVars>>

\* The process dies: requests end where they are, the bus starts anew.
ProcessDies ==
    /\ Crash
    /\ request' = [r \in Events |-> IF request[r] = "new" THEN "new" ELSE "done"]
    /\ log' = <<>> /\ refused' = {} /\ consumed' = [p \in {1} |-> <<>>]
    /\ UNCHANGED <<created, about, overtaken, rewritten>>

ApiNext ==
    \/ \E r \in Events, w \in Webhooks, heard \in BOOLEAN :
           \/ CreateWebhook(r, w, heard)
           \/ PatchWebhook(r, w, heard)
           \/ RemoveWebhook(r, w, heard)
    \/ \E r \in Events :
           \/ CountWebhooks(r) \/ LimitReached(r) \/ RequestFails(r)
           \/ Publish(r)
           \/ \E w \in Webhooks : PatchNothing(r, w)
    \/ \E w \in Webhooks : WorkerDisables(w)
    \/ ConsumeEvent \/ Enqueue \/ ProcessDies

ApiSpec == ApiInit /\ [][ApiNext]_apiVars

-----------------------------------------------------------------------------
\* Types; and the bus carries only changes that were committed.
ApiTypeOK ==
    /\ TypeOK
    /\ request \in [Events -> RequestStates]
    /\ created \subseteq Webhooks /\ Existing \subseteq created
    /\ about \in [Events -> Change \cup {NoChange}]
    /\ overtaken \subseteq Events /\ rewritten \subseteq Events
    /\ log \in Seq({r \in Events : about[r] # NoChange}) /\ refused \subseteq Events
    /\ consumed \in [1..1 -> Seq(Events)]

InsertedBy(r) == about[r] # NoChange /\ about[r].type = "created"

\* "Max total webhooks allowed" (config.go) holds up to the races between the
\* two statements of CreateWebhook: every row above the limit was inserted by
\* a request that had counted before another one inserted.
LimitExceededOnlyByOverlap ==
    Cardinality(Existing) <=
        MaxWebhooks + Cardinality({r \in overtaken : InsertedBy(r)})

\* The provider looks the rows up after the change was committed: a webhook
\* is not told of its own deletion, and, unless its row was written again, a
\* webhook that listens is told of its own creation and of its own update.
ListingSeesChange ==
    \A r \in handled :
        LET w == about[r].id
        IN  /\ about[r].type = "deleted" => w \notin listed[r]
            /\ faults = 0 /\ about[r].listens /\ r \notin rewritten
                   /\ about[r].type # "deleted" => w \in listed[r]
=============================================================================
