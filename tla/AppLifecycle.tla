----------------------------- MODULE AppLifecycle -----------------------------
(***************************************************************************)
(* cmd/api: the life of one hub process around its event publisher: it is  *)
(* wired, or gives up; requests are served, commit their row and publish;  *)
(* a signal or a failed component ends Run, and Shutdown takes the parts   *)
(* down one after the other under one deadline, while the handlers, the    *)
(* publisher's worker and River are still running.                         *)
(* EXTENDS MessagePublisher and drives it.                                 *)
(***************************************************************************)
EXTENDS MessagePublisher

VARIABLES
    handler,     \* handler[r]: the HTTP handler of request r
    main,        \* where the main goroutine is
    registered,  \* how many providers RegisterProvider has appended
    server,      \* the http.Server
    river,       \* the River client
    db,          \* the connection pool
    expired,     \* the deadline of Shutdown (SHUTDOWN_TIMEOUT) has passed
    failed       \* the exit code will be exitFailure

appVars == <<handler, main, registered, server, river, db, expired, failed>>
allVars == <<vars, appVars>>

\* "querying" holds a connection of the pool
HandlerStates == {"none", "serving", "querying", "committed", "finished"}
\* "load" config.Load, "connect" NewPostgresPool, "wire" NewApp up to the River
\* client, "abort" its error path, "register" the rest of NewApp
StartUp == {"load", "connect", "wire", "abort", "register"}
\* "run" Run's select; then Shutdown: "server" in server.Shutdown, "river" in
\* river.Stop, "observability", "publisher" in message.Shutdown; then "db" the
\* deferred db.Close of run, "exited"
MainStates == StartUp \cup {"run", "server", "river", "observability",
                            "publisher", "db", "exited"}
\* "unused" never told to listen; "drained" server.Shutdown returned nil,
\* "abandoned" it returned an error and left handlers running
ServerStates == {"unused", "listening", "failed", "draining", "drained",
                 "abandoned"}
RiverStates == {"unstarted", "running", "failed", "stopping", "stopped"}

AppInit ==
    /\ Init
    /\ handler = [r \in Requests |-> "none"]
    /\ main = "load"
    /\ registered = 0
    /\ server = "unused"
    /\ river = "unstarted"
    /\ db = "none"
    /\ expired = FALSE
    /\ failed = FALSE

InFlight == {r \in Requests : handler[r] \in {"serving", "querying", "committed"}}

-----------------------------------------------------------------------------
(* Start-up. The worker of the publisher waits on its channel from the     *)
(* moment NewApp makes it; nothing can publish before the server listens.  *)

\* run() returns exitFailure; a pool that was opened is closed on the way.
GiveUp(exit) ==
    /\ main' = exit
    /\ failed' = TRUE
    /\ UNCHANGED <<vars, handler, registered, server, river, db, expired>>

\* config.Load: a required or a positive setting is missing
LoadFails == main = "load" /\ GiveUp("exited")

ConfigLoaded ==
    /\ main = "load"
    /\ main' = "connect"
    /\ UNCHANGED <<vars, handler, registered, server, river, db, expired, failed>>

ConnectFails == main = "connect" /\ GiveUp("exited")

DatabaseConnected ==
    /\ main = "connect"
    /\ main' = "wire"
    /\ db' = "open"
    /\ UNCHANGED <<vars, handler, registered, server, river, expired, failed>>

\* Metrics, tracer, embedding provider, query cache: NewApp just returns, the
\* publisher's worker, if there is one by then, is left waiting.
WireFails == main = "wire" /\ GiveUp("db")

\* river.NewClient fails: messageManager.Shutdown() and the telemetry's
RiverClientFails ==
    /\ main = "wire"
    /\ main' = "abort"
    /\ failed' = TRUE
    /\ CloseChannel
    /\ UNCHANGED <<handler, registered, server, river, db, expired>>

AbortReturns ==
    /\ main = "abort"
    /\ main' = "db"
    /\ ShutdownReturns
    /\ UNCHANGED <<handler, registered, server, river, db, expired, failed>>

RiverClientCreated ==
    /\ main = "wire"
    /\ main' = "register"
    /\ UNCHANGED <<vars, handler, registered, server, river, db, expired, failed>>

\* An append to m.providers, which the running worker reads without a lock.
RegisterProvider ==
    /\ main = "register"
    /\ registered < NumProviders
    /\ registered' = registered + 1
    /\ UNCHANGED <<vars, handler, main, server, river, db, expired, failed>>

\* Mutant of RunStarts: the server is started before the providers are there.
RunStartsEarly ==
    /\ main = "register"
    /\ main' = "run"
    /\ UNCHANGED <<vars, handler, registered, server, river, db, expired, failed>>

RunStarts ==
    /\ main = "register"
    /\ registered = NumProviders
    /\ main' = "run"
    /\ UNCHANGED <<vars, handler, registered, server, river, db, expired, failed>>

-----------------------------------------------------------------------------
(* Handlers. They run in their own goroutines until the process exits.     *)

Accept(r) ==
    /\ server = "listening"
    /\ handler[r] = "none"
    /\ handler' = [handler EXCEPT ![r] = "serving"]
    /\ UNCHANGED <<vars, main, registered, server, river, db, expired, failed>>

\* A repository call takes a connection of the pool.
Query(r) ==
    /\ handler[r] = "serving"
    /\ db = "open"
    /\ handler' = [handler EXCEPT ![r] = "querying"]
    /\ UNCHANGED <<vars, main, registered, server, river, db, expired, failed>>

\* The repository call returns the committed row.
Commit(r) ==
    /\ handler[r] = "querying"
    /\ handler' = [handler EXCEPT ![r] = "committed"]
    /\ UNCHANGED <<vars, main, registered, server, river, db, expired, failed>>

\* A read, a rejected request or a database error: nothing to publish.
Answer(r) ==
    /\ handler[r] \in {"serving", "querying"}
    /\ handler' = [handler EXCEPT ![r] = "finished"]
    /\ UNCHANGED <<vars, main, registered, server, river, db, expired, failed>>

\* The service publishes, and the handler ends: with an answer, or by the
\* panic of the send, which net/http recovers.
CommitPublishes(r) ==
    /\ handler[r] = "committed"
    /\ PublishEvent(r)
    /\ handler' = [handler EXCEPT ![r] = "finished"]
    /\ UNCHANGED <<main, registered, server, river, db, expired, failed>>

-----------------------------------------------------------------------------
(* Run                                                                     *)

\* The goroutines Run started get to ListenAndServe and to river.Start. Each
\* may return an error, which Run then returns; a server that was shut down
\* before is not told to listen any more.
ServerStarts ==
    /\ main = "run"
    /\ server = "unused"
    /\ server' = "listening"
    /\ UNCHANGED <<vars, handler, main, registered, river, db, expired, failed>>

ServerFails ==
    /\ main = "run"
    /\ server \in {"unused", "listening"}
    /\ server' = "failed"
    /\ UNCHANGED <<vars, handler, main, registered, river, db, expired, failed>>

RiverStarts ==
    /\ main = "run"
    /\ river = "unstarted"
    /\ river' \in {"running", "failed"}
    /\ UNCHANGED <<vars, handler, main, registered, server, db, expired, failed>>

\* ctx.Done(), or runErr: cancelRiver(), Run returns, and main calls Shutdown,
\* which starts with server.Shutdown: the listeners are closed.
RunReturns ==
    /\ main = "run"
    /\ main' = "server"
    /\ \/ failed' = failed
       \/ (server = "failed" \/ river = "failed") /\ failed' = TRUE
    /\ server' = "draining"
    /\ river' = IF river = "running" THEN "stopping" ELSE "stopped"
    /\ UNCHANGED <<vars, handler, registered, db, expired>>

\* River winds down once its context is cancelled (or Stop was called).
RiverStops ==
    /\ river = "stopping"
    /\ river' = "stopped"
    /\ UNCHANGED <<vars, handler, main, registered, server, db, expired, failed>>

-----------------------------------------------------------------------------
(* Shutdown                                                                *)

DeadlinePasses ==
    /\ main \in {"server", "river", "observability", "publisher"}
    /\ ~expired
    /\ expired' = TRUE
    /\ UNCHANGED <<vars, handler, main, registered, server, river, db, failed>>

\* Mutant of ServerShutdownReturns: Shutdown does not wait for the handlers.
ServerCloseReturns ==
    /\ main = "server"
    /\ server' = "drained"
    /\ main' = "river"
    /\ UNCHANGED <<vars, handler, registered, river, db, expired, failed>>

\* Mutant of ServerShutdownReturns: the context passed to it has no deadline.
ServerShutdownUnbounded ==
    /\ main = "server"
    /\ InFlight = {}
    /\ server' = "drained"
    /\ main' = "river"
    /\ UNCHANGED <<vars, handler, registered, river, db, expired, failed>>

ServerShutdownReturns ==
    /\ main = "server"
    /\ \/ InFlight = {} /\ server' = "drained" /\ UNCHANGED failed
       \/ expired /\ InFlight # {} /\ server' = "abandoned" /\ failed' = TRUE
    /\ main' = "river"
    /\ UNCHANGED <<vars, handler, registered, river, db, expired>>

\* river.Stop, in both branches; it gives up waiting at the deadline
RiverStopReturns ==
    /\ main = "river"
    /\ \/ river = "stopped" /\ UNCHANGED failed
       \/ expired /\ river # "stopped" /\ failed' = TRUE
    /\ main' = "observability"
    /\ UNCHANGED <<vars, handler, registered, server, river, db, expired>>

\* The first deferred function flushes the telemetry, which may fail; the
\* second closes the channel: message.Shutdown has no context and waits for
\* the worker.
ObservabilityStops ==
    /\ main = "observability"
    /\ main' = "publisher"
    /\ failed' \in {failed, TRUE}
    /\ CloseChannel
    /\ UNCHANGED <<handler, registered, server, river, db, expired>>

\* Mutant of PublisherShutdownReturns: Shutdown gives up at the deadline.
PublisherShutdownExpires ==
    /\ main = "publisher"
    /\ main' = "db"
    /\ \/ ShutdownReturns
       \/ expired /\ UNCHANGED vars
    /\ UNCHANGED <<handler, registered, server, river, db, expired, failed>>

PublisherShutdownReturns ==
    /\ main = "publisher"
    /\ main' = "db"
    /\ ShutdownReturns
    /\ UNCHANGED <<handler, registered, server, river, db, expired, failed>>

\* The deferred db.Close of run(): the pool takes no more calls, and Close
\* waits for the connections that are out.
CloseDatabase ==
    /\ main = "db"
    /\ \/ db = "open" /\ db' = "closing"
       \/ db = "closing" /\ (\A r \in Requests : handler[r] # "querying")
                        /\ db' = "closed"
    /\ UNCHANGED <<vars, handler, main, registered, server, river, expired, failed>>

\* os.Exit: the goroutines that are left end wherever they are.
Exit ==
    /\ main = "db"
    /\ db = "closed"
    /\ main' = "exited"
    /\ UNCHANGED <<vars, handler, registered, server, river, db, expired, failed>>

-----------------------------------------------------------------------------
Worker ==
    /\ \/ Receive \/ CallProvider \/ ProviderReturns \/ ContextExpires
       \/ FinishEvent \/ WorkerExits
    /\ UNCHANGED appVars

Handlers ==
    \E r \in Requests :
        Accept(r) \/ Query(r) \/ Commit(r) \/ Answer(r) \/ CommitPublishes(r)

Starting ==
    \/ LoadFails \/ ConfigLoaded \/ ConnectFails \/ DatabaseConnected
    \/ WireFails \/ RiverClientFails \/ RiverClientCreated
    \/ RegisterProvider \/ RunStarts

Running ==
    \/ ServerStarts \/ ServerFails \/ RiverStarts \/ RunReturns \/ RiverStops
    \/ DeadlinePasses

Main ==
    \/ AbortReturns \/ ServerShutdownReturns \/ RiverStopReturns \/ ObservabilityStops
    \/ PublisherShutdownReturns \/ CloseDatabase \/ Exit

AppNext ==
    /\ main # "exited"
    /\ (Starting \/ Running \/ Handlers \/ Worker \/ Main)

AppSpec == AppInit /\ [][AppNext]_allVars

(* The main goroutine shuts down and the deadline passes while it waits;   *)
(* the worker as in MessagePublisher; a query in flight ends, with a       *)
(* result or a broken connection. Handlers are not asked to end otherwise, *)
(* River not at all, and nothing says that the start-up ends or that a     *)
(* signal ever comes.                                                      *)
AppFairness ==
    /\ WF_allVars(Main)
    /\ WF_allVars(DeadlinePasses)
    /\ WF_allVars(Worker /\ worker # "calling")
    /\ WF_allVars(Worker /\ worker = "calling" /\ (ContextExpires \/ ~ctxLive))
    /\ \A r \in Requests :
           WF_allVars(main # "exited" /\ handler[r] = "querying"
                          /\ (Commit(r) \/ Answer(r)))

FairAppSpec == AppSpec /\ AppFairness

-----------------------------------------------------------------------------
AppTypeOK ==
    /\ TypeOK
    /\ handler \in [Requests -> HandlerStates]
    /\ main \in MainStates
    /\ registered \in 0..NumProviders
    /\ server \in ServerStates
    /\ river \in RiverStates
    /\ db \in {"none", "open", "closing", "closed"}
    /\ expired \in BOOLEAN /\ failed \in BOOLEAN

\* A handler meets the closed channel only after server.Shutdown gave up on
\* it at the deadline: the order server before publisher is what keeps the
\* select of PublishEvent from panicking.
PanicOnlyIfAbandoned ==
    (\E r \in Requests : request[r] = "panicked") => server = "abandoned"

\* An orderly exit leaves nothing behind: once the handlers were drained, as
\* they were when the exit code is 0, every committed request has published,
\* and its event reached every provider unless the full channel turned it away.
CommittedEventsDelivered ==
    main = "exited" /\ (server = "drained" \/ ~failed) =>
        \A r \in Requests :
            /\ handler[r] # "committed"
            /\ request[r] = "sent" =>
                \A p \in Providers : \E i \in DOMAIN handed[p] : handed[p][i] = r

\* The worker reads the list of providers without a lock, and the providers
\* query the database through the pool: no event is there before the list is
\* complete, nor after the pool was closed.
ProvidersHaveDatabase ==
    accepted # <<>> =>
        registered = NumProviders /\ (db # "open" => worker = "done")

\* Once Run, or NewApp at the River client, has given up the process exits,
\* although a provider, a handler that is not in a query, or River may hang.
ShutdownEnds ==
    main \notin {"load", "connect", "wire", "register", "run"} ~> main = "exited"
=============================================================================
