-------------------------- MODULE MessagePublisher --------------------------
(***************************************************************************)
(* internal/service/message_publisher.go: the bounded channel between the  *)
(* request handlers and the one worker goroutine that hands every event to *)
(* the registered providers, one after the other, under one timeout.       *)
(* A request publishes at most one event, so an event is named by its      *)
(* request.                                                                *)
(***************************************************************************)
EXTENDS Naturals, Sequences

CONSTANTS
    Requests,      \* the API requests that reach the publisher
    BufferSize,    \* capacity of eventChan (MESSAGE_PUBLISHER_BUFFER_SIZE)
    NumProviders,  \* number of providers registered at startup
    None           \* no event in the worker's hands

ASSUME PublisherAssumption ==
    /\ BufferSize \in Nat \ {0}
    /\ NumProviders \in Nat
    /\ None \notin Requests

VARIABLES
    request,     \* request[r]: where the handler of r is
    eventChan,   \* the buffered channel, head first
    closed,      \* close(eventChan) has run
    worker,      \* where startWorker is
    event,       \* the event in the loop's body
    next,        \* index of the provider the inner loop calls next
    ctxLive,     \* the per-event context has not expired
    shutdown,    \* where the caller of Shutdown is
    accepted,    \* history: the events the channel took, in order
    handed       \* history: handed[p] is what provider p was called with

workerVars == <<worker, event, next, ctxLive>>
vars == <<request, eventChan, closed, worker, event, next, ctxLive, shutdown,
          accepted, handed>>

Providers == 1..NumProviders

RequestStates  == {"running", "sent", "dropped", "panicked"}
WorkerStates   == {"receiving", "looping", "calling", "done"}
ShutdownStates == {"no", "waiting", "returned"}

\* NewMessagePublisherManager, with the providers registered before any
\* event is published.
Init ==
    /\ request = [r \in Requests |-> "running"]
    /\ eventChan = <<>>
    /\ closed = FALSE
    /\ worker = "receiving"
    /\ event = None
    /\ next = 1
    /\ ctxLive = FALSE
    /\ shutdown = "no"
    /\ accepted = <<>>
    /\ handed = [p \in Providers |-> <<>>]

-----------------------------------------------------------------------------
(* The select statement of PublishEventWithChangedFields.                  *)

\* Mutant of SendEvent: the capacity is off by one.
SendEventBeyondCapacity(r) ==
    /\ request[r] = "running"
    /\ ~closed
    /\ Len(eventChan) <= BufferSize
    /\ request' = [request EXCEPT ![r] = "sent"]
    /\ eventChan' = Append(eventChan, r)
    /\ accepted' = Append(accepted, r)
    /\ UNCHANGED <<closed, workerVars, shutdown, handed>>

\* case m.eventChan <- event
SendEvent(r) ==
    /\ request[r] = "running"
    /\ ~closed
    /\ Len(eventChan) < BufferSize
    /\ request' = [request EXCEPT ![r] = "sent"]
    /\ eventChan' = Append(eventChan, r)
    /\ accepted' = Append(accepted, r)
    /\ UNCHANGED <<closed, workerVars, shutdown, handed>>

\* default: the event is counted as discarded and the handler goes on
DropEvent(r) ==
    /\ request[r] = "running"
    /\ ~closed
    /\ Len(eventChan) >= BufferSize
    /\ request' = [request EXCEPT ![r] = "dropped"]
    /\ UNCHANGED <<eventChan, closed, workerVars, shutdown, accepted, handed>>

\* A send on a closed channel is always chosen by the select, and panics.
PanicOnClosed(r) ==
    /\ request[r] = "running"
    /\ closed
    /\ request' = [request EXCEPT ![r] = "panicked"]
    /\ UNCHANGED <<eventChan, closed, workerVars, shutdown, accepted, handed>>

PublishEvent(r) == SendEvent(r) \/ DropEvent(r) \/ PanicOnClosed(r)

-----------------------------------------------------------------------------
(* startWorker: for event := range m.eventChan { ... }                     *)

\* Mutant of Receive: the newest event first.
ReceiveNewest ==
    /\ worker = "receiving"
    /\ eventChan # <<>>
    /\ worker' = "looping"
    /\ event' = eventChan[Len(eventChan)]
    /\ eventChan' = SubSeq(eventChan, 1, Len(eventChan) - 1)
    /\ next' = 1
    /\ ctxLive' = TRUE
    /\ UNCHANGED <<request, closed, shutdown, accepted, handed>>

Receive ==
    /\ worker = "receiving"
    /\ eventChan # <<>>
    /\ worker' = "looping"
    /\ event' = Head(eventChan)
    /\ eventChan' = Tail(eventChan)
    /\ next' = 1
    /\ ctxLive' = TRUE
    /\ UNCHANGED <<request, closed, shutdown, accepted, handed>>

\* provider.PublishEvent(ctx, event) is entered, whatever is left of ctx
CallProvider ==
    /\ worker = "looping"
    /\ next \in Providers
    /\ worker' = "calling"
    /\ handed' = [handed EXCEPT ![next] = Append(@, event)]
    /\ UNCHANGED <<request, eventChan, closed, event, next, ctxLive, shutdown,
                   accepted>>

\* The provider comes back, by itself or because ctx is done.
ProviderReturns ==
    /\ worker = "calling"
    /\ worker' = "looping"
    /\ next' = next + 1
    /\ UNCHANGED <<request, eventChan, closed, event, ctxLive, shutdown,
                   accepted, handed>>

\* Mutant of ContextExpires: the providers run under context.Background().
ContextNeverExpires == FALSE /\ UNCHANGED vars

\* perEventTimeout passes: the one context of this event expires.
ContextExpires ==
    /\ worker \in {"looping", "calling"}
    /\ ctxLive
    /\ ctxLive' = FALSE
    /\ UNCHANGED <<request, eventChan, closed, worker, event, next, shutdown,
                   accepted, handed>>

\* Mutant of FinishEvent: the inner loop stops when the context is done.
FinishEventWhenExpired ==
    /\ worker = "looping"
    /\ next > NumProviders \/ ~ctxLive
    /\ worker' = "receiving"
    /\ event' = None
    /\ ctxLive' = FALSE
    /\ UNCHANGED <<request, eventChan, closed, next, shutdown, accepted,
                   handed>>

\* cancel(), then the next iteration of the outer loop
FinishEvent ==
    /\ worker = "looping"
    /\ next > NumProviders
    /\ worker' = "receiving"
    /\ event' = None
    /\ ctxLive' = FALSE
    /\ UNCHANGED <<request, eventChan, closed, next, shutdown, accepted,
                   handed>>

\* Mutant of WorkerExits: the worker stops as soon as the channel is closed.
WorkerExitsUndrained ==
    /\ worker = "receiving"
    /\ closed
    /\ worker' = "done"
    /\ UNCHANGED <<request, eventChan, closed, event, next, ctxLive, shutdown,
                   accepted, handed>>

\* range ends only when the channel is closed and drained: wg.Done()
WorkerExits ==
    /\ worker = "receiving"
    /\ closed
    /\ eventChan = <<>>
    /\ worker' = "done"
    /\ UNCHANGED <<request, eventChan, closed, event, next, ctxLive, shutdown,
                   accepted, handed>>

-----------------------------------------------------------------------------
(* Shutdown                                                                *)

\* Mutant of CloseChannel: Shutdown waits without closing the channel.
WaitWithoutClosing ==
    /\ shutdown = "no"
    /\ shutdown' = "waiting"
    /\ UNCHANGED <<request, eventChan, closed, workerVars, accepted, handed>>

CloseChannel ==
    /\ shutdown = "no"
    /\ shutdown' = "waiting"
    /\ closed' = TRUE
    /\ UNCHANGED <<request, eventChan, workerVars, accepted, handed>>

\* wg.Wait() returns
ShutdownReturns ==
    /\ shutdown = "waiting"
    /\ worker = "done"
    /\ shutdown' = "returned"
    /\ UNCHANGED <<request, eventChan, closed, workerVars, accepted, handed>>

-----------------------------------------------------------------------------
Next ==
    \/ \E r \in Requests : PublishEvent(r)
    \/ Receive \/ CallProvider \/ ProviderReturns \/ ContextExpires
    \/ FinishEvent \/ WorkerExits
    \/ CloseChannel \/ ShutdownReturns

Spec == Init /\ [][Next]_vars

(* The runtime schedules the worker, the timer and the goroutine in        *)
(* Shutdown. A provider is only bound to return once its context is done:  *)
(* all it waits for (the database, River) takes that context.              *)
Fairness ==
    /\ WF_vars(Receive) /\ WF_vars(CallProvider) /\ WF_vars(FinishEvent)
    /\ WF_vars(ContextExpires)
    /\ WF_vars(~ctxLive /\ ProviderReturns)
    /\ WF_vars(WorkerExits) /\ WF_vars(ShutdownReturns)

FairSpec == Spec /\ Fairness

-----------------------------------------------------------------------------
TypeOK ==
    /\ request \in [Requests -> RequestStates]
    /\ eventChan \in Seq(Requests)
    /\ Len(eventChan) <= BufferSize
    /\ closed \in BOOLEAN
    /\ worker \in WorkerStates
    /\ event \in Requests \cup {None}
    /\ next \in 1..(NumProviders + 1)
    /\ ctxLive \in BOOLEAN
    /\ shutdown \in ShutdownStates
    /\ accepted \in Seq(Requests)
    /\ handed \in [Providers -> Seq(Requests)]

\* What provider p still has to be called with: the event in the worker's
\* hands unless p was called with it, then the channel.
Outstanding(p) ==
    IF \/ worker = "looping" /\ p >= next
       \/ worker = "calling" /\ p > next
    THEN <<event>> \o eventChan
    ELSE eventChan

\* Between the select in the handlers and the call of each provider no event
\* is lost, repeated or overtaken: what a provider was called with, followed
\* by what is on its way to it, is the sequence of accepted events.
HandedInOrder ==
    \A p \in Providers : accepted = handed[p] \o Outstanding(p)

\* Shutdown "waits for the buffer to drain" (the comment on Shutdown): when
\* it returns, every provider was called with every accepted event.
DrainedOnShutdown ==
    shutdown = "returned" => \A p \in Providers : handed[p] = accepted

\* "so one stuck provider doesn't freeze the worker": a provider that never
\* returns by itself still lets every accepted event reach every provider.
EveryEventReachesProviders ==
    \A r \in Requests :
        request[r] = "sent" ~>
            \A p \in Providers : \E i \in DOMAIN handed[p] : handed[p][i] = r

\* Shutdown comes back, whatever is buffered and whichever provider is stuck.
ShutdownTerminates == shutdown = "waiting" ~> shutdown = "returned"

Refused == {r \in Requests : request[r] \in {"dropped", "panicked"}}

Bus == INSTANCE EventBus WITH
            Events <- Requests, log <- accepted, refused <- Refused,
            consumed <- handed

\* The channel and its worker implement the event bus the hub relies on.
ImplementsEventBus == Bus!BusSpec
=============================================================================
