------------------------------ MODULE EventBus ------------------------------
(***************************************************************************)
(* What the event publisher promises the rest of the hub, with no channel, *)
(* worker or timeout in it: an event is either taken into one log or       *)
(* refused, for good; and every provider consumes that log in its order,   *)
(* each entry at most once, the provider registered first always first.    *)
(* MessagePublisher implements it.                                         *)
(***************************************************************************)
EXTENDS Naturals, Sequences

CONSTANTS
    Events,       \* the events that may be published, one per request
    NumProviders  \* number of registered providers, in registration order

VARIABLES
    log,      \* the events taken, in the order they were taken
    refused,  \* the events that were turned away
    consumed  \* consumed[p]: what provider p was given so far

busVars == <<log, refused, consumed>>

Consumers == 1..NumProviders

Entries == {log[i] : i \in DOMAIN log}

BusInit ==
    /\ log = <<>>
    /\ refused = {}
    /\ consumed = [p \in Consumers |-> <<>>]

Take(e) ==
    /\ e \notin Entries \cup refused
    /\ log' = Append(log, e)
    /\ UNCHANGED <<refused, consumed>>

Refuse(e) ==
    /\ e \notin Entries \cup refused
    /\ refused' = refused \cup {e}
    /\ UNCHANGED <<log, consumed>>

\* Provider p is given the next entry of the log, which the providers
\* registered before it were given already.
Consume(p) ==
    LET n == Len(consumed[p]) + 1
    IN  /\ n <= Len(log)
        /\ p > 1 => Len(consumed[p - 1]) >= n
        /\ consumed' = [consumed EXCEPT ![p] = Append(@, log[n])]
        /\ UNCHANGED <<log, refused>>

BusNext ==
    \/ \E e \in Events : Take(e) \/ Refuse(e)
    \/ \E p \in Consumers : Consume(p)

BusSpec == BusInit /\ [][BusNext]_busVars
=============================================================================
