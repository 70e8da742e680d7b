----------------------------- MODULE QueryCache -----------------------------
(***************************************************************************)
(* The embedding of a search query (getQueryEmbeddingCached in             *)
(* internal/service/search_service.go): an LRU cache in front of the       *)
(* embeddings API, and a singleflight group so that concurrent searches    *)
(* for one query share one call. The shared call runs under the context of *)
(* the search that made it; the others wait without looking at their own.  *)
(* lru.Cache and singleflight.Group are external: which entry a full cache *)
(* evicts is left open, since no property depends on it.                   *)
(***************************************************************************)
EXTENDS Naturals, FiniteSets

CONSTANTS
    Callers,    \* the search requests
    Queries,    \* the trimmed query texts
    Nobody,     \* no caller
    CacheSize,  \* searchQueryCacheSize
    MaxErrors   \* bound: errors of the embeddings API

ASSUME CacheAssumption ==
    /\ IsFiniteSet(Callers) /\ Queries # {}
    /\ Nobody \notin Callers
    /\ CacheSize \in Nat \ {0}
    /\ MaxErrors \in Nat

VARIABLES
    caller,     \* caller[c]: where the request is, its query, whose call it got
    flight,     \* flight[q]: the entry of the group and how far its call is
    cache,      \* the queries whose vector is cached
    cancelled,  \* the requests whose context ended
    broken,     \* history: callers whose call the API answered with an error
    errors,     \* bound: Cardinality of the errors so far
    loads,      \* history: loads[q], calls to the API
    allowed     \* history: allowed[q], the calls there is a reason for

vars == <<caller, flight, cache, cancelled, broken, errors, loads, allowed>>

Caller == [at : {"idle", "missed", "leading", "waiting", "answered", "failed"},
           query : Queries, leader : Callers \cup {Nobody}]
Flight == [leader : Callers \cup {Nobody},
           stage : {"none", "calling", "loaded", "failed"}]
NoFlight == [leader |-> Nobody, stage |-> "none"]

Done(c) == caller[c].at \in {"answered", "failed"}
At(at, q) == {c \in Callers : caller[c].at = at /\ caller[c].query = q}

Init ==
    /\ caller = [c \in Callers |->
           [at |-> "idle", query |-> CHOOSE q \in Queries : TRUE,
            leader |-> Nobody]]
    /\ flight = [q \in Queries |-> NoFlight]
    /\ cache = {} /\ cancelled = {} /\ broken = {} /\ errors = 0
    /\ loads = [q \in Queries |-> 0]
    /\ allowed = [q \in Queries |-> 1]

-----------------------------------------------------------------------------
\* queryCache.Get
Hit(c, q) ==
    /\ caller[c].at = "idle"
    /\ q \in cache
    /\ caller' = [caller EXCEPT ![c].at = "answered", ![c].query = q]
    /\ UNCHANGED <<flight, cache, cancelled, broken, errors, loads, allowed>>

Miss(c, q) ==
    /\ caller[c].at = "idle"
    /\ q \notin cache
    /\ caller' = [caller EXCEPT ![c].at = "missed", ![c].query = q]
    /\ UNCHANGED <<flight, cache, cancelled, broken, errors, loads, allowed>>

\* Mutant of Lead: the group is not asked, every miss calls the API.
LeadAlways(c, q) ==
    /\ c \in At("missed", q)
    /\ flight' = [flight EXCEPT ![q] = [leader |-> c, stage |-> "calling"]]
    /\ caller' = [caller EXCEPT ![c].at = "leading", ![c].leader = c]
    /\ loads' = [loads EXCEPT ![q] = @ + 1]
    /\ UNCHANGED <<cache, cancelled, broken, errors, allowed>>

\* queryLoadGroup.Do, nobody is loading q: CreateEmbeddingForQuery starts
Lead(c, q) ==
    /\ c \in At("missed", q)
    /\ flight[q].stage = "none"
    /\ flight' = [flight EXCEPT ![q] = [leader |-> c, stage |-> "calling"]]
    /\ caller' = [caller EXCEPT ![c].at = "leading", ![c].leader = c]
    /\ loads' = [loads EXCEPT ![q] = @ + 1]
    /\ UNCHANGED <<cache, cancelled, broken, errors, allowed>>

\* queryLoadGroup.Do, somebody is: wait for that call
Join(c, q) ==
    /\ c \in At("missed", q)
    /\ flight[q].stage # "none"
    /\ caller' = [caller EXCEPT ![c].at = "waiting", ![c].leader = flight[q].leader]
    /\ UNCHANGED <<flight, cache, cancelled, broken, errors, loads, allowed>>

\* Mutant of Full: one entry too many.
FullTooLate == Cardinality(cache) > CacheSize

Full == Cardinality(cache) >= CacheSize

\* queryCache.Add: a full cache evicts another entry
Cached(q) ==
    IF q \in cache THEN {cache}
    ELSE IF Full THEN {(cache \ {x}) \cup {q} : x \in cache}
    ELSE {cache \cup {q}}

\* The API answered: the vector is cached before the group forgets the call.
\* The searches that missed before and have not asked the group yet may each
\* call again, and so may one search for the query that was evicted.
LoadSucceeds(q) ==
    /\ flight[q].stage = "calling"
    /\ cache' \in Cached(q)
    /\ flight' = [flight EXCEPT ![q].stage = "loaded"]
    /\ allowed' = [x \in Queries |->
           allowed[x] + (IF x = q THEN Cardinality(At("missed", q))
                         ELSE IF x \in cache \ cache' THEN 1 ELSE 0)]
    /\ UNCHANGED <<caller, cancelled, broken, errors, loads>>

\* Mutant of LoadCancelled: the call ends with any of the searches it serves.
AnyoneCancels(q) ==
    /\ flight[q].stage = "calling"
    /\ \E c \in At("leading", q) \cup At("waiting", q) : c \in cancelled
    /\ flight' = [flight EXCEPT ![q].stage = "failed"]
    /\ allowed' = [allowed EXCEPT ![q] = @ + 1]
    /\ UNCHANGED <<caller, cache, cancelled, broken, errors, loads>>

\* The context the call runs under is its maker's.
LoadCancelled(q) ==
    /\ flight[q].stage = "calling"
    /\ flight[q].leader \in cancelled
    /\ flight' = [flight EXCEPT ![q].stage = "failed"]
    /\ allowed' = [allowed EXCEPT ![q] = @ + 1]
    /\ UNCHANGED <<caller, cache, cancelled, broken, errors, loads>>

LoadFails(q) ==
    /\ flight[q].stage = "calling"
    /\ errors < MaxErrors /\ errors' = errors + 1
    /\ broken' = broken \cup {flight[q].leader}
    /\ flight' = [flight EXCEPT ![q].stage = "failed"]
    /\ allowed' = [allowed EXCEPT ![q] = @ + 1]
    /\ UNCHANGED <<caller, cache, cancelled, loads>>

Outcome(q) == IF flight[q].stage = "loaded" THEN "answered" ELSE "failed"

\* Mutant of Served: only the search that made the call gets the result.
ServedLeader(q) == At("leading", q)

Served(q) == At("leading", q) \cup At("waiting", q)

\* Do ends: under the group's lock the key is deleted and the waiters are
\* released, all with the result of the call.
FlightEnds(q) ==
    /\ flight[q].stage \in {"loaded", "failed"}
    /\ flight' = [flight EXCEPT ![q] = NoFlight]
    /\ caller' = [c \in Callers |->
           IF c \in Served(q) THEN [caller[c] EXCEPT !.at = Outcome(q)]
           ELSE caller[c]]
    /\ UNCHANGED <<cache, cancelled, broken, errors, loads, allowed>>

\* The client of a request goes away.
Cancel(c) ==
    /\ ~Done(c)
    /\ cancelled' = cancelled \cup {c}
    /\ UNCHANGED <<caller, flight, cache, broken, errors, loads, allowed>>

-----------------------------------------------------------------------------
\* What the goroutines of the service do by themselves once they can.
Proceed(c, q) == Lead(c, q) \/ Join(c, q)

Next ==
    \/ \E c \in Callers, q \in Queries : Hit(c, q) \/ Miss(c, q) \/ Proceed(c, q)
    \/ \E q \in Queries : \/ LoadSucceeds(q) \/ LoadCancelled(q) \/ LoadFails(q)
                          \/ FlightEnds(q)
    \/ \E c \in Callers : Cancel(c)

Spec == Init /\ [][Next]_vars

\* Nothing makes a search arrive, the API answer or a client go away.
FairSpec ==
    /\ Spec
    /\ \A c \in Callers, q \in Queries : WF_vars(Proceed(c, q))
    /\ \A q \in Queries : WF_vars(FlightEnds(q)) /\ WF_vars(LoadCancelled(q))

-----------------------------------------------------------------------------
TypeOK ==
    /\ caller \in [Callers -> Caller]
    /\ flight \in [Queries -> Flight]
    /\ cache \subseteq Queries /\ Cardinality(cache) <= CacheSize
    /\ cancelled \subseteq Callers /\ broken \subseteq Callers
    /\ errors \in 0..MaxErrors
    /\ loads \in [Queries -> Nat] /\ allowed \in [Queries -> Nat]

\* A search fails only by an error of the API or by the end of the context of
\* the search whose call it shares: never by its own patience running out, and
\* never by what happened to another waiter.
FailsOnlyWithLeader ==
    \A c \in Callers : caller[c].at = "failed" =>
        caller[c].leader \in cancelled \cup broken

\* The API is called again for a query only for a reason: its last call
\* failed, its vector was evicted, or a search had looked into the cache
\* before the vector was there and asked the group after the call was over.
LoadsHaveReasons == \A q \in Queries : loads[q] <= allowed[q]

\* Whoever is cancelled or fails meanwhile, no search is left waiting for a
\* call that is over: each ends, if no call of the API hangs for ever.
EveryCallerAnswered ==
    (\A q \in Queries : []<>(flight[q].stage # "calling"))
        => \A c \in Callers : caller[c].at = "missed" ~> Done(c)
=============================================================================
