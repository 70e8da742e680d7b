------------------------- MODULE AppLifecycle_proofs -------------------------
(***************************************************************************)
(* The safety half of MessagePublisher, then of AppLifecycle, which is its *)
(* extension by the process around it, for every number of requests and    *)
(* providers and every buffer size.                                        *)
(*                                                                         *)
(* First the publisher: its types, no event lost, repeated or overtaken on *)
(* the way to a provider, a drained buffer at shutdown, and the refinement *)
(* of EventBus. The process only ever moves the publisher by the           *)
(* publisher's own steps, so that inductive invariant is at hand for the   *)
(* second part; what is added there is where the main goroutine is when    *)
(* the publisher closes.                                                   *)
(***************************************************************************)
EXTENDS AppLifecycle, SequenceTheorems, TLAPS

-----------------------------------------------------------------------------
(* The publisher: sequences.                                               *)

\* Moving an element from the front of a suffix to the end of a prefix.
LEMMA AppendThenConcat ==
    ASSUME NEW S, NEW s \in Seq(S), NEW t \in Seq(S), NEW e \in S
    PROVE  Append(s, e) \o t = s \o (<<e>> \o t)
<1>1. Append(s, e) = s \o <<e>>
  OBVIOUS
<1>2. <<e>> \in Seq(S)
  OBVIOUS
<1> QED
  BY <1>1, <1>2, ConcatAssociative

\* A sequence is its head followed by its tail.
LEMMA HeadThenTail ==
    ASSUME NEW S, NEW s \in Seq(S), s # <<>>
    PROVE  s = <<Head(s)>> \o Tail(s)
<1>1. /\ Head(s) \in S
      /\ Tail(s) \in Seq(S)
      /\ <<Head(s)>> \in Seq(S)
  BY HeadTailProperties
<1>2. <<Head(s)>> \o Tail(s) \in Seq(S)
  BY <1>1, ConcatProperties
<1>3. Len(s) = Len(<<Head(s)>> \o Tail(s))
  BY <1>1, HeadTailProperties, ConcatProperties
<1>4. \A i \in 1..Len(s) : s[i] = (<<Head(s)>> \o Tail(s))[i]
  BY <1>1, HeadTailProperties, ConcatProperties, EmptySeq
<1> QED
  BY <1>2, <1>3, <1>4, SeqEqual

\* What follows a prefix s in s \o (<<e>> \o t).
LEMMA AfterPrefix ==
    ASSUME NEW S, NEW s \in Seq(S), NEW t \in Seq(S), NEW e \in S
    PROVE  /\ Len(s \o (<<e>> \o t)) = Len(s) + 1 + Len(t)
           /\ (s \o (<<e>> \o t))[Len(s) + 1] = e
<1>1. /\ <<e>> \in Seq(S)
      /\ Len(<<e>>) = 1
      /\ <<e>>[1] = e
  OBVIOUS
<1>2. /\ <<e>> \o t \in Seq(S)
      /\ Len(<<e>> \o t) = 1 + Len(t)
      /\ (<<e>> \o t)[1] = e
  BY <1>1, ConcatProperties, LenProperties
<1>3. /\ Len(s) \in Nat
      /\ Len(t) \in Nat
  BY LenProperties
<1> QED
  BY <1>2, <1>3, ConcatProperties

-----------------------------------------------------------------------------
(* The inductive invariant. HandedInOrder is not inductive alone: a step   *)
(* of the worker preserves it only if the worker holds an event, and the   *)
(* buffer is known to be empty at shutdown only through the worker.        *)

Phases ==
    /\ worker \in {"looping", "calling"} => event \in Requests
    /\ worker = "calling" => next \in Providers
    /\ closed <=> shutdown # "no"
    /\ worker = "done" => closed /\ eventChan = <<>>
    /\ shutdown = "returned" => worker = "done"

\* The log holds only events whose request saw its send succeed.
AcceptedWereSent ==
    \A i \in DOMAIN accepted : request[accepted[i]] = "sent"

IndInv == TypeOK /\ Phases /\ AcceptedWereSent /\ HandedInOrder

-----------------------------------------------------------------------------
\* The worker holds what TypeOK says, and every outstanding sequence too.
LEMMA OutstandingType ==
    ASSUME TypeOK, Phases, NEW p \in Providers
    PROVE  Outstanding(p) \in Seq(Requests)
<1>1. CASE worker \in {"looping", "calling"}
  <2>1. <<event>> \in Seq(Requests)
    BY <1>1 DEF Phases
  <2>2. <<event>> \o eventChan \in Seq(Requests)
    BY <2>1, ConcatProperties DEF TypeOK
  <2> QED
    BY <2>2 DEF TypeOK, Outstanding
<1>2. CASE worker \notin {"looping", "calling"}
  BY <1>2 DEF TypeOK, Outstanding
<1> QED
  BY <1>1, <1>2

\* The initial states satisfy the inductive invariant.
LEMMA InitIndInv == Init => IndInv
<1> SUFFICES ASSUME Init PROVE IndInv
  OBVIOUS
<1> USE PublisherAssumption
<1>1. TypeOK
  <2>1. <<>> \in Seq(Requests) /\ Len(<<>>) = 0
    BY EmptySeq
  <2>2. 1 \in 1..(NumProviders + 1) /\ 0 <= BufferSize
    OBVIOUS
  <2>3. /\ request \in [Requests -> RequestStates]
        /\ handed \in [Providers -> Seq(Requests)]
    BY <2>1 DEF Init, RequestStates
  <2> QED
    BY <2>1, <2>2, <2>3 DEF Init, TypeOK, WorkerStates, ShutdownStates
<1>2. Phases /\ AcceptedWereSent
  BY DEF Init, Phases, AcceptedWereSent
<1>3. HandedInOrder
  <2>1. <<>> \o <<>> = <<>>
    OBVIOUS
  <2> QED
    BY <2>1 DEF Init, HandedInOrder, Outstanding, Providers
<1> QED
  BY <1>1, <1>2, <1>3 DEF IndInv

\* Every step preserves the types: a send finds a free slot in the channel,
\* a provider call happens inside the loop over the providers.
LEMMA NextTypeOK ==
    ASSUME TypeOK, Phases, [Next]_vars
    PROVE  TypeOK'
<1> USE PublisherAssumption DEF TypeOK, RequestStates, WorkerStates,
        ShutdownStates, Providers
<1>1. ASSUME NEW r \in Requests, SendEvent(r) PROVE TypeOK'
  BY <1>1, AppendProperties DEF SendEvent, workerVars
<1>2. ASSUME NEW r \in Requests, DropEvent(r) PROVE TypeOK'
  BY <1>2 DEF DropEvent, workerVars
<1>3. ASSUME NEW r \in Requests, PanicOnClosed(r) PROVE TypeOK'
  BY <1>3 DEF PanicOnClosed, workerVars
<1>4. CASE Receive
  BY <1>4, HeadTailProperties DEF Receive
<1>5. CASE CallProvider
  <2>1. event \in Requests
    BY <1>5 DEF CallProvider, Phases
  <2>2. handed' \in [Providers -> Seq(Requests)]
    BY <1>5, <2>1, AppendProperties DEF CallProvider
  <2> QED
    BY <1>5, <2>2 DEF CallProvider
<1>6. CASE ProviderReturns
  BY <1>6 DEF ProviderReturns, Phases
<1>7. CASE ContextExpires
  BY <1>7 DEF ContextExpires
<1>8. CASE FinishEvent
  BY <1>8 DEF FinishEvent
<1>9. CASE WorkerExits
  BY <1>9 DEF WorkerExits
<1>10. CASE CloseChannel
  BY <1>10 DEF CloseChannel, workerVars
<1>11. CASE ShutdownReturns
  BY <1>11 DEF ShutdownReturns, workerVars
<1>12. CASE UNCHANGED vars
  BY <1>12 DEF vars
<1> QED
  BY <1>1, <1>2, <1>3, <1>4, <1>5, <1>6, <1>7, <1>8, <1>9, <1>10, <1>11,
     <1>12 DEF Next, PublishEvent

\* Every step preserves the agreement of worker, channel and Shutdown: no
\* send succeeds once the channel is closed, so a drained buffer stays empty.
LEMMA NextPhases ==
    ASSUME TypeOK, Phases, [Next]_vars
    PROVE  Phases'
<1> USE DEF TypeOK, Phases, WorkerStates, ShutdownStates, Providers
<1>1. ASSUME NEW r \in Requests, PublishEvent(r) PROVE Phases'
  BY <1>1 DEF PublishEvent, SendEvent, DropEvent, PanicOnClosed, workerVars
<1>2. CASE Receive
  BY <1>2, HeadTailProperties DEF Receive
<1>3. CASE CallProvider
  BY <1>3 DEF CallProvider
<1>4. CASE ProviderReturns \/ ContextExpires
  BY <1>4 DEF ProviderReturns, ContextExpires
<1>5. CASE FinishEvent \/ WorkerExits
  BY <1>5 DEF FinishEvent, WorkerExits
<1>6. CASE CloseChannel \/ ShutdownReturns
  BY <1>6 DEF CloseChannel, ShutdownReturns, workerVars
<1>7. CASE UNCHANGED vars
  BY <1>7 DEF vars
<1> QED
  BY <1>1, <1>2, <1>3, <1>4, <1>5, <1>6, <1>7 DEF Next

\* A request leaves "running" once; the log only grows by the sender.
LEMMA NextAcceptedWereSent ==
    ASSUME TypeOK, AcceptedWereSent, [Next]_vars
    PROVE  AcceptedWereSent'
<1>1. ASSUME NEW r \in Requests, SendEvent(r) PROVE AcceptedWereSent'
  <2>1. /\ request' = [request EXCEPT ![r] = "sent"]
        /\ accepted' = Append(accepted, r)
        /\ accepted \in Seq(Requests)
        /\ request \in [Requests -> RequestStates]
    BY <1>1 DEF SendEvent, TypeOK
  <2>2. SUFFICES ASSUME NEW i \in DOMAIN accepted'
                 PROVE  request'[accepted'[i]] = "sent"
    BY DEF AcceptedWereSent
  <2>3. CASE i = Len(accepted) + 1
    BY <2>1, <2>3
  <2>4. CASE i # Len(accepted) + 1
    <3>1. i \in DOMAIN accepted /\ accepted'[i] = accepted[i]
      BY <2>1, <2>4
    <3>2. accepted[i] \in Requests /\ request[accepted[i]] = "sent"
      BY <2>1, <3>1 DEF AcceptedWereSent
    <3> QED
      BY <2>1, <3>1, <3>2
  <2> QED
    BY <2>3, <2>4
<1>2. ASSUME NEW r \in Requests, DropEvent(r) \/ PanicOnClosed(r)
      PROVE AcceptedWereSent'
  <2>1. \A q \in Requests : request[q] = "sent" => request'[q] = "sent"
    BY <1>2 DEF DropEvent, PanicOnClosed, TypeOK
  <2>2. \A i \in DOMAIN accepted : accepted[i] \in Requests
    BY DEF TypeOK
  <2> QED
    BY <1>2, <2>1, <2>2 DEF DropEvent, PanicOnClosed, AcceptedWereSent
<1>3. CASE UNCHANGED <<request, accepted>>
  BY <1>3 DEF AcceptedWereSent
<1> QED
  BY <1>1, <1>2, <1>3 DEF Next, PublishEvent, Receive, CallProvider,
     ProviderReturns, ContextExpires, FinishEvent, WorkerExits, CloseChannel,
     ShutdownReturns, vars

-----------------------------------------------------------------------------
\* Every step of a request, the worker or Shutdown preserves the order: an
\* accepted event goes to the end of what is outstanding for every provider,
\* and the call of a provider moves the front of it to what was handed.
LEMMA NextHandedInOrder ==
    ASSUME TypeOK, Phases, HandedInOrder, [Next]_vars
    PROVE  HandedInOrder'
<1> SUFFICES ASSUME NEW p \in Providers
             PROVE  accepted' = handed'[p] \o Outstanding(p)'
  BY DEF HandedInOrder
<1>1. accepted = handed[p] \o Outstanding(p)
  BY DEF HandedInOrder
<1>2. /\ handed[p] \in Seq(Requests)
      /\ eventChan \in Seq(Requests)
      /\ Outstanding(p) \in Seq(Requests)
  BY OutstandingType DEF TypeOK
<1>3. /\ p \in Nat \ {0} /\ p <= NumProviders
      /\ next \in Nat \ {0}
      /\ NumProviders \in Nat
  BY PublisherAssumption DEF TypeOK, Providers
<1>4. ASSUME NEW r \in Requests, SendEvent(r)
      PROVE  accepted' = handed'[p] \o Outstanding(p)'
  <2>1. /\ accepted' = Append(accepted, r)
        /\ eventChan' = Append(eventChan, r)
        /\ UNCHANGED <<worker, event, next, handed>>
    BY <1>4 DEF SendEvent, workerVars
  <2>2. Outstanding(p)' = Append(Outstanding(p), r)
    <3>1. CASE \/ worker = "looping" /\ p >= next
               \/ worker = "calling" /\ p > next
      <4>1. <<event>> \in Seq(Requests)
        BY <3>1 DEF Phases
      <4>2. Append(<<event>> \o eventChan, r)
              = <<event>> \o Append(eventChan, r)
        BY <1>2, <4>1
      <4> QED
        BY <2>1, <3>1, <4>2 DEF Outstanding
    <3>2. CASE ~(\/ worker = "looping" /\ p >= next
                 \/ worker = "calling" /\ p > next)
      BY <2>1, <3>2 DEF Outstanding
    <3> QED
      BY <3>1, <3>2
  <2>3. Append(accepted, r) = handed[p] \o Append(Outstanding(p), r)
    <3>1. <<r>> \in Seq(Requests)
      OBVIOUS
    <3>2. /\ Append(accepted, r) = accepted \o <<r>>
          /\ Append(Outstanding(p), r) = Outstanding(p) \o <<r>>
      BY <1>2 DEF TypeOK
    <3>3. (handed[p] \o Outstanding(p)) \o <<r>>
            = handed[p] \o (Outstanding(p) \o <<r>>)
      <4>1. \A s, t, u \in Seq(Requests) : (s \o t) \o u = s \o (t \o u)
        BY ConcatAssociative
      <4> QED
        BY <1>2, <3>1, <4>1
    <3> QED
      BY <1>1, <3>2, <3>3
  <2> QED
    BY <2>1, <2>2, <2>3
<1>5. CASE Receive
  <2>1. /\ worker = "receiving" /\ worker' = "looping"
        /\ next' = 1
        /\ event' = Head(eventChan)
        /\ eventChan' = Tail(eventChan)
        /\ eventChan # <<>>
        /\ UNCHANGED <<accepted, handed>>
    BY <1>5 DEF Receive
  <2>2. Outstanding(p) = eventChan
    BY <2>1 DEF Outstanding
  <2>3. Outstanding(p)' = <<Head(eventChan)>> \o Tail(eventChan)
    BY <1>3, <2>1 DEF Outstanding
  <2>4. eventChan = <<Head(eventChan)>> \o Tail(eventChan)
    BY <1>2, <2>1, HeadThenTail
  <2> QED
    BY <1>1, <2>1, <2>2, <2>3, <2>4
<1>6. CASE CallProvider
  <2>1. /\ worker = "looping" /\ worker' = "calling"
        /\ next \in Providers
        /\ handed' = [handed EXCEPT ![next] = Append(@, event)]
        /\ UNCHANGED <<accepted, eventChan, event, next>>
    BY <1>6 DEF CallProvider
  <2>2. event \in Requests
    BY <2>1 DEF Phases
  <2>3. CASE p = next
    <3>1. Outstanding(p) = <<event>> \o eventChan
      BY <1>3, <2>1, <2>3 DEF Outstanding
    <3>2. Outstanding(p)' = eventChan
      BY <1>3, <2>1, <2>3 DEF Outstanding
    <3>3. handed'[p] = Append(handed[p], event)
      BY <2>1, <2>3 DEF TypeOK
    <3>4. Append(handed[p], event) \o eventChan
            = handed[p] \o (<<event>> \o eventChan)
      BY <1>2, <2>2, AppendThenConcat
    <3> QED
      BY <1>1, <2>1, <3>1, <3>2, <3>3, <3>4
  <2>4. CASE p # next
    <3>1. Outstanding(p)' = Outstanding(p)
      BY <1>3, <2>1, <2>4 DEF Outstanding
    <3>2. handed'[p] = handed[p]
      BY <2>1, <2>4 DEF TypeOK
    <3> QED
      BY <1>1, <2>1, <3>1, <3>2
  <2> QED
    BY <2>3, <2>4
<1>7. CASE ProviderReturns
  <2>1. /\ worker = "calling" /\ worker' = "looping"
        /\ next' = next + 1
        /\ UNCHANGED <<accepted, handed, eventChan, event>>
    BY <1>7 DEF ProviderReturns
  <2>2. p >= next + 1 <=> p > next
    BY <1>3
  <2>3. Outstanding(p)' = Outstanding(p)
    BY <2>1, <2>2 DEF Outstanding
  <2> QED
    BY <1>1, <2>1, <2>3
<1>8. CASE FinishEvent
  <2>1. /\ worker = "looping" /\ worker' = "receiving"
        /\ next > NumProviders
        /\ UNCHANGED <<accepted, handed, eventChan>>
    BY <1>8 DEF FinishEvent
  <2>2. ~(p >= next)
    BY <1>3, <2>1
  <2>3. Outstanding(p)' = Outstanding(p)
    BY <2>1, <2>2 DEF Outstanding
  <2> QED
    BY <1>1, <2>1, <2>3
<1>9. CASE WorkerExits
  BY <1>1, <1>9 DEF WorkerExits, Outstanding
<1>10. CASE UNCHANGED <<accepted, handed, eventChan, worker, event, next>>
  BY <1>1, <1>10 DEF Outstanding
<1> QED
  BY <1>4, <1>5, <1>6, <1>7, <1>8, <1>9, <1>10 DEF Next, PublishEvent,
     DropEvent, PanicOnClosed, ContextExpires, CloseChannel, ShutdownReturns,
     workerVars, vars

\* The inductive invariant holds in every reachable state.
LEMMA SpecIndInv == Spec => []IndInv
<1>1. IndInv /\ [Next]_vars => IndInv'
  BY NextTypeOK, NextPhases, NextAcceptedWereSent, NextHandedInOrder
     DEF IndInv
<1> QED
  BY InitIndInv, <1>1, PTL DEF Spec

-----------------------------------------------------------------------------
(* The safety theorems.                                                    *)

\* Every variable keeps its type; in particular the channel never holds more
\* than BufferSize events and the provider index stays in range.
THEOREM TypeCorrect == Spec => []TypeOK
<1>1. IndInv => TypeOK
  BY DEF IndInv
<1> QED
  BY SpecIndInv, <1>1, PTL

\* Between the select in PublishEventWithChangedFields and the call of each
\* provider no event is lost, repeated or overtaken.
THEOREM OrderKept == Spec => []HandedInOrder
<1>1. IndInv => HandedInOrder
  BY DEF IndInv
<1> QED
  BY SpecIndInv, <1>1, PTL

\* A worker that is done has nothing outstanding for any provider.
LEMMA DrainedWhenReturned ==
    ASSUME IndInv, shutdown = "returned", NEW p \in Providers
    PROVE  handed[p] = accepted
<1>1. worker = "done" /\ eventChan = <<>>
  BY DEF IndInv, Phases
<1>2. Outstanding(p) = <<>>
  BY <1>1 DEF Outstanding
<1>3. handed[p] \in Seq(Requests)
  BY DEF IndInv, TypeOK
<1> QED
  BY <1>2, <1>3, ConcatEmptySeq DEF IndInv, HandedInOrder

\* When Shutdown has returned, every provider was called with every event
\* the channel ever accepted.
THEOREM ShutdownDrains == Spec => []DrainedOnShutdown
<1>1. IndInv => DrainedOnShutdown
  BY DrainedWhenReturned DEF DrainedOnShutdown
<1> QED
  BY SpecIndInv, <1>1, PTL

-----------------------------------------------------------------------------
(* The refinement of EventBus.                                             *)

\* The event the worker is about to hand to provider next is the next entry
\* of the log for it, and every earlier provider was given that entry.
LEMMA NextEntry ==
    ASSUME IndInv, worker = "looping", next \in Providers
    PROVE  /\ Len(handed[next]) + 1 <= Len(accepted)
           /\ accepted[Len(handed[next]) + 1] = event
           /\ next > 1 => Len(handed[next - 1]) >= Len(handed[next]) + 1
<1>1. /\ event \in Requests
      /\ eventChan \in Seq(Requests)
      /\ \A p \in Providers : handed[p] \in Seq(Requests)
      /\ next \in Nat
  BY PublisherAssumption DEF IndInv, TypeOK, Phases, Providers
<1>2. Outstanding(next) = <<event>> \o eventChan
  BY <1>1 DEF Outstanding
<1>3. accepted = handed[next] \o (<<event>> \o eventChan)
  BY <1>2 DEF IndInv, HandedInOrder
<1>4. /\ Len(accepted) = Len(handed[next]) + 1 + Len(eventChan)
      /\ accepted[Len(handed[next]) + 1] = event
  <2>1. \A s, t \in Seq(Requests) :
           /\ Len(s \o (<<event>> \o t)) = Len(s) + 1 + Len(t)
           /\ (s \o (<<event>> \o t))[Len(s) + 1] = event
    BY <1>1, AfterPrefix
  <2>2. handed[next] \in Seq(Requests)
    BY <1>1
  <2> QED
    BY <1>1, <1>3, <2>1, <2>2
<1>5. /\ Len(eventChan) \in Nat
      /\ \A p \in Providers : Len(handed[p]) \in Nat
  BY <1>1, LenProperties
<1>6. ASSUME next > 1
      PROVE  Len(handed[next - 1]) >= Len(handed[next]) + 1
  <2>1. next - 1 \in Providers /\ ~(next - 1 >= next)
    BY <1>1, <1>6, PublisherAssumption DEF Providers
  <2>2. Outstanding(next - 1) = eventChan
    BY <2>1 DEF Outstanding
  <2>3. accepted = handed[next - 1] \o eventChan
    BY <2>1, <2>2 DEF IndInv, HandedInOrder
  <2>4. Len(accepted) = Len(handed[next - 1]) + Len(eventChan)
    BY <1>1, <2>1, <2>3, ConcatProperties
  <2> QED
    BY <1>4, <1>5, <2>1, <2>4
<1> QED
  BY <1>4, <1>5, <1>6

\* A request that is still running has neither sent nor lost its event.
LEMMA RunningIsUnseen ==
    ASSUME IndInv, NEW r \in Requests, request[r] = "running"
    PROVE  r \notin Bus!Entries \cup Refused
BY DEF IndInv, AcceptedWereSent, Bus!Entries, Refused

\* Every step of the publisher is a step of the bus or changes nothing of it.
LEMMA StepRefines ==
    ASSUME IndInv, [Next]_vars
    PROVE  [Bus!BusNext]_(Bus!busVars)
<1> USE DEF Bus!busVars
<1>1. ASSUME NEW r \in Requests, SendEvent(r) PROVE Bus!Take(r)
  <2>1. r \notin Bus!Entries \cup Refused
    BY <1>1, RunningIsUnseen DEF SendEvent
  <2>2. Refused' = Refused
    BY <1>1 DEF SendEvent, Refused, IndInv, TypeOK
  <2> QED
    BY <1>1, <2>1, <2>2 DEF SendEvent, Bus!Take
<1>2. ASSUME NEW r \in Requests, DropEvent(r) \/ PanicOnClosed(r)
      PROVE  Bus!Refuse(r)
  <2>1. r \notin Bus!Entries \cup Refused
    BY <1>2, RunningIsUnseen DEF DropEvent, PanicOnClosed
  <2>2. Refused' = Refused \cup {r}
    BY <1>2 DEF DropEvent, PanicOnClosed, Refused, IndInv, TypeOK
  <2> QED
    BY <1>2, <2>1, <2>2 DEF DropEvent, PanicOnClosed, Bus!Refuse
<1>3. CASE CallProvider
  <2>1. /\ next \in Bus!Consumers
        /\ Len(handed[next]) + 1 <= Len(accepted)
        /\ accepted[Len(handed[next]) + 1] = event
        /\ next > 1 => Len(handed[next - 1]) >= Len(handed[next]) + 1
    BY <1>3, NextEntry DEF CallProvider, Providers, Bus!Consumers
  <2>2. /\ handed' = [handed EXCEPT ![next] = Append(@, event)]
        /\ UNCHANGED <<accepted, Refused>>
    BY <1>3 DEF CallProvider, Refused
  <2>3. Bus!Consume(next)
    BY <2>1, <2>2 DEF Bus!Consume
  <2> QED
    BY <2>1, <2>3 DEF Bus!BusNext
<1>4. CASE UNCHANGED <<accepted, request, handed>>
  BY <1>4 DEF Refused
<1> QED
  BY <1>1, <1>2, <1>3, <1>4 DEF Bus!BusNext, Next, PublishEvent, Receive,
     ProviderReturns, ContextExpires, FinishEvent, WorkerExits, CloseChannel,
     ShutdownReturns, vars

\* The channel, its worker and Shutdown implement the event bus.
THEOREM PublisherImplementsBus == Spec => ImplementsEventBus
<1>1. Init => Bus!BusInit
  BY DEF Init, Bus!BusInit, Refused, Providers, Bus!Consumers
<1>2. IndInv /\ [Next]_vars => [Bus!BusNext]_(Bus!busVars)
  BY StepRefines
<1> QED
  BY SpecIndInv, <1>1, <1>2, PTL DEF Spec, ImplementsEventBus, Bus!BusSpec

-----------------------------------------------------------------------------
(* The process: its inductive invariant.                                   *)

\* The server is told to listen only by Run, once every provider is there;
\* without it there is no handler and no event.
NothingBeforeRun ==
    /\ main \in StartUp => server = "unused"
    /\ main \notin StartUp /\ registered # NumProviders =>
           main \in {"db", "exited"} /\ server = "unused"
    /\ server = "unused" =>
           accepted = <<>> /\ \A r \in Requests : handler[r] = "none"

\* message.Shutdown is called after server.Shutdown and before db.Close,
\* or when NewApp cannot make the River client.
PublisherClosesInOrder ==
    /\ main \in {"load", "connect", "wire", "register", "run", "server",
                 "river", "observability"} => shutdown = "no"
    /\ main \in {"abort", "publisher"} => shutdown = "waiting"
    /\ main \in {"db", "exited"} => shutdown = "returned" \/ server = "unused"

\* server.Shutdown has returned, one way or the other, once main is past it,
\* unless the server was never used; and it returns nil only when no handler
\* is left, for good. Whatever else happens makes the exit code a failure.
ServerStopsFirst ==
    /\ main = "run" => server \in {"unused", "listening", "failed"}
    /\ main = "server" => server = "draining"
    /\ main \in {"river", "observability", "publisher"} =>
           server \in {"drained", "abandoned"}
    /\ main \in {"db", "exited"} => server \in {"unused", "drained", "abandoned"}
    /\ server = "drained" => InFlight = {}
    /\ server = "abandoned" => failed
    /\ server = "unused" /\ main \in {"abort", "db", "exited"} => failed

\* The pool is closed by main, at the very end.
DatabaseClosesLast ==
    db # "open" => main \in {"load", "connect", "db", "exited"}

\* An event that was sent is in the log.
SentWereAccepted ==
    \A r \in Requests :
        request[r] = "sent" => \E i \in DOMAIN accepted : accepted[i] = r

AppIndInv ==
    /\ IndInv
    /\ AppTypeOK
    /\ NothingBeforeRun
    /\ PublisherClosesInOrder
    /\ ServerStopsFirst
    /\ DatabaseClosesLast
    /\ SentWereAccepted
    /\ PanicOnlyIfAbandoned

-----------------------------------------------------------------------------
\* A step of the process is a step of the publisher or leaves it alone.
LEMMA AppStepIsPublisherStep ==
    ASSUME [AppNext]_allVars
    PROVE  [Next]_vars
<1>1. CASE Handlers
  BY <1>1 DEF Handlers, Accept, Query, Commit, Answer, CommitPublishes, Next
<1>2. CASE Worker
  BY <1>2 DEF Worker, Next
<1>3. CASE Main
  BY <1>3 DEF Main, AbortReturns, ServerShutdownReturns, RiverStopReturns,
     ObservabilityStops, PublisherShutdownReturns, CloseDatabase, Exit, Next
<1>4. CASE Running
  BY <1>4 DEF Running, ServerStarts, ServerFails, RiverStarts, RunReturns,
     RiverStops, DeadlinePasses
<1>5. CASE Starting
  BY <1>5 DEF Starting, GiveUp, LoadFails, ConfigLoaded,
     ConnectFails, DatabaseConnected, WireFails, RiverClientFails,
     RiverClientCreated, RegisterProvider, RunStarts, Next
<1>6. CASE UNCHANGED allVars
  BY <1>6 DEF allVars
<1> QED
  BY <1>1, <1>2, <1>3, <1>4, <1>5, <1>6 DEF AppNext

\* The initial states satisfy the inductive invariant.
LEMMA InitAppIndInv == AppInit => AppIndInv
<1> SUFFICES ASSUME AppInit PROVE AppIndInv
  OBVIOUS
<1>1. Init /\ IndInv
  BY InitIndInv DEF AppInit
<1>2. AppTypeOK
  <2>1. registered \in 0..NumProviders
    BY PublisherAssumption DEF AppInit
  <2> QED
    BY <1>1, <2>1 DEF IndInv, AppInit, AppTypeOK, HandlerStates, MainStates,
       StartUp, ServerStates, RiverStates
<1>3. /\ NothingBeforeRun /\ PublisherClosesInOrder /\ ServerStopsFirst /\ DatabaseClosesLast
      /\ SentWereAccepted /\ PanicOnlyIfAbandoned
  BY <1>1 DEF AppInit, Init, NothingBeforeRun, StartUp,
     PublisherClosesInOrder, ServerStopsFirst, InFlight, DatabaseClosesLast, SentWereAccepted, PanicOnlyIfAbandoned
<1> QED
  BY <1>1, <1>2, <1>3 DEF AppIndInv

\* Every step preserves the types; those of the publisher are given.
LEMMA NextAppTypeOK ==
    ASSUME AppTypeOK, TypeOK', [AppNext]_allVars
    PROVE  AppTypeOK'
<1> USE DEF AppTypeOK, HandlerStates, MainStates, StartUp, ServerStates, RiverStates
<1>1. ASSUME NEW r \in Requests,
             Accept(r) \/ Query(r) \/ Commit(r) \/ Answer(r) \/ CommitPublishes(r)
      PROVE  AppTypeOK'
  BY <1>1 DEF Accept, Query, Commit, Answer, CommitPublishes
<1>2. CASE Worker
  BY <1>2 DEF Worker, appVars
<1>3. CASE Main
  BY <1>3 DEF Main, AbortReturns, ServerShutdownReturns, RiverStopReturns,
     ObservabilityStops, PublisherShutdownReturns, CloseDatabase, Exit
<1>4. CASE Running
  BY <1>4 DEF Running, ServerStarts, ServerFails, RiverStarts, RunReturns,
     RiverStops, DeadlinePasses
<1>5. CASE Starting
  <2>1. CASE RegisterProvider
    <3>1. registered' \in 0..NumProviders
      BY <2>1, PublisherAssumption DEF RegisterProvider
    <3> QED
      BY <2>1, <3>1 DEF RegisterProvider
  <2>2. CASE ~RegisterProvider
    BY <1>5, <2>2 DEF Starting, GiveUp, LoadFails, ConfigLoaded, ConnectFails,
       DatabaseConnected, WireFails, RiverClientFails, RiverClientCreated,
       RunStarts
  <2> QED
    BY <2>1, <2>2
<1>6. CASE UNCHANGED allVars
  BY <1>6 DEF allVars, appVars
<1> QED
  BY <1>1, <1>2, <1>3, <1>4, <1>5, <1>6 DEF AppNext, Handlers

\* What the steps of the publisher's worker and of a stuttering process leave.
LEMMA WorkerLeaves ==
    ASSUME Worker \/ UNCHANGED allVars
    PROVE  UNCHANGED <<request, accepted, shutdown, handler, main, registered,
                       server, db, failed>>
BY DEF Worker, Receive, CallProvider, ProviderReturns, ContextExpires,
   FinishEvent, WorkerExits, appVars, allVars, vars

\* Nothing happens to the server, the handlers and the log before Run, and Run
\* begins with the last provider.
LEMMA NextNothingBeforeRun ==
    ASSUME AppTypeOK, NothingBeforeRun, ServerStopsFirst, [AppNext]_allVars
    PROVE  NothingBeforeRun'
<1> USE DEF NothingBeforeRun, StartUp
<1>1. ASSUME NEW r \in Requests, Accept(r) PROVE NothingBeforeRun'
  BY <1>1 DEF Accept, vars
<1>2. ASSUME NEW r \in Requests,
             Query(r) \/ Commit(r) \/ Answer(r) \/ CommitPublishes(r)
      PROVE  NothingBeforeRun'
  <2>1. server # "unused"
    BY <1>2 DEF Query, Commit, Answer, CommitPublishes
  <2> QED
    BY <1>2, <2>1 DEF Query, Commit, Answer, CommitPublishes
<1>3. CASE Worker \/ UNCHANGED allVars
  BY <1>3, WorkerLeaves
<1>4. CASE Main
  BY <1>4 DEF Main, AbortReturns, ServerShutdownReturns, RiverStopReturns,
     ObservabilityStops, PublisherShutdownReturns, CloseDatabase, Exit,
     CloseChannel, ShutdownReturns, vars, ServerStopsFirst
<1>5. CASE Running
  BY <1>5 DEF Running, ServerStarts, ServerFails, RiverStarts, RunReturns,
     RiverStops, DeadlinePasses, vars
<1>6. CASE Starting
  BY <1>6 DEF Starting, GiveUp, LoadFails, ConfigLoaded,
     ConnectFails, DatabaseConnected, WireFails, RiverClientFails,
     RiverClientCreated, RegisterProvider, RunStarts,
     CloseChannel, vars
<1> QED
  BY <1>1, <1>2, <1>3, <1>4, <1>5, <1>6 DEF AppNext, Handlers

\* Only main closes the channel, in NewApp's error path or in Shutdown, and
\* it goes on to the pool only when the publisher's Shutdown has returned.
LEMMA NextPublisherClosesInOrder ==
    ASSUME AppTypeOK, NothingBeforeRun, PublisherClosesInOrder, ServerStopsFirst,
           [AppNext]_allVars
    PROVE  PublisherClosesInOrder'
<1> USE DEF PublisherClosesInOrder
<1>1. ASSUME NEW r \in Requests,
             Accept(r) \/ Query(r) \/ Commit(r) \/ Answer(r) \/ CommitPublishes(r)
      PROVE  UNCHANGED <<main, shutdown, server>>
  BY <1>1 DEF Accept, Query, Commit, Answer, CommitPublishes, PublishEvent,
     SendEvent, DropEvent, PanicOnClosed, vars
<1>2. CASE Worker \/ UNCHANGED allVars
  BY <1>2, WorkerLeaves
<1>3. CASE Main
  BY <1>3 DEF Main, AbortReturns, ServerShutdownReturns, RiverStopReturns,
     ObservabilityStops, PublisherShutdownReturns, CloseDatabase, Exit,
     CloseChannel, ShutdownReturns, vars
<1>4. CASE Running
  BY <1>4 DEF Running, ServerStarts, ServerFails, RiverStarts, RunReturns,
     RiverStops, DeadlinePasses, vars
<1>5. CASE Starting
  BY <1>5 DEF Starting, GiveUp, LoadFails, ConfigLoaded,
     ConnectFails, DatabaseConnected, WireFails, RiverClientFails,
     RiverClientCreated, RegisterProvider, RunStarts,
     CloseChannel, NothingBeforeRun, StartUp, vars
<1> QED
  BY <1>1, <1>2, <1>3, <1>4, <1>5 DEF AppNext, Handlers

\* Requests are accepted only while the server listens, so once it is
\* drained no handler comes back.
LEMMA NextServerStopsFirst ==
    ASSUME AppTypeOK, NothingBeforeRun, ServerStopsFirst, [AppNext]_allVars
    PROVE  ServerStopsFirst'
<1> USE DEF ServerStopsFirst, InFlight
<1>1. ASSUME NEW r \in Requests, Accept(r) PROVE ServerStopsFirst'
  BY <1>1 DEF Accept
<1>2. ASSUME NEW r \in Requests,
             Query(r) \/ Commit(r) \/ Answer(r) \/ CommitPublishes(r)
      PROVE  ServerStopsFirst'
  <2>1. r \in InFlight /\ UNCHANGED <<main, server, failed>>
    BY <1>2 DEF Query, Commit, Answer, CommitPublishes
  <2> QED
    BY <2>1
<1>3. CASE Worker \/ UNCHANGED allVars
  BY <1>3, WorkerLeaves
<1>4. CASE Main
  BY <1>4 DEF Main, AbortReturns, ServerShutdownReturns, RiverStopReturns,
     ObservabilityStops, PublisherShutdownReturns, CloseDatabase, Exit,
     NothingBeforeRun, StartUp
<1>5. CASE Running
  BY <1>5 DEF Running, ServerStarts, ServerFails, RiverStarts, RunReturns,
     RiverStops, DeadlinePasses
<1>6. CASE Starting
  BY <1>6 DEF Starting, GiveUp, LoadFails, ConfigLoaded,
     ConnectFails, DatabaseConnected, WireFails, RiverClientFails,
     RiverClientCreated, RegisterProvider, RunStarts,
     NothingBeforeRun, StartUp
<1> QED
  BY <1>1, <1>2, <1>3, <1>4, <1>5, <1>6 DEF AppNext, Handlers

\* Nobody but main closes the pool.
LEMMA NextDatabaseClosesLast ==
    ASSUME DatabaseClosesLast, [AppNext]_allVars
    PROVE  DatabaseClosesLast'
<1> USE DEF DatabaseClosesLast
<1>1. CASE Handlers
  BY <1>1 DEF Handlers, Accept, Query, Commit, Answer, CommitPublishes
<1>2. CASE Worker \/ UNCHANGED allVars
  BY <1>2, WorkerLeaves
<1>3. CASE Main
  BY <1>3 DEF Main, AbortReturns, ServerShutdownReturns, RiverStopReturns,
     ObservabilityStops, PublisherShutdownReturns, CloseDatabase, Exit
<1>4. CASE Running
  BY <1>4 DEF Running, ServerStarts, ServerFails, RiverStarts, RunReturns,
     RiverStops, DeadlinePasses
<1>5. CASE Starting
  BY <1>5 DEF Starting, GiveUp, LoadFails, ConfigLoaded,
     ConnectFails, DatabaseConnected, WireFails, RiverClientFails,
     RiverClientCreated, RegisterProvider, RunStarts
<1> QED
  BY <1>1, <1>2, <1>3, <1>4, <1>5 DEF AppNext

\* The log only grows, and the send that sets "sent" appends the event.
LEMMA NextSentWereAccepted ==
    ASSUME TypeOK, SentWereAccepted, [Next]_vars
    PROVE  SentWereAccepted'
<1>1. ASSUME NEW r \in Requests, SendEvent(r) PROVE SentWereAccepted'
  <2>1. /\ accepted' = Append(accepted, r)
        /\ request' = [request EXCEPT ![r] = "sent"]
    BY <1>1 DEF SendEvent
  <2>2. /\ Len(accepted) \in Nat
        /\ DOMAIN accepted' = 1..(Len(accepted) + 1)
        /\ accepted'[Len(accepted) + 1] = r
        /\ \A i \in 1..Len(accepted) : accepted'[i] = accepted[i]
    BY <2>1, AppendProperties, LenProperties DEF TypeOK
  <2>3. \A i \in DOMAIN accepted : i \in DOMAIN accepted' /\ accepted'[i] = accepted[i]
    BY <2>2, LenProperties DEF TypeOK
  <2>4. Len(accepted) + 1 \in DOMAIN accepted'
    BY <2>2
  <2>5. ASSUME NEW s \in Requests, request'[s] = "sent"
        PROVE  \E i \in DOMAIN accepted' : accepted'[i] = s
    <3>1. CASE s = r
      BY <2>2, <2>4, <3>1
    <3>2. CASE s # r
      BY <2>1, <2>3, <2>5, <3>2 DEF SentWereAccepted, TypeOK
    <3> QED
      BY <3>1, <3>2
  <2> QED
    BY <2>5 DEF SentWereAccepted
<1>2. ASSUME NEW r \in Requests, DropEvent(r) \/ PanicOnClosed(r)
      PROVE  SentWereAccepted'
  BY <1>2 DEF SentWereAccepted, DropEvent, PanicOnClosed, TypeOK
<1>3. CASE UNCHANGED <<accepted, request>>
  BY <1>3 DEF SentWereAccepted
<1> QED
  BY <1>1, <1>2, <1>3 DEF Next, PublishEvent, Receive, CallProvider,
     ProviderReturns, ContextExpires, FinishEvent, WorkerExits, CloseChannel,
     ShutdownReturns, vars

\* A handler that meets the closed channel is one server.Shutdown left behind.
LEMMA NextPanicOnlyIfAbandoned ==
    ASSUME AppIndInv, [AppNext]_allVars
    PROVE  PanicOnlyIfAbandoned'
<1> USE DEF PanicOnlyIfAbandoned
<1>1. ASSUME NEW r \in Requests, CommitPublishes(r) PROVE PanicOnlyIfAbandoned'
  <2>1. /\ request \in [Requests -> RequestStates]
        /\ PublishEvent(r)
        /\ UNCHANGED server
    BY <1>1 DEF CommitPublishes, AppIndInv, AppTypeOK, TypeOK
  <2>2. CASE closed
    <3>1. main \in {"abort", "publisher", "db", "exited"}
      BY <2>2 DEF AppIndInv, IndInv, Phases, PublisherClosesInOrder,
         AppTypeOK, MainStates, StartUp
    <3>2. r \in InFlight
      BY <1>1 DEF CommitPublishes, InFlight
    <3>3. server = "abandoned"
      BY <1>1, <3>1, <3>2 DEF CommitPublishes, AppIndInv, ServerStopsFirst,
         NothingBeforeRun, StartUp
    <3> QED
      BY <2>1, <3>3
  <2>3. CASE ~closed
    BY <2>1, <2>3 DEF PublishEvent, SendEvent, DropEvent, PanicOnClosed,
       AppIndInv, RequestStates
  <2> QED
    BY <2>2, <2>3
<1>2. ASSUME NEW r \in Requests, Accept(r) \/ Query(r) \/ Commit(r) \/ Answer(r)
      PROVE  UNCHANGED <<request, server>>
  BY <1>2 DEF Accept, Query, Commit, Answer, vars
<1>3. CASE Worker \/ UNCHANGED allVars
  BY <1>3, WorkerLeaves DEF AppIndInv
<1>4. CASE Main
  <2>1. UNCHANGED request
    BY <1>4 DEF Main, AbortReturns, ServerShutdownReturns, RiverStopReturns,
     ObservabilityStops, PublisherShutdownReturns, CloseDatabase, Exit,
     CloseChannel, ShutdownReturns, vars
  <2>2. server = "abandoned" => server' = "abandoned"
    BY <1>4 DEF Main, AbortReturns, ServerShutdownReturns, RiverStopReturns,
     ObservabilityStops, PublisherShutdownReturns, CloseDatabase, Exit,
       AppIndInv, ServerStopsFirst
  <2> QED
    BY <2>1, <2>2 DEF AppIndInv
<1>5. CASE Running
  <2>1. UNCHANGED request /\ (server = "abandoned" => server' = "abandoned")
    BY <1>5 DEF Running, ServerStarts, ServerFails, RiverStarts, RunReturns,
     RiverStops, DeadlinePasses, vars,
       AppIndInv, ServerStopsFirst
  <2> QED
    BY <2>1 DEF AppIndInv
<1>6. CASE Starting
  <2>1. UNCHANGED <<request, server>>
    BY <1>6 DEF Starting, GiveUp, LoadFails, ConfigLoaded,
     ConnectFails, DatabaseConnected, WireFails, RiverClientFails,
     RiverClientCreated, RegisterProvider, RunStarts,
       CloseChannel, vars
  <2> QED
    BY <2>1 DEF AppIndInv
<1> QED
  BY <1>1, <1>2, <1>3, <1>4, <1>5, <1>6 DEF AppNext, Handlers, AppIndInv

\* The inductive invariant holds in every reachable state.
LEMMA SpecAppIndInv == AppSpec => []AppIndInv
<1>1. AppIndInv /\ [AppNext]_allVars => AppIndInv'
  <2> SUFFICES ASSUME AppIndInv, [AppNext]_allVars PROVE AppIndInv'
    OBVIOUS
  <2>1. [Next]_vars
    BY AppStepIsPublisherStep
  <2>2. IndInv'
    BY <2>1, NextTypeOK, NextPhases, NextAcceptedWereSent, NextHandedInOrder
       DEF AppIndInv, IndInv
  <2>3. AppTypeOK'
    BY <2>2, NextAppTypeOK DEF AppIndInv, IndInv
  <2>4. SentWereAccepted'
    BY <2>1, NextSentWereAccepted DEF AppIndInv, IndInv
  <2>5. /\ NothingBeforeRun' /\ PublisherClosesInOrder' /\ ServerStopsFirst'
        /\ DatabaseClosesLast' /\ PanicOnlyIfAbandoned'
    BY NextNothingBeforeRun, NextPublisherClosesInOrder, NextServerStopsFirst,
       NextDatabaseClosesLast, NextPanicOnlyIfAbandoned DEF AppIndInv
  <2> QED
    BY <2>2, <2>3, <2>4, <2>5 DEF AppIndInv
<1> QED
  BY InitAppIndInv, <1>1, PTL DEF AppSpec

-----------------------------------------------------------------------------
(* The safety theorems.                                                    *)

\* The variables keep their types, those of the publisher included.
THEOREM LifecycleTypes == AppSpec => []AppTypeOK
<1>1. AppIndInv => AppTypeOK
  BY DEF AppIndInv
<1> QED
  BY SpecAppIndInv, <1>1, PTL

\* The select of PublishEvent panics only in a handler that server.Shutdown
\* gave up on at the deadline.
THEOREM PanicsOnlyAfterDeadline == AppSpec => []PanicOnlyIfAbandoned
<1>1. AppIndInv => PanicOnlyIfAbandoned
  BY DEF AppIndInv
<1> QED
  BY SpecAppIndInv, <1>1, PTL

\* No event is in the channel or with the worker before every provider is
\* registered, and the pool is closed only after the worker has ended: every
\* provider is called with a database behind it.
THEOREM PoolOutlivesWorker == AppSpec => []ProvidersHaveDatabase
<1>1. AppIndInv => ProvidersHaveDatabase
  <2> SUFFICES ASSUME AppIndInv, accepted # <<>>
               PROVE  /\ registered = NumProviders
                      /\ db # "open" => worker = "done"
    BY DEF ProvidersHaveDatabase
  <2>1. server # "unused" /\ main \notin StartUp /\ registered = NumProviders
    BY DEF AppIndInv, NothingBeforeRun
  <2>2. db # "open" => main \in {"db", "exited"}
    BY <2>1 DEF AppIndInv, DatabaseClosesLast, StartUp
  <2> QED
    BY <2>1, <2>2 DEF AppIndInv, IndInv, Phases, PublisherClosesInOrder
<1> QED
  BY SpecAppIndInv, <1>1, PTL

\* When the process exits after an orderly server.Shutdown, which an exit code
\* of 0 implies, no committed request is left unpublished, and every event the
\* channel took has reached every provider.
THEOREM OrderlyExitDelivers == AppSpec => []CommittedEventsDelivered
<1>1. AppIndInv => CommittedEventsDelivered
  <2> SUFFICES ASSUME AppIndInv, main = "exited", server = "drained" \/ ~failed,
                      NEW r \in Requests
               PROVE  /\ handler[r] # "committed"
                      /\ request[r] = "sent" =>
                             \A p \in Providers :
                                 \E i \in DOMAIN handed[p] : handed[p][i] = r
    BY DEF CommittedEventsDelivered
  <2>0. server = "drained"
    BY DEF AppIndInv, ServerStopsFirst
  <2>1. handler[r] # "committed"
    BY <2>0 DEF AppIndInv, ServerStopsFirst, InFlight
  <2>2. \A p \in Providers : handed[p] = accepted
    BY <2>0, DrainedWhenReturned DEF AppIndInv, PublisherClosesInOrder
  <2> QED
    BY <2>1, <2>2 DEF AppIndInv, SentWereAccepted
<1> QED
  BY SpecAppIndInv, <1>1, PTL

\* Inside the process, with handlers that publish while the parts around it
\* stop, the publisher is still the event bus the providers rely on.
THEOREM ProcessImplementsBus == AppSpec => ImplementsEventBus
<1>1. AppInit => Init
  BY DEF AppInit
<1>2. [AppNext]_allVars => [Next]_vars
  BY AppStepIsPublisherStep
<1>3. AppSpec => Spec
  BY <1>1, <1>2, PTL DEF AppSpec, Spec
<1> QED
  BY <1>3, PublisherImplementsBus
=============================================================================
