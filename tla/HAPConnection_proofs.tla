------------------------- MODULE HAPConnection_proofs -------------------------
(***************************************************************************)
(* Proofs about one connection, for any events, values and bounds: its     *)
(* types, the safety of the event queue, what its messages on the wire     *)
(* say, that it implements the channel of EventChannel, and that the       *)
(* record layer delivers every frame.                                      *)
(***************************************************************************)
EXTENDS HAPConnection, LayerFraming, Induction_proofs, SequenceTheorems, FiniteSetTheorems, TLAPS

(***************************************************************************)
(* The inductive invariant.  The queue's properties only speak of alive    *)
(* connections, and two callbacks can bring a connection back to life: the *)
(* connect callback and the last step of pair-verify.  The strengthening   *)
(* says why neither finds a stranded queue.                                *)
(***************************************************************************)

\* Nothing can be registered or queued before the loopback socket is connected.
QuietWhileConnecting ==
  httpSocket = "connecting" =>
    /\ state = "CONNECTING" \/ state \in Closed
    /\ request.stage \in {"idle", "buffered", "ignored"}
    /\ registeredEvents = {}
    /\ queuedEvents = <<>>
    /\ ~eventsQueuedForImmediateDelivery

\* close() destroyed the socket, or the socket's own end set the state.
ClosedHasNoSocket == state \in Closed => tcpSocket # "open"

\* The request that unpaired its own connection is the last one that is handled.
TornDownHandlesNothing ==
  state = "TO_BE_TEARED_DOWN" => request.stage \in {"idle", "answering", "ignored"}

ImmediateIsQueued == eventsQueuedForImmediateDelivery => queuedEvents # <<>>

IInv ==
  /\ TypeOK
  /\ QuietWhileConnecting
  /\ ClosedHasNoSocket
  /\ TornDownHandlesNothing
  /\ ImmediateIsQueued
  /\ NoStrandedEvent
  /\ ImmediateWaitsForAnswerOnly

-----------------------------------------------------------------------------
\* A connection without a request holds an empty one.
LEMMA IdleIsARequest == Idle \in Request
  BY ConnectionAssumption DEF Request, NamesEvent, Idle, Stages, Kinds

\* What the actions do to a request leaves it a request.
LEMMA RequestUpdates ==
  ASSUME NEW r \in Request
  PROVE  /\ r.stage # "answering" =>
              \A s \in Stages \ {"answering"} : [r EXCEPT !.stage = s] \in Request
         /\ \A n \in 1..MaxChunks :
              [stage |-> "answering", kind |-> r.kind, event |-> r.event, left |-> n] \in Request
         /\ r.stage = "answering" =>
              r.left = 1 \/ [r EXCEPT !.left = r.left - 1] \in Request
         /\ r.kind \in {"subscribe", "unsubscribe"} => r.event \in Events
<1> DEFINE Fields == [stage : Stages, kind : Kinds, event : Events \cup {NoEvent},
                      left : 0..MaxChunks]
<1>1. r \in Fields /\ NamesEvent(r.kind, r.event) /\ (r.left # 0 <=> r.stage = "answering")
  BY DEF Request
<1>2. ASSUME r.stage # "answering", NEW s \in Stages \ {"answering"}
      PROVE  [r EXCEPT !.stage = s] \in Request
  BY <1>1, <1>2 DEF Request, NamesEvent
<1>3. ASSUME r.stage = "answering", r.left # 1
      PROVE  [r EXCEPT !.left = r.left - 1] \in Request
  BY <1>1, <1>3, ConnectionAssumption DEF Request, NamesEvent
<1>4. ASSUME NEW n \in 1..MaxChunks
      PROVE  [stage |-> "answering", kind |-> r.kind, event |-> r.event, left |-> n] \in Request
  BY <1>1, <1>4, ConnectionAssumption DEF Request, NamesEvent, Stages
<1>5. r.kind \in {"subscribe", "unsubscribe"} => r.event \in Events
  BY <1>1 DEF NamesEvent
<1> QED
  BY <1>2, <1>3, <1>4, <1>5

\* The write of a queue leaves a typed, empty queue.
LEMMA WriteQueueTypes ==
  ASSUME NEW q, WriteQueue(q)
  PROVE  QueueTypeOK'
<1>1. queuedEvents' \in Seq(Event)
  BY DEF WriteQueue
<1>2. {eventsTimer', eventsQueuedForImmediateDelivery', garbled'} \subseteq BOOLEAN
  BY DEF WriteQueue
<1> QED
  BY <1>1, <1>2 DEF QueueTypeOK

\* Every action preserves the types.
LEMMA TypePreserved == TypeOK /\ [Next]_vars => TypeOK'
<1> SUFFICES ASSUME TypeOK, [Next]_vars PROVE TypeOK'
  OBVIOUS
<1> USE ConnectionAssumption DEF TypeOK, transport, queue, exchange, interest
<1>1. ASSUME NEW kind \in Kinds, NEW event \in Events \cup {NoEvent}, OnTCPSocketData(kind, event)
      PROVE TypeOK'
  <2>1. request' \in Request
    <3>1. CASE state \notin Alive
      <4>1. request' = [Idle EXCEPT !.stage = "ignored"]
        BY <1>1, <3>1 DEF OnTCPSocketData
      <4>2. Idle.stage # "answering" /\ "ignored" \in Stages \ {"answering"}
        BY DEF Idle, Stages
      <4> QED
        BY <4>1, <4>2, IdleIsARequest, RequestUpdates
    <3>2. CASE state \in Alive
      <4>1. PICK s \in {"buffered", "relayed"} :
              request' = [Idle EXCEPT !.kind = kind, !.event = event, !.stage = s]
        BY <1>1, <3>2 DEF OnTCPSocketData
      <4>2. request' = [stage |-> s, kind |-> kind, event |-> event, left |-> 0]
        BY <4>1 DEF Idle
      <4>3. NamesEvent(kind, event)
        BY <1>1 DEF OnTCPSocketData, MayAsk
      <4> QED
        BY <4>2, <4>3 DEF Request, NamesEvent, Stages
    <3> QED
      BY <3>1, <3>2
  <2>2. ExchangeTypeOK'
    BY <1>1, <2>1 DEF OnTCPSocketData, ExchangeTypeOK
  <2>3. TransportTypeOK' /\ QueueTypeOK' /\ InterestTypeOK'
    BY <1>1 DEF OnTCPSocketData, TransportTypeOK, QueueTypeOK, InterestTypeOK
  <2> QED
    BY <2>2, <2>3
<1>2. CASE OnTCPSocketDataUndecryptable
  <2>1. TransportTypeOK'
    BY <1>2 DEF OnTCPSocketDataUndecryptable, CloseEffect, TransportTypeOK, States, Closed
  <2>2. QueueTypeOK' /\ ExchangeTypeOK' /\ InterestTypeOK'
    BY <1>2 DEF OnTCPSocketDataUndecryptable, QueueTypeOK, ExchangeTypeOK, InterestTypeOK
  <2> QED
    BY <2>1, <2>2
<1>3. CASE OnHttpSocketConnect
  <2>1. request' \in Request
    BY <1>3, RequestUpdates DEF OnHttpSocketConnect, ExchangeTypeOK, Stages
  <2>2. ExchangeTypeOK' /\ TransportTypeOK'
    BY <1>3, <2>1 DEF OnHttpSocketConnect, ExchangeTypeOK, TransportTypeOK, States, Alive
  <2>3. QueueTypeOK' /\ InterestTypeOK'
    BY <1>3 DEF OnHttpSocketConnect, QueueTypeOK, InterestTypeOK
  <2> QED
    BY <2>2, <2>3
<1>4. CASE HandleHttpServerRequest
  <2>1. request' \in Request
    BY <1>4, RequestUpdates DEF HandleHttpServerRequest, ExchangeTypeOK, Stages
  <2>2. ExchangeTypeOK'
    BY <1>4, <2>1 DEF HandleHttpServerRequest, ExchangeTypeOK
  <2>3. TransportTypeOK' /\ QueueTypeOK' /\ InterestTypeOK'
    BY <1>4 DEF HandleHttpServerRequest, TransportTypeOK, QueueTypeOK, InterestTypeOK
  <2> QED
    BY <2>2, <2>3
<1>5. ASSUME NEW chunks \in 1..MaxChunks, RouteHandler(chunks)
      PROVE TypeOK'
  <2>1. request' \in Request
    BY <1>5, RequestUpdates DEF RouteHandler, ExchangeTypeOK, Stages
  <2>2. ExchangeTypeOK'
    BY <1>5, <2>1 DEF RouteHandler, ExchangeTypeOK
  <2>3. TransportTypeOK'
    BY <1>5 DEF RouteHandler, TransportTypeOK, States, Alive
  <2>4. QueueTypeOK'
    BY <1>5 DEF RouteHandler, QueueTypeOK
  <2>5. current' \in [Events -> Values \cup {NoValue}]
    BY <1>5 DEF RouteHandler, InterestTypeOK
  <2>6. registeredEvents' \subseteq Events
    <3>1. CASE request.kind = "subscribe" /\ state = "AUTHENTICATED"
      BY <1>5, <3>1, RequestUpdates DEF RouteHandler, InterestTypeOK, ExchangeTypeOK
    <3> QED
      BY <1>5, <3>1 DEF RouteHandler, InterestTypeOK
  <2>7. InterestTypeOK'
    BY <1>5, <2>5, <2>6 DEF RouteHandler, InterestTypeOK
  <2> QED
    BY <2>2, <2>3, <2>4, <2>7
<1>6. CASE HandleHttpServerResponse
  <2>1. request' \in Request
    <3>1. /\ request.stage = "answering"
          /\ request' = IF request.left = 1 THEN Idle ELSE [request EXCEPT !.left = request.left - 1]
      BY <1>6 DEF HandleHttpServerResponse
    <3> QED
      BY <3>1, IdleIsARequest, RequestUpdates DEF ExchangeTypeOK
  <2>2. ExchangeTypeOK'
    BY <1>6, <2>1 DEF HandleHttpServerResponse, ExchangeTypeOK
  <2>3. TransportTypeOK' /\ InterestTypeOK'
    BY <1>6 DEF HandleHttpServerResponse, TearDownDue, TransportTypeOK, InterestTypeOK
  <2>4. QueueTypeOK'
    <3>1. CASE queuedEvents' = queuedEvents /\ garbled' = (garbled \/ Garbles)
      BY <1>6, <3>1, WriteQueueTypes DEF HandleHttpServerResponse, QueueTypeOK
    <3> QED
      BY <1>6, <3>1, WriteQueueTypes DEF HandleHttpServerResponse
  <2> QED
    BY <2>2, <2>3, <2>4
<1>7. CASE Disconnect
  <2>1. TransportTypeOK'
    BY <1>7 DEF Disconnect, Close, OnTCPSocketClose, OnHttpSocketClose, OnHttpServerClose,
                TearDown, CloseEffect, TransportTypeOK, States, Closed
  <2>2. QueueTypeOK' /\ ExchangeTypeOK' /\ InterestTypeOK'
    BY <1>7 DEF Disconnect, Close, OnTCPSocketClose, OnHttpSocketClose, OnHttpServerClose,
                TearDown, QueueTypeOK, ExchangeTypeOK, InterestTypeOK
  <2> QED
    BY <2>1, <2>2
<1>8. ASSUME NEW e \in Events, NEW v \in Values, SendEvent(e, v)
      PROVE TypeOK'
  <2>1. [event |-> e, value |-> v] \in Event
    BY DEF Event
  <2>2. QueueTypeOK'
    <3>1. CASE \E q : WriteQueue(q)
      BY <3>1, WriteQueueTypes
    <3>2. CASE SendImmediately(e, v) /\ ~ \E q : WriteQueue(q)
      <4>1. queuedEvents' \in Seq(Event)
        BY <2>1, <3>2 DEF SendImmediately, QueueTypeOK
      <4>2. {eventsTimer', eventsQueuedForImmediateDelivery', garbled'} \subseteq BOOLEAN
        BY <3>2 DEF SendImmediately, QueueTypeOK
      <4> QED
        BY <4>1, <4>2 DEF QueueTypeOK
    <3>3. CASE SendCoalesced(e, v)
      <4>1. queuedEvents' \in Seq(Event)
        BY <2>1, <3>3 DEF SendCoalesced, QueueTypeOK
      <4>2. {eventsTimer', eventsQueuedForImmediateDelivery', garbled'} \subseteq BOOLEAN
        BY <3>3 DEF SendCoalesced, QueueTypeOK
      <4> QED
        BY <4>1, <4>2 DEF QueueTypeOK
    <3> QED
      BY <1>8, <3>1, <3>2, <3>3 DEF SendEvent
  <2>3. InterestTypeOK'
    BY <1>8 DEF SendEvent, SendImmediately, SendCoalesced, InterestTypeOK
  <2>4. TransportTypeOK' /\ ExchangeTypeOK'
    BY <1>8 DEF SendEvent, TransportTypeOK, ExchangeTypeOK
  <2> QED
    BY <2>2, <2>3, <2>4
<1>9. CASE HandleEventsTimeout
  <2>1. QueueTypeOK'
    BY <1>9, WriteQueueTypes DEF HandleEventsTimeout, QueueTypeOK
  <2>2. TransportTypeOK' /\ ExchangeTypeOK' /\ InterestTypeOK'
    BY <1>9 DEF HandleEventsTimeout, TransportTypeOK, ExchangeTypeOK, InterestTypeOK
  <2> QED
    BY <2>1, <2>2
<1>10. CASE UNCHANGED vars
  BY <1>10 DEF vars, TransportTypeOK, QueueTypeOK, ExchangeTypeOK, InterestTypeOK
<1> QED
  BY <1>1, <1>2, <1>3, <1>4, <1>5, <1>6, <1>7, <1>8, <1>9, <1>10
     DEF Next, Receive, Relay, Notify

\* A new connection is typed.
LEMMA TypeInit == Init => TypeOK
<1> SUFFICES ASSUME Init PROVE TypeOK
  OBVIOUS
<1>1. TransportTypeOK
  BY DEF Init, TransportTypeOK, States, Alive
<1>2. QueueTypeOK
  <2>1. queuedEvents \in Seq(Event)
    BY DEF Init
  <2>2. {eventsTimer, eventsQueuedForImmediateDelivery, garbled} \subseteq BOOLEAN
    BY DEF Init
  <2> QED
    BY <2>1, <2>2 DEF QueueTypeOK
<1>3. ExchangeTypeOK
  BY IdleIsARequest DEF Init, ExchangeTypeOK
<1>4. InterestTypeOK
  BY ConnectionAssumption DEF Init, InterestTypeOK
<1> QED
  BY <1>1, <1>2, <1>3, <1>4 DEF TypeOK

\* In every reachable state the connection's variables have their types.
THEOREM TypeCorrect == Spec => []TypeOK
  BY TypeInit, TypePreserved, PTL DEF Spec

-----------------------------------------------------------------------------
\* A written queue is empty, so nothing of it is stranded or waits for an answer.
LEMMA WrittenQueue ==
  ASSUME NEW q, WriteQueue(q)
  PROVE  /\ ImmediateIsQueued'
         /\ NoStrandedEvent'
         /\ ImmediateWaitsForAnswerOnly'
         /\ (queuedEvents = <<>>)' /\ ~eventsQueuedForImmediateDelivery'
  BY DEF WriteQueue, ImmediateIsQueued, NoStrandedEvent, ImmediateWaitsForAnswerOnly

\* Every action preserves the invariant.  The controller's requests first, then the loopback
\* socket, the closing of the connection and the notifications.
LEMMA InvariantPreserved == IInv /\ TypeOK' /\ [Next]_vars => IInv'
<1> SUFFICES ASSUME IInv, TypeOK', [Next]_vars PROVE IInv'
  OBVIOUS
<1> USE DEF IInv, transport, queue, exchange, interest, Alive, Closed
<1>1. ASSUME NEW kind \in Kinds, NEW event \in Events \cup {NoEvent}, OnTCPSocketData(kind, event)
      PROVE IInv'
  <2>1. request'.stage = IF state \notin Alive THEN "ignored"
                         ELSE IF state = "CONNECTING" THEN "buffered" ELSE "relayed"
    BY <1>1 DEF OnTCPSocketData, Idle
  <2>2. QuietWhileConnecting'
    BY <1>1, <2>1 DEF OnTCPSocketData, QuietWhileConnecting
  <2>3. ClosedHasNoSocket' /\ ImmediateIsQueued' /\ TornDownHandlesNothing'
    BY <1>1, <2>1
       DEF OnTCPSocketData, ClosedHasNoSocket, ImmediateIsQueued, TornDownHandlesNothing
  <2>4. NoStrandedEvent' /\ ImmediateWaitsForAnswerOnly'
    BY <1>1 DEF OnTCPSocketData, NoStrandedEvent, ImmediateWaitsForAnswerOnly
  <2> QED
    BY <2>2, <2>3, <2>4
<1>2. CASE OnTCPSocketDataUndecryptable
  BY <1>2
     DEF OnTCPSocketDataUndecryptable, CloseEffect, QuietWhileConnecting, ClosedHasNoSocket,
         ImmediateIsQueued, TornDownHandlesNothing, NoStrandedEvent, ImmediateWaitsForAnswerOnly
<1>3. CASE OnHttpSocketConnect
  BY <1>3
     DEF OnHttpSocketConnect, QuietWhileConnecting, ClosedHasNoSocket,
         ImmediateIsQueued, TornDownHandlesNothing, NoStrandedEvent, ImmediateWaitsForAnswerOnly
<1>4. CASE HandleHttpServerRequest
  <2>1. request'.stage = IF state \in Alive THEN "parsed" ELSE "ignored"
    BY <1>4 DEF HandleHttpServerRequest, TypeOK, ExchangeTypeOK, Request
  <2> QED
    BY <1>4, <2>1
       DEF HandleHttpServerRequest, QuietWhileConnecting, ClosedHasNoSocket,
           ImmediateIsQueued, TornDownHandlesNothing, NoStrandedEvent, ImmediateWaitsForAnswerOnly
<1>5. ASSUME NEW chunks \in 1..MaxChunks, RouteHandler(chunks)
      PROVE IInv'
  <2>1. request'.stage = "answering"
    BY <1>5 DEF RouteHandler
  <2>2. httpSocket # "connecting" /\ state # "TO_BE_TEARED_DOWN"
    BY <1>5 DEF RouteHandler, QuietWhileConnecting, TornDownHandlesNothing
  <2>3. QuietWhileConnecting' /\ TornDownHandlesNothing' /\ ImmediateIsQueued'
    BY <1>5, <2>1, <2>2
       DEF RouteHandler, QuietWhileConnecting, TornDownHandlesNothing, ImmediateIsQueued
  <2>4. state' \in Closed => state \in Closed
    BY <1>5 DEF RouteHandler
  <2>5. state' \in Alive => state \in Alive \/ state \in Closed
    BY <2>2 DEF TypeOK, TransportTypeOK, States
  <2>6. ClosedHasNoSocket' /\ NoStrandedEvent' /\ ImmediateWaitsForAnswerOnly'
    BY <1>5, <2>4, <2>5
       DEF RouteHandler, ClosedHasNoSocket, NoStrandedEvent, ImmediateWaitsForAnswerOnly
  <2> QED
    BY <2>3, <2>6
<1>6. CASE HandleHttpServerResponse
  <2>1. request'.stage \in {"idle", "answering"}
    BY <1>6 DEF HandleHttpServerResponse, Idle, TypeOK, ExchangeTypeOK, Request
  <2>2. QuietWhileConnecting' /\ ClosedHasNoSocket' /\ TornDownHandlesNothing'
    BY <1>6, <2>1
       DEF HandleHttpServerResponse, QuietWhileConnecting, ClosedHasNoSocket, TornDownHandlesNothing
  <2>3. CASE \E q : WriteQueue(q)
    BY <2>2, <2>3, WrittenQueue
  <2>4. CASE ~ \E q : WriteQueue(q)
    <3>1. ~FlushDue
      BY <1>6, <2>4 DEF HandleHttpServerResponse
    <3> QED
      BY <1>6, <2>2, <3>1
         DEF HandleHttpServerResponse, FlushDue, ImmediateIsQueued, NoStrandedEvent, ImmediateWaitsForAnswerOnly
  <2> QED
    BY <2>3, <2>4
<1>7. CASE Disconnect
  BY <1>7
     DEF Disconnect, Close, OnTCPSocketClose, OnHttpSocketClose, OnHttpServerClose, TearDown,
         CloseEffect, QuietWhileConnecting, ClosedHasNoSocket,
         ImmediateIsQueued, TornDownHandlesNothing, NoStrandedEvent, ImmediateWaitsForAnswerOnly
<1>8. ASSUME NEW e \in Events, NEW v \in Values, SendEvent(e, v)
      PROVE IInv'
  <2>1. httpSocket # "connecting"
    BY <1>8 DEF SendEvent, QuietWhileConnecting
  <2>2. QuietWhileConnecting' /\ ClosedHasNoSocket' /\ TornDownHandlesNothing'
    BY <1>8, <2>1 DEF SendEvent, QuietWhileConnecting, ClosedHasNoSocket, TornDownHandlesNothing
  <2>3. Append(queuedEvents, [event |-> e, value |-> v]) # <<>>
    BY DEF TypeOK, QueueTypeOK, Event
  <2>4. CASE \E q : WriteQueue(q)
    BY <2>2, <2>4, WrittenQueue
  <2>5. CASE SendImmediately(e, v) /\ ~ \E q : WriteQueue(q)
    BY <1>8, <2>2, <2>3, <2>5
       DEF SendEvent, SendImmediately, ImmediateIsQueued, NoStrandedEvent, ImmediateWaitsForAnswerOnly
  <2>6. CASE SendCoalesced(e, v)
    BY <1>8, <2>2, <2>3, <2>6
       DEF SendEvent, SendCoalesced, ImmediateIsQueued, NoStrandedEvent, ImmediateWaitsForAnswerOnly
  <2> QED
    BY <1>8, <2>4, <2>5, <2>6 DEF SendEvent
<1>9. CASE HandleEventsTimeout
  <2>1. QuietWhileConnecting' /\ ClosedHasNoSocket' /\ TornDownHandlesNothing'
    BY <1>9, WrittenQueue
       DEF HandleEventsTimeout, QuietWhileConnecting, ClosedHasNoSocket, TornDownHandlesNothing
  <2>2. CASE WriteQueue(queuedEvents)
    BY <2>1, <2>2, WrittenQueue
  <2>3. CASE ~WriteQueue(queuedEvents)
    BY <1>9, <2>1, <2>3
       DEF HandleEventsTimeout, ImmediateIsQueued, NoStrandedEvent, ImmediateWaitsForAnswerOnly
  <2> QED
    BY <2>2, <2>3
<1>10. CASE UNCHANGED vars
  BY <1>10
     DEF vars, QuietWhileConnecting, ClosedHasNoSocket, ImmediateIsQueued, TornDownHandlesNothing,
         NoStrandedEvent, ImmediateWaitsForAnswerOnly
<1> QED
  BY <1>1, <1>2, <1>3, <1>4, <1>5, <1>6, <1>7, <1>8, <1>9, <1>10
     DEF Next, Receive, Relay, Notify

\* A new connection satisfies the invariant: it has no queue, no timer and no request.
LEMMA InvariantInit == Init => IInv
<1> SUFFICES ASSUME Init PROVE IInv
  OBVIOUS
<1>1. /\ QuietWhileConnecting /\ ClosedHasNoSocket /\ TornDownHandlesNothing /\ ImmediateIsQueued
      /\ NoStrandedEvent /\ ImmediateWaitsForAnswerOnly
  BY DEF Init, Idle, Closed, QuietWhileConnecting, ClosedHasNoSocket, TornDownHandlesNothing,
         ImmediateIsQueued, NoStrandedEvent, ImmediateWaitsForAnswerOnly
<1> QED
  BY <1>1, TypeInit DEF IInv

\* In every reachable state the sockets, the request, the queue and the timers of a connection
\* fit together as IInv says.
THEOREM Invariant == Spec => []IInv
<1>1. IInv /\ [Next]_vars => IInv'
  BY TypePreserved, InvariantPreserved DEF IInv
<1> QED
  BY <1>1, InvariantInit, PTL DEF Spec

\* No event is left in the queue of a connection that can be written to without a timer or an
\* answer that will look at the queue again: what sendEvent, handleEventsTimeout and
\* handleHttpServerResponse leave behind is always picked up.
THEOREM NothingStranded == Spec => []NoStrandedEvent
<1>1. IInv => NoStrandedEvent
  BY DEF IInv
<1> QED
  BY <1>1, Invariant, PTL

\* An event for immediate delivery stays in the queue only while a request is handled.
THEOREM ImmediateDelivery == Spec => []ImmediateWaitsForAnswerOnly
<1>1. IInv => ImmediateWaitsForAnswerOnly
  BY DEF IInv
<1> QED
  BY <1>1, Invariant, PTL

-----------------------------------------------------------------------------
(* Sequences of events.                                                    *)

\* k[n] is what EventsNamed keeps of the first n events of q.
Filters(k, q, names) ==
  /\ k \in [0..Len(q) -> Seq(Event)]
  /\ k[0] = <<>>
  /\ \A n \in 1..Len(q) : k[n] = IF q[n].event \in names THEN Append(k[n - 1], q[n]) ELSE k[n - 1]

\* The recursion of EventsNamed defines a function, and computes what its equations say.
LEMMA EventsNamedFilters ==
  ASSUME NEW q \in Seq(Event), NEW names
  PROVE  \E k : Filters(k, q, names) /\ EventsNamed(q, names) = k[Len(q)]
<1> DEFINE Step(k, n) == IF q[n].event \in names THEN Append(k[n - 1], q[n]) ELSE k[n - 1]
           step == [p \in (1..Len(q)) \X Seq(Event) |->
                      IF q[p[1]].event \in names THEN Append(p[2], q[p[1]]) ELSE p[2]]
           Unfolds(f) == f = [n \in 0..Len(q) |-> IF n = 0 THEN <<>> ELSE Step(f, n)]
           kept == CHOOSE f : Unfolds(f)
<1>0. Len(q) \in Nat /\ \A n \in 1..Len(q) : q[n] \in Event
  OBVIOUS
<1>1. step \in [(1..Len(q)) \X Seq(Event) -> Seq(Event)]
  BY <1>0
<1>2. PICK k \in [0..Len(q) -> Seq(Event)] : k[0] = <<>> /\ \A n \in 1..Len(q) : k[n] = step[<<n, k[n - 1]>>]
  <2> HIDE DEF step
  <2>1. <<>> \in Seq(Event)
    OBVIOUS
  <2>2. \E k : Iterates(k, Len(q), Seq(Event), <<>>, step)
    BY <1>0, <1>1, <2>1, IterationExists
  <2> QED
    BY <2>2 DEF Iterates
<1>3. ASSUME NEW n \in 1..Len(q)
      PROVE  k[n] = Step(k, n)
  <2>1. k[n - 1] \in Seq(Event)
    BY <1>0
  <2>2. k[n] = step[<<n, k[n - 1]>>]
    BY <1>2
  <2> QED
    BY <2>1, <2>2
<1>4. Unfolds(k)
  <2>1. k = [n \in 0..Len(q) |-> k[n]]
    OBVIOUS
  <2>2. \A n \in 0..Len(q) : k[n] = IF n = 0 THEN <<>> ELSE Step(k, n)
    <3> SUFFICES ASSUME NEW n \in 0..Len(q), n # 0 PROVE k[n] = Step(k, n)
      BY <1>2
    <3>1. n \in 1..Len(q)
      BY <1>0
    <3> QED
      BY <1>3, <3>1
  <2> QED
    BY <2>1, <2>2
<1>5. Unfolds(kept)
  <2> HIDE DEF Unfolds
  <2> QED
    BY <1>4
<1>6. EventsNamed(q, names) = kept[Len(q)]
  BY DEF EventsNamed
<1>7. kept = k
  <2> HIDE DEF kept
  <2>1. kept = [n \in 0..Len(q) |-> kept[n]] /\ k = [n \in 0..Len(q) |-> k[n]]
    BY <1>5
  <2>2. kept[0] = k[0]
    <3>1. 0 \in 0..Len(q)
      BY <1>0
    <3> QED
      BY <1>2, <1>5, <3>1
  <2>3. ASSUME NEW n \in 1..Len(q), kept[n - 1] = k[n - 1]
        PROVE  kept[n] = k[n]
    <3>1. n \in 0..Len(q) /\ n # 0
      BY <1>0
    <3>2. kept[n] = Step(kept, n)
      BY <1>5, <3>1
    <3> QED
      BY <1>3, <2>3, <3>2
  <2>4. Agree(kept, k, Len(q))
    BY <2>1, <2>2, <2>3 DEF Agree
  <2> QED
    BY <1>0, <2>4, AgreeingAreEqual
<1> HIDE DEF kept
<1> QED
  BY <1>2, <1>3, <1>6, <1>7 DEF Filters

\* The last that s has of the event e carries the value v; s has nothing of e.
LastOf(s, e, v) ==
  \E i \in 1..Len(s) :
    /\ s[i] = [event |-> e, value |-> v]
    /\ \A j \in i+1..Len(s) : s[j].event # e

Absent(s, e) == \A i \in 1..Len(s) : s[i].event # e

\* One more event is the last of its name, and leaves the others as they are.
LEMMA LastOfAppend ==
  ASSUME NEW s \in Seq(Event), NEW x \in Event, NEW e
  PROVE  /\ LastOf(Append(s, x), x.event, x.value)
         /\ e # x.event => \A v : LastOf(s, e, v) => LastOf(Append(s, x), e, v)
         /\ e # x.event /\ Absent(s, e) => Absent(Append(s, x), e)
<1> DEFINE t == Append(s, x)
<1>1. /\ t \in Seq(Event) /\ Len(t) = Len(s) + 1 /\ Len(s) \in Nat
      /\ \A i \in 1..Len(s) : t[i] = s[i]
      /\ t[Len(s) + 1] = x
  BY AppendProperties
<1>2. x = [event |-> x.event, value |-> x.value]
  BY DEF Event
<1> HIDE DEF t
<1>3. LastOf(t, x.event, x.value)
  <2>1. Len(t) \in 1..Len(t) /\ t[Len(t)] = [event |-> x.event, value |-> x.value]
    BY <1>1, <1>2
  <2>2. \A j \in Len(t)+1..Len(t) : t[j].event # x.event
    BY <1>1
  <2> QED
    BY <2>1, <2>2 DEF LastOf
<1>4. ASSUME e # x.event, NEW v, LastOf(s, e, v)
      PROVE  LastOf(t, e, v)
  <2>1. PICK i \in 1..Len(s) : /\ s[i] = [event |-> e, value |-> v]
                               /\ \A j \in i+1..Len(s) : s[j].event # e
    BY <1>4 DEF LastOf
  <2>2. i \in 1..Len(t) /\ t[i] = [event |-> e, value |-> v]
    BY <1>1, <2>1
  <2>3. ASSUME NEW j \in i+1..Len(t) PROVE t[j].event # e
    <3>1. CASE j = Len(s) + 1
      BY <1>1, <1>4, <3>1
    <3>2. CASE j # Len(s) + 1
      <4>1. j \in i+1..Len(s) /\ j \in 1..Len(s)
        BY <1>1, <3>2
      <4> QED
        BY <1>1, <2>1, <4>1
    <3> QED
      BY <3>1, <3>2
  <2> QED
    BY <2>2, <2>3 DEF LastOf
<1>5. ASSUME e # x.event, Absent(s, e)
      PROVE  Absent(t, e)
  <2> SUFFICES ASSUME NEW i \in 1..Len(t) PROVE t[i].event # e
    BY DEF Absent
  <2>1. i \in 1..Len(s) \/ i = Len(s) + 1
    BY <1>1
  <2> QED
    BY <1>1, <1>5, <2>1 DEF Absent
<1> QED
  BY <1>3, <1>4, <1>5 DEF t

\* What was last of an event, when more of it follows or none.
LEMMA LastOfConcat ==
  ASSUME NEW s \in Seq(Event), NEW t \in Seq(Event), NEW e, NEW v
  PROVE  /\ LastOf(t, e, v) => LastOf(s \o t, e, v)
         /\ LastOf(s, e, v) /\ Absent(t, e) => LastOf(s \o t, e, v)
<1> DEFINE u == s \o t
<1>1. /\ u \in Seq(Event) /\ Len(u) = Len(s) + Len(t) /\ Len(s) \in Nat /\ Len(t) \in Nat
      /\ \A i \in 1..Len(u) : u[i] = IF i <= Len(s) THEN s[i] ELSE t[i - Len(s)]
  BY ConcatProperties
<1> HIDE DEF u
<1>2. ASSUME LastOf(t, e, v)
      PROVE  LastOf(u, e, v)
  <2>1. PICK i \in 1..Len(t) : /\ t[i] = [event |-> e, value |-> v]
                               /\ \A j \in i+1..Len(t) : t[j].event # e
    BY <1>2 DEF LastOf
  <2>2. i + Len(s) \in 1..Len(u) /\ u[i + Len(s)] = t[i]
    <3>1. i + Len(s) \in 1..Len(u) /\ ~(i + Len(s) <= Len(s)) /\ (i + Len(s)) - Len(s) = i
      BY <1>1
    <3>2. u[i + Len(s)] = t[(i + Len(s)) - Len(s)]
      BY <1>1, <3>1
    <3> QED
      BY <3>1, <3>2
  <2>3. ASSUME NEW j \in (i + Len(s))+1..Len(u) PROVE u[j].event # e
    <3>1. j - Len(s) \in i+1..Len(t) /\ u[j] = t[j - Len(s)]
      BY <1>1
    <3> QED
      BY <2>1, <3>1
  <2> QED
    BY <2>1, <2>2, <2>3 DEF LastOf
<1>3. ASSUME LastOf(s, e, v), Absent(t, e)
      PROVE  LastOf(u, e, v)
  <2>1. PICK i \in 1..Len(s) : /\ s[i] = [event |-> e, value |-> v]
                               /\ \A j \in i+1..Len(s) : s[j].event # e
    BY <1>3 DEF LastOf
  <2>2. i \in 1..Len(u) /\ u[i] = [event |-> e, value |-> v]
    BY <1>1, <2>1
  <2>3. ASSUME NEW j \in i+1..Len(u) PROVE u[j].event # e
    <3>1. CASE j <= Len(s)
      BY <1>1, <2>1, <3>1
    <3>2. CASE j > Len(s)
      <4>1. j - Len(s) \in 1..Len(t) /\ u[j] = t[j - Len(s)]
        BY <1>1, <3>2
      <4> QED
        BY <1>3, <4>1 DEF Absent
    <3> QED
      BY <1>1, <3>1, <3>2
  <2> QED
    BY <2>2, <2>3 DEF LastOf
<1> QED
  BY <1>2, <1>3 DEF u

\* Leaving out events of other names does not change what is last of an event.
LEMMA EventsNamedKeepsLast ==
  ASSUME NEW q \in Seq(Event), NEW names, NEW e \in names
  PROVE  /\ EventsNamed(q, names) \in Seq(Event)
         /\ \A v : LastOf(q, e, v) => LastOf(EventsNamed(q, names), e, v)
         /\ Absent(q, e) => Absent(EventsNamed(q, names), e)
<1>1. PICK k : Filters(k, q, names) /\ EventsNamed(q, names) = k[Len(q)]
  BY EventsNamedFilters
<1>2. Len(q) \in Nat /\ \A n \in 1..Len(q) : q[n] \in Event
  OBVIOUS
<1>3. k \in [0..Len(q) -> Seq(Event)] /\ k[0] = <<>>
  BY <1>1 DEF Filters
<1> DEFINE LastUpTo(n, v) == \E i \in 1..n : /\ q[i] = [event |-> e, value |-> v]
                                             /\ \A j \in i+1..n : q[j].event # e
           AbsentUpTo(n) == \A i \in 1..n : q[i].event # e
           Good == {n \in 0..Len(q) : /\ \A v : LastUpTo(n, v) => LastOf(k[n], e, v)
                                      /\ AbsentUpTo(n) => Absent(k[n], e)}
<1>4. 0 \in Good
  <2>1. Absent(k[0], e)
    BY <1>3 DEF Absent
  <2>2. \A v : ~LastUpTo(0, v)
    OBVIOUS
  <2> HIDE DEF LastUpTo
  <2> QED
    BY <1>2, <2>1, <2>2
<1>5. ASSUME NEW n \in 1..Len(q), n - 1 \in Good
      PROVE  n \in Good
  <2>1. k[n - 1] \in Seq(Event) /\ q[n] \in Event /\ n \in Nat /\ n - 1 \in Nat
    BY <1>2, <1>3
  <2>2. k[n] = IF q[n].event \in names THEN Append(k[n - 1], q[n]) ELSE k[n - 1]
    BY <1>1 DEF Filters
  <2>3. q[n].event # e => \A v : LastUpTo(n, v) => LastUpTo(n - 1, v)
    <3> SUFFICES ASSUME q[n].event # e, NEW v, LastUpTo(n, v) PROVE LastUpTo(n - 1, v)
      OBVIOUS
    <3>1. PICK i \in 1..n : /\ q[i] = [event |-> e, value |-> v]
                            /\ \A j \in i+1..n : q[j].event # e
      OBVIOUS
    <3>2. i # n
      BY <3>1
    <3>3. i \in 1..(n - 1) /\ \A j \in i+1..(n - 1) : q[j].event # e
      BY <2>1, <3>1, <3>2
    <3> QED
      BY <3>1, <3>3
  <2>4. AbsentUpTo(n) => AbsentUpTo(n - 1) /\ q[n].event # e
    BY <2>1
  <2>5. q[n].event = e => \A v : LastUpTo(n, v) => q[n].value = v
    <3> SUFFICES ASSUME q[n].event = e, NEW v, LastUpTo(n, v) PROVE q[n].value = v
      OBVIOUS
    <3>1. PICK i \in 1..n : /\ q[i] = [event |-> e, value |-> v]
                            /\ \A j \in i+1..n : q[j].event # e
      OBVIOUS
    <3>2. i = n
      <4> SUFFICES ASSUME i # n PROVE FALSE
        OBVIOUS
      <4>1. n \in i+1..n
        BY <2>1
      <4> QED
        BY <3>1, <4>1
    <3> QED
      BY <3>1, <3>2
  <2> HIDE DEF LastUpTo, AbsentUpTo
  <2>6. CASE q[n].event = e
    <3>1. LastOf(k[n], e, q[n].value)
      BY <2>1, <2>2, <2>6, LastOfAppend
    <3> QED
      BY <2>4, <2>5, <2>6, <3>1
  <2>7. CASE q[n].event # e
    <3>1. /\ \A v : LastOf(k[n - 1], e, v) => LastOf(k[n], e, v)
          /\ Absent(k[n - 1], e) => Absent(k[n], e)
      BY <2>1, <2>2, <2>7, LastOfAppend
    <3> QED
      BY <1>5, <2>3, <2>4, <2>7, <3>1
  <2> QED
    BY <2>6, <2>7
<1>6. Len(q) \in Good
  <2> HIDE DEF Good
  <2>1. 0..Len(q) \subseteq Good
    BY <1>2, <1>4, <1>5, InductionUpTo
  <2> QED
    BY <1>2, <2>1
<1> QED
  BY <1>1, <1>2, <1>3, <1>6 DEF LastOf, Absent

\* The controller's order of a notification undoes the reversal of writeEventNotification.
LEMMA WireOrderRead ==
  ASSUME NEW q \in Seq(Event)
  PROVE  ControllerOrder(WireOrder(q)) = q
<1> DEFINE w == Reverse(q)
<1>1. /\ Len(q) \in Nat /\ w \in Seq(Event) /\ Len(w) = Len(q)
      /\ \A i \in 1..Len(q) : w[i] = q[(Len(q) - i) + 1]
  BY DEF Reverse
<1> HIDE DEF w
<1>2. /\ Reverse(w) \in Seq(Event) /\ Len(Reverse(w)) = Len(q)
      /\ \A i \in 1..Len(q) : Reverse(w)[i] = w[(Len(q) - i) + 1]
  BY <1>1 DEF Reverse
<1>3. ASSUME NEW i \in 1..Len(q)
      PROVE  Reverse(w)[i] = q[i]
  <2>1. (Len(q) - i) + 1 \in 1..Len(q) /\ (Len(q) - ((Len(q) - i) + 1)) + 1 = i
    BY <1>1
  <2> QED
    BY <1>1, <1>2, <2>1
<1>4. Reverse(w) = q
  BY <1>1, <1>2, <1>3, SeqEqual
<1> QED
  BY <1>4 DEF w, ControllerOrder, WireOrder

-----------------------------------------------------------------------------
(***************************************************************************)
(* The inductive invariant of ConnectionFaithful.  The accessory encrypts  *)
(* once it has decrypted something, the controller once it has read the    *)
(* answer of pair-verify: between the two nothing may be written, and      *)
(* nothing can, because events are registered by encrypted requests.       *)
(***************************************************************************)

EncryptionFollows ==
  /\ encryption = "counted" => secure
  /\ encryption = "none" => ~secure
  /\ encryption = "set" => IF secure THEN request.stage \in {"idle", "ignored"}
                           ELSE request.stage = "answering" /\ request.kind = "verify"
  /\ request.kind = "verify" => ~secure /\ (request.stage = "answering" => encryption = "set")
  /\ request.kind \in {"subscribe", "unsubscribe", "unpair"} => secure
  /\ encryption # "counted" => registeredEvents = {} /\ queuedEvents = <<>>

\* What was last reported of an event is the last of it in the queue or, with none of it there, the
\* last of it that the controller processed.
LastReported ==
  \A e \in registeredEvents :
    tcpSocket = "open" /\ current[e] # NoValue
      => \/ LastOf(queuedEvents, e, current[e])
         \/ Absent(queuedEvents, e) /\ LastOf(seen, e, current[e])

FaithfulIInv ==
  /\ TypeOK
  /\ seen \in Seq(Event)
  /\ EncryptionFollows
  /\ ReadableByController
  /\ LastReported

\* What the controller has processed after a queue was written: all of it that is registered, in
\* order, so that the last of an event in the queue is the last it knows.
LEMMA WriteQueueTells ==
  ASSUME seen \in Seq(Event), NEW q \in Seq(Event), WriteQueue(q)
  PROVE  /\ seen' \in Seq(Event) /\ queuedEvents' = <<>>
         /\ tcpSocket = "open" => seen' = seen \o StillRegistered(q)
         /\ \A e \in registeredEvents :
              tcpSocket = "open" =>
                \A v : LastOf(q, e, v) \/ (Absent(q, e) /\ LastOf(seen, e, v)) => LastOf(seen', e, v)
<1>1. StillRegistered(q) \in Seq(Event)
  <2>1. PICK names : names = registeredEvents
    OBVIOUS
  <2>2. PICK k : Filters(k, q, names) /\ EventsNamed(q, names) = k[Len(q)]
    BY EventsNamedFilters
  <2>3. Len(q) \in 0..Len(q)
    OBVIOUS
  <2> QED
    BY <2>1, <2>2, <2>3 DEF StillRegistered, Filters
<1>2. seen' = IF tcpSocket = "open" THEN seen \o StillRegistered(q) ELSE seen
  BY <1>1, WireOrderRead DEF WriteQueue
<1>3. ASSUME NEW e \in registeredEvents, tcpSocket = "open", NEW v,
             LastOf(q, e, v) \/ (Absent(q, e) /\ LastOf(seen, e, v))
      PROVE  LastOf(seen', e, v)
  <2>1. PICK t, names : t = StillRegistered(q) /\ names = registeredEvents
    OBVIOUS
  <2>2. /\ t \in Seq(Event)
        /\ LastOf(q, e, v) => LastOf(t, e, v)
        /\ Absent(q, e) => Absent(t, e)
    BY <1>1, <2>1, EventsNamedKeepsLast DEF StillRegistered
  <2>3. seen' = seen \o t
    BY <1>2, <1>3, <2>1
  <2>4. PICK s : s = seen
    OBVIOUS
  <2>5. LastOf(s \o t, e, v)
    BY <1>3, <2>2, <2>4, LastOfConcat
  <2> QED
    BY <2>3, <2>4, <2>5
<1>4. queuedEvents' = <<>>
  BY DEF WriteQueue
<1> QED
  BY <1>1, <1>2, <1>3, <1>4


\* Writing a queue that ends with the values last reported leaves the controller with them.
LEMMA WriteQueueFaithful ==
  ASSUME FaithfulIInv, NEW q \in Seq(Event), WriteQueue(q), q # <<>>, encryption = "counted",
         UNCHANGED <<tcpSocket, registeredEvents>>,
         \A e \in registeredEvents :
           tcpSocket = "open" /\ current'[e] # NoValue
             => \/ LastOf(q, e, current'[e])
                \/ Absent(q, e) /\ LastOf(seen, e, current'[e])
  PROVE  seen' \in Seq(Event) /\ ReadableByController' /\ LastReported'
<1>1. seen \in Seq(Event)
  BY DEF FaithfulIInv
<1>2. seen' \in Seq(Event) /\ queuedEvents' = <<>>
  BY <1>1, WriteQueueTells
<1>3. ReadableByController'
  BY DEF FaithfulIInv, EncryptionFollows, ReadableByController, WriteQueue, Garbles, Encrypts
<1>4. ASSUME NEW e \in registeredEvents', tcpSocket' = "open", current'[e] # NoValue
      PROVE  Absent(queuedEvents', e) /\ LastOf(seen', e, current'[e])
  <2>1. Absent(queuedEvents', e)
    BY <1>2 DEF Absent
  <2>2. LastOf(q, e, current'[e]) \/ (Absent(q, e) /\ LastOf(seen, e, current'[e]))
    BY <1>4
  <2>3. PICK v : v = current'[e]
    OBVIOUS
  <2>4. e \in registeredEvents /\ tcpSocket = "open"
    BY <1>4
  <2>5. LastOf(seen', e, v)
    BY <1>1, <2>2, <2>3, <2>4, WriteQueueTells
  <2> QED
    BY <2>1, <2>3, <2>5
<1>5. LastReported'
  BY <1>4 DEF LastReported
<1> QED
  BY <1>2, <1>3, <1>5

\* A step that leaves the queue and the values alone, and registers nothing.
LEMMA ReportedStays ==
  ASSUME LastReported, UNCHANGED <<queuedEvents, seen, current>>, registeredEvents' \subseteq registeredEvents,
         tcpSocket' = "open" => tcpSocket = "open"
  PROVE  LastReported'
  BY DEF LastReported, LastOf, Absent

\* Every action keeps the two sides in step about encryption.
LEMMA EncryptionPreserved ==
  ASSUME TypeOK, EncryptionFollows, [Next]_vars
  PROVE  EncryptionFollows'
<1> USE DEF EncryptionFollows, transport, queue, exchange, interest
<1>1. ASSUME NEW kind \in Kinds, NEW event \in Events \cup {NoEvent}, OnTCPSocketData(kind, event)
      PROVE  EncryptionFollows'
  <2>1. CASE state \notin Alive
    <3>1. request'.stage = "ignored" /\ request'.kind = "other" /\ request.stage = "idle"
      BY <1>1, <2>1 DEF OnTCPSocketData, Idle
    <3> QED
      BY <1>1, <2>1, <3>1 DEF OnTCPSocketData
  <2>2. CASE state \in Alive
    <3>1. request'.stage \in {"buffered", "relayed"} /\ request'.kind = kind /\ request.stage = "idle"
      BY <1>1, <2>2 DEF OnTCPSocketData, Idle
    <3>2. encryption' = IF encryption = "none" THEN "none" ELSE "counted"
      BY <1>1, <2>2 DEF OnTCPSocketData
    <3>3. UNCHANGED <<secure, registeredEvents, queuedEvents>>
      BY <1>1 DEF OnTCPSocketData
    <3>4. encryption \in {"none", "set", "counted"}
      BY DEF TypeOK, ExchangeTypeOK
    <3>5. /\ kind = "verify" => ~secure
          /\ kind \in {"subscribe", "unsubscribe", "unpair"} => secure
      BY <1>1 DEF OnTCPSocketData, MayAsk
    <3> QED
      BY <3>1, <3>2, <3>3, <3>4, <3>5
  <2> QED
    BY <2>1, <2>2
<1>2. CASE OnTCPSocketDataUndecryptable
  BY <1>2 DEF OnTCPSocketDataUndecryptable
<1>3. ASSUME OnHttpSocketConnect \/ HandleHttpServerRequest
      PROVE  EncryptionFollows'
  <2>1. /\ request'.kind = request.kind
        /\ request' = request \/ (request.stage \in {"buffered", "relayed"} /\ request'.stage \in {"relayed", "parsed", "ignored"})
    BY <1>3 DEF OnHttpSocketConnect, HandleHttpServerRequest, TypeOK, ExchangeTypeOK, Request
  <2>2. UNCHANGED <<encryption, secure, registeredEvents, queuedEvents>>
    BY <1>3 DEF OnHttpSocketConnect, HandleHttpServerRequest
  <2> QED
    BY <2>1, <2>2
<1>4. ASSUME NEW chunks \in 1..MaxChunks, RouteHandler(chunks)
      PROVE  EncryptionFollows'
  <2>1. /\ request.stage = "parsed" /\ request'.stage = "answering" /\ request'.kind = request.kind
        /\ encryption' = IF request.kind = "verify" THEN "set" ELSE encryption
        /\ UNCHANGED <<secure, queuedEvents>>
    BY <1>4 DEF RouteHandler
  <2>2. encryption \in {"none", "set", "counted"}
    BY DEF TypeOK, ExchangeTypeOK
  <2>3. registeredEvents' # registeredEvents => request.kind \in {"subscribe", "unsubscribe"}
    BY <1>4 DEF RouteHandler
  <2> QED
    BY <2>1, <2>2, <2>3
<1>5. CASE HandleHttpServerResponse
  <2>1. /\ request.stage = "answering"
        /\ (request' = Idle /\ secure' = (secure \/ request.kind = "verify"))
             \/ (request'.kind = request.kind /\ request'.stage = request.stage /\ secure' = secure)
    BY <1>5 DEF HandleHttpServerResponse, TypeOK, ExchangeTypeOK, Request
  <2>2. UNCHANGED <<encryption, registeredEvents>> /\ (queuedEvents' = queuedEvents \/ queuedEvents' = <<>>)
    BY <1>5 DEF HandleHttpServerResponse, WriteQueue
  <2>3. encryption \in {"none", "set", "counted"} /\ secure \in BOOLEAN
    BY DEF TypeOK, ExchangeTypeOK
  <2>4. Idle.stage = "idle" /\ Idle.kind = "other"
    BY DEF Idle
  <2>5. CASE request'.kind = request.kind /\ request'.stage = request.stage /\ secure' = secure
    BY <2>1, <2>2, <2>3, <2>5
  <2>6. CASE request' = Idle /\ secure' = (secure \/ request.kind = "verify")
    <3>1. CASE request.kind = "verify"
      BY <2>1, <2>2, <2>3, <2>4, <2>6, <3>1
    <3>2. CASE request.kind # "verify"
      <4>1. secure' = secure
        BY <2>3, <2>6, <3>2
      <4>2. encryption # "set"
        BY <2>1, <3>2
      <4> QED
        BY <2>1, <2>2, <2>3, <2>4, <2>6, <4>1, <4>2
    <3> QED
      BY <3>1, <3>2
  <2> QED
    BY <2>1, <2>5, <2>6
<1>6. CASE Disconnect
  <2>1. UNCHANGED <<request, encryption, secure, queuedEvents>> /\ registeredEvents' \subseteq registeredEvents
    BY <1>6 DEF Disconnect, Close, OnTCPSocketClose, OnHttpSocketClose, OnHttpServerClose, TearDown
  <2> QED
    BY <2>1
<1>7. ASSUME NEW e \in Events, NEW v \in Values, SendEvent(e, v)
      PROVE  EncryptionFollows'
  <2>1. UNCHANGED <<request, encryption, secure, registeredEvents>> /\ e \in registeredEvents
    BY <1>7 DEF SendEvent
  <2> QED
    BY <2>1
<1>8. CASE HandleEventsTimeout
  <2>1. UNCHANGED <<request, encryption, secure, registeredEvents>>
        /\ (queuedEvents' = queuedEvents \/ queuedEvents' = <<>>)
    BY <1>8 DEF HandleEventsTimeout, WriteQueue
  <2> QED
    BY <2>1
<1>9. CASE UNCHANGED vars
  BY <1>9 DEF vars
<1> QED
  BY <1>1, <1>2, <1>3, <1>4, <1>5, <1>6, <1>7, <1>8, <1>9 DEF Next, Receive, Relay, Notify

\* Every action preserves the invariant of ConnectionFaithful.
LEMMA FaithfulPreserved == FaithfulIInv /\ TypeOK' /\ [Next]_vars => FaithfulIInv'
<1> SUFFICES ASSUME FaithfulIInv, TypeOK', [Next]_vars PROVE FaithfulIInv'
  OBVIOUS
<1> USE DEF transport, queue, exchange, interest
<1>0. /\ TypeOK /\ seen \in Seq(Event) /\ EncryptionFollows /\ ReadableByController /\ LastReported
      /\ queuedEvents \in Seq(Event)
  BY DEF FaithfulIInv, TypeOK, QueueTypeOK
<1>a. EncryptionFollows'
  BY <1>0, EncryptionPreserved
<1> SUFFICES seen' \in Seq(Event) /\ ReadableByController' /\ LastReported'
  BY <1>a DEF FaithfulIInv
<1>1. ASSUME UNCHANGED <<seen, garbled, queuedEvents, current>>, registeredEvents' \subseteq registeredEvents,
             tcpSocket' = "open" => tcpSocket = "open"
      PROVE  seen' \in Seq(Event) /\ ReadableByController' /\ LastReported'
  BY <1>0, <1>1, ReportedStays DEF ReadableByController
<1>2. CASE Receive \/ OnHttpSocketConnect \/ HandleHttpServerRequest \/ Disconnect
  <2>1. UNCHANGED <<seen, garbled, queuedEvents, current>> /\ registeredEvents' \subseteq registeredEvents
    BY <1>2 DEF Receive, OnTCPSocketData, OnTCPSocketDataUndecryptable, OnHttpSocketConnect,
         HandleHttpServerRequest, Disconnect, Close, OnTCPSocketClose, OnHttpSocketClose, OnHttpServerClose, TearDown
  <2>2. tcpSocket' = "open" => tcpSocket = "open"
    BY <1>2 DEF Receive, OnTCPSocketData, OnTCPSocketDataUndecryptable, OnHttpSocketConnect, CloseEffect,
         HandleHttpServerRequest, Disconnect, Close, OnTCPSocketClose, OnHttpSocketClose, OnHttpServerClose, TearDown
  <2> QED
    BY <1>1, <2>1, <2>2
<1>3. ASSUME NEW chunks \in 1..MaxChunks, RouteHandler(chunks)
      PROVE  seen' \in Seq(Event) /\ ReadableByController' /\ LastReported'
  <2>1. UNCHANGED <<tcpSocket, queuedEvents, seen, garbled>>
    BY <1>3 DEF RouteHandler
  <2>2. CASE registeredEvents' = registeredEvents
    <3>1. current' = current
      BY <1>3, <2>2 DEF RouteHandler
    <3> QED
      BY <1>1, <2>1, <2>2, <3>1
  <2>3. CASE registeredEvents' # registeredEvents
    <3>1. /\ current' = [current EXCEPT ![request.event] = NoValue]
          /\ registeredEvents' \subseteq registeredEvents \cup {request.event}
      BY <1>3, <2>3 DEF RouteHandler
    <3>2. current \in [Events -> Values \cup {NoValue}] /\ registeredEvents' \subseteq Events
      BY <1>0 DEF TypeOK, InterestTypeOK
    <3>3. ASSUME NEW e \in registeredEvents', tcpSocket' = "open", current'[e] # NoValue
          PROVE  \/ LastOf(queuedEvents', e, current'[e])
                 \/ Absent(queuedEvents', e) /\ LastOf(seen', e, current'[e])
      <4>1. e # request.event /\ e \in registeredEvents /\ current'[e] = current[e]
        BY <3>1, <3>2, <3>3
      <4>2. \/ LastOf(queuedEvents, e, current[e])
            \/ Absent(queuedEvents, e) /\ LastOf(seen, e, current[e])
        BY <1>0, <2>1, <3>3, <4>1 DEF LastReported
      <4> QED
        BY <2>1, <4>1, <4>2 DEF LastOf, Absent
    <3>4. LastReported'
      BY <3>3 DEF LastReported
    <3> QED
      BY <1>0, <2>1, <3>4 DEF ReadableByController
  <2> QED
    BY <2>2, <2>3
<1>4. CASE HandleHttpServerResponse
  <2>1. UNCHANGED <<tcpSocket, encryption, registeredEvents, current>>
    BY <1>4 DEF HandleHttpServerResponse
  <2>2. CASE FlushDue
    <3>1. WriteQueue(queuedEvents) /\ queuedEvents # <<>>
      BY <1>4, <2>2 DEF HandleHttpServerResponse, FlushDue
    <3>2. encryption = "counted"
      BY <1>0, <3>1 DEF EncryptionFollows
    <3>3. \A e \in registeredEvents :
            tcpSocket = "open" /\ current'[e] # NoValue
              => \/ LastOf(queuedEvents, e, current'[e])
                 \/ Absent(queuedEvents, e) /\ LastOf(seen, e, current'[e])
      BY <1>0, <2>1 DEF LastReported
    <3> QED
      BY <1>0, <2>1, <3>1, <3>2, <3>3, WriteQueueFaithful
  <2>3. CASE ~FlushDue
    <3>1. UNCHANGED <<queuedEvents, seen>> /\ garbled' = (garbled \/ Garbles)
      BY <1>4, <2>3 DEF HandleHttpServerResponse
    <3>2. ~Garbles
      <4>1. request.stage = "answering" /\ encryption \in {"none", "set", "counted"} /\ secure \in BOOLEAN
        BY <1>0, <1>4 DEF HandleHttpServerResponse, TypeOK, ExchangeTypeOK
      <4> QED
        BY <1>0, <4>1 DEF EncryptionFollows, Garbles, Encrypts
    <3>3. ReadableByController'
      BY <1>0, <3>1, <3>2 DEF ReadableByController
    <3>4. LastReported'
      BY <1>0, <2>1, <3>1, ReportedStays
    <3> QED
      BY <1>0, <3>1, <3>3, <3>4
  <2> QED
    BY <2>2, <2>3
<1>5. ASSUME NEW e \in Events, NEW v \in Values, SendEvent(e, v)
      PROVE  seen' \in Seq(Event) /\ ReadableByController' /\ LastReported'
  <2> DEFINE x == [event |-> e, value |-> v]
             q == Append(queuedEvents, x)
  <2>1. /\ UNCHANGED <<tcpSocket, encryption, registeredEvents>> /\ e \in registeredEvents
        /\ current' = [current EXCEPT ![e] = v]
    BY <1>5 DEF SendEvent
  <2>2. x \in Event /\ x.event = e /\ x.value = v
    BY DEF Event
  <2>3. q \in Seq(Event) /\ q # <<>>
    BY <1>0, <2>2
  <2>4. current \in [Events -> Values \cup {NoValue}] /\ registeredEvents \subseteq Events
    BY <1>0 DEF TypeOK, InterestTypeOK
  <2>5. ASSUME NEW d \in registeredEvents, tcpSocket = "open", current'[d] # NoValue
        PROVE  \/ LastOf(q, d, current'[d])
               \/ Absent(q, d) /\ LastOf(seen, d, current'[d])
    <3>1. PICK p, s : p = queuedEvents /\ s = seen
      OBVIOUS
    <3>2. CASE d = e
      <4>1. current'[d] = v
        BY <2>1, <2>4, <3>2
      <4>2. LastOf(Append(p, x), x.event, x.value)
        BY <1>0, <2>2, <3>1, LastOfAppend
      <4> QED
        BY <2>2, <3>1, <3>2, <4>1, <4>2
    <3>3. CASE d # e
      <4>1. current'[d] = current[d]
        BY <2>1, <2>4, <3>3
      <4>2. PICK w : w = current[d]
        OBVIOUS
      <4>3. LastOf(p, d, w) \/ (Absent(p, d) /\ LastOf(s, d, w))
        BY <1>0, <2>5, <3>1, <4>1, <4>2 DEF LastReported
      <4>4. /\ LastOf(p, d, w) => LastOf(Append(p, x), d, w)
            /\ Absent(p, d) => Absent(Append(p, x), d)
        BY <1>0, <2>2, <3>1, <3>3, LastOfAppend
      <4> QED
        BY <3>1, <4>1, <4>2, <4>3, <4>4
    <3> QED
      BY <3>2, <3>3
  <2>6. CASE queuedEvents' = q /\ UNCHANGED <<seen, garbled>>
    <3> HIDE DEF q
    <3>1. LastReported'
      BY <2>1, <2>5, <2>6 DEF LastReported
    <3> QED
      BY <1>0, <2>6, <3>1 DEF ReadableByController
  <2>7. CASE WriteQueue(q)
    <3>1. encryption = "counted"
      BY <1>0, <2>1 DEF EncryptionFollows
    <3>2. \A d \in registeredEvents :
            tcpSocket = "open" /\ current'[d] # NoValue
              => \/ LastOf(q, d, current'[d])
                 \/ Absent(q, d) /\ LastOf(seen, d, current'[d])
      BY <2>5
    <3> HIDE DEF q
    <3> QED
      BY <2>1, <2>3, <2>7, <3>1, <3>2, WriteQueueFaithful
  <2>8. CASE AlreadyQueued(e, v) /\ UNCHANGED <<queuedEvents, seen, garbled>>
    <3>1. LastOf(queuedEvents, e, v)
      BY <2>8 DEF AlreadyQueued, LastOf
    <3>2. ASSUME NEW d \in registeredEvents, tcpSocket = "open", current'[d] # NoValue
          PROVE  \/ LastOf(queuedEvents, d, current'[d])
                 \/ Absent(queuedEvents, d) /\ LastOf(seen, d, current'[d])
      <4>1. CASE d = e
        <5>1. current'[d] = v
          BY <2>1, <2>4, <4>1
        <5> QED
          BY <3>1, <4>1, <5>1
      <4>2. CASE d # e
        <5>1. current'[d] = current[d]
          BY <2>1, <2>4, <4>2
        <5> QED
          BY <1>0, <3>2, <5>1 DEF LastReported
      <4> QED
        BY <4>1, <4>2
    <3>3. LastReported'
      BY <2>1, <2>8, <3>2 DEF LastReported, LastOf, Absent
    <3> QED
      BY <1>0, <2>8, <3>3 DEF ReadableByController
  <2> QED
    BY <1>5, <2>6, <2>7, <2>8 DEF SendEvent, SendImmediately, SendCoalesced
<1>6. CASE HandleEventsTimeout
  <2>1. UNCHANGED <<tcpSocket, encryption, registeredEvents, current>>
    BY <1>6 DEF HandleEventsTimeout
  <2>2. CASE WriteQueue(queuedEvents) /\ queuedEvents # <<>>
    <3>2. encryption = "counted"
      BY <1>0, <2>2 DEF EncryptionFollows
    <3>3. \A e \in registeredEvents :
            tcpSocket = "open" /\ current'[e] # NoValue
              => \/ LastOf(queuedEvents, e, current'[e])
                 \/ Absent(queuedEvents, e) /\ LastOf(seen, e, current'[e])
      BY <1>0, <2>1 DEF LastReported
    <3> QED
      BY <1>0, <2>1, <2>2, <3>2, <3>3, WriteQueueFaithful
  <2>3. CASE UNCHANGED <<queuedEvents, seen, garbled>>
    BY <1>1, <2>1, <2>3
  <2> QED
    BY <1>6, <2>2, <2>3 DEF HandleEventsTimeout
<1>7. CASE UNCHANGED vars
  BY <1>1, <1>7 DEF vars
<1> QED
  BY <1>2, <1>3, <1>4, <1>5, <1>6, <1>7 DEF Next, Relay, Notify

\* A new connection is neither encrypted nor interested in anything.
LEMMA FaithfulInit == Init => FaithfulIInv
<1> SUFFICES ASSUME Init PROVE FaithfulIInv
  OBVIOUS
<1>1. seen \in Seq(Event) /\ ReadableByController /\ LastReported
  BY DEF Init, ReadableByController, LastReported
<1>2. EncryptionFollows
  BY DEF Init, Idle, EncryptionFollows
<1> QED
  BY <1>1, <1>2, TypeInit DEF FaithfulIInv

\* The invariant holds in every reachable state.
THEOREM AlwaysFaithfulIInv == Spec => []FaithfulIInv
<1>1. FaithfulIInv /\ [Next]_vars => FaithfulIInv'
  <2>1. FaithfulIInv => TypeOK
    BY DEF FaithfulIInv
  <2> QED
    BY <2>1, TypePreserved, FaithfulPreserved
<1> QED
  BY <1>1, FaithfulInit, PTL DEF Spec

\* What a controller can read and has processed last of each of its events is what the accessory
\* last reported, for any events and values and queues of any length: coalescing, suppression,
\* delivery at once, the reversed wire order and the change to encryption lose none of it.
THEOREM AlwaysConnectionFaithful == Spec => []ConnectionFaithful
<1>1. FaithfulIInv => ConnectionFaithful
  <2> SUFFICES ASSUME FaithfulIInv PROVE ControllerConverges
    BY DEF FaithfulIInv, ConnectionFaithful
  <2> SUFFICES ASSUME NEW e \in registeredEvents, tcpSocket = "open", current[e] # NoValue,
                      Absent(queuedEvents, e)
               PROVE  LastOf(seen, e, current[e])
    BY DEF ControllerConverges, Absent, LastOf
  <2>1. LastOf(queuedEvents, e, current[e]) \/ LastOf(seen, e, current[e])
    BY DEF FaithfulIInv, LastReported
  <2>2. ~LastOf(queuedEvents, e, current[e])
    BY DEF LastOf, Absent
  <2> QED
    BY <2>1, <2>2
<1> QED
  BY <1>1, AlwaysFaithfulIInv, PTL

-----------------------------------------------------------------------------
(* The connection implements the channel of EventChannel.                  *)

\* writeQueuedEventNotifications tells the controller what the channel owes it.
LEMMA WriteQueueIsTell ==
  ASSUME TypeOK, seen \in Seq(Event), NEW q \in Seq(Event), WriteQueue(q)
  PROVE  IF tcpSocket = "open" THEN Channel!Tell(q) ELSE UNCHANGED seen
<1>1. StillRegistered(q) = Channel!Wanted(q)
  BY DEF StillRegistered, EventsNamed, Channel!Wanted
<1>2. tcpSocket = "open" => seen' = seen \o StillRegistered(q)
  BY WriteQueueTells
<1> QED
  BY <1>1, <1>2 DEF WriteQueue, Channel!Tell

\* Every step of the connection is one of the channel, or none.
LEMMA ChannelStep ==
  FaithfulIInv /\ TypeOK' /\ [Next]_vars => [Channel!Next]_(Channel!vars)
<1> SUFFICES ASSUME FaithfulIInv, TypeOK', [Next]_vars
             PROVE  Channel!Next \/ UNCHANGED <<tcpSocket = "open", registeredEvents, current, queuedEvents, seen>>
  BY DEF Channel!vars
<1> USE DEF transport, queue, exchange, interest
<1>0. /\ TypeOK /\ seen \in Seq(Event) /\ queuedEvents \in Seq(Event)
      /\ current \in [Events -> Values \cup {NoValue}] /\ registeredEvents \subseteq Events
      /\ current' \in [Events -> Values \cup {NoValue}] /\ registeredEvents' \subseteq Events
  BY DEF FaithfulIInv, TypeOK, QueueTypeOK, InterestTypeOK
<1>1. ASSUME tcpSocket # "open", tcpSocket' # "open", UNCHANGED seen
      PROVE  Channel!Next
  BY <1>0, <1>1 DEF Channel!Next, Channel!Broken
<1>2. CASE Receive \/ OnHttpSocketConnect \/ HandleHttpServerRequest \/ Disconnect
  <2>1. UNCHANGED <<seen, queuedEvents, current>> /\ registeredEvents' \in {registeredEvents, {}}
        /\ (registeredEvents' = registeredEvents \/ tcpSocket' = "closed")
    BY <1>2 DEF Receive, OnTCPSocketData, OnTCPSocketDataUndecryptable, OnHttpSocketConnect,
         HandleHttpServerRequest, Disconnect, Close, OnTCPSocketClose, OnHttpSocketClose, OnHttpServerClose, TearDown
  <2>2. tcpSocket' = "open" => tcpSocket = "open"
    BY <1>2 DEF Receive, OnTCPSocketData, OnTCPSocketDataUndecryptable, OnHttpSocketConnect, CloseEffect,
         HandleHttpServerRequest, Disconnect, Close, OnTCPSocketClose, OnHttpSocketClose, OnHttpServerClose, TearDown
  <2>3. CASE tcpSocket # "open"
    BY <1>1, <2>1, <2>2, <2>3
  <2>4. CASE tcpSocket = "open" /\ tcpSocket' # "open"
    BY <2>1, <2>4 DEF Channel!Next, Channel!Break
  <2>5. CASE tcpSocket = "open" /\ tcpSocket' = "open"
    BY <2>1, <2>5
  <2> QED
    BY <2>3, <2>4, <2>5
<1>3. ASSUME NEW chunks \in 1..MaxChunks, RouteHandler(chunks)
      PROVE  Channel!Next \/ UNCHANGED <<tcpSocket = "open", registeredEvents, current, queuedEvents, seen>>
  <2>1. UNCHANGED <<tcpSocket, queuedEvents, seen>>
    BY <1>3 DEF RouteHandler
  <2>2. CASE tcpSocket # "open"
    BY <1>1, <2>1, <2>2
  <2>3. CASE registeredEvents' = registeredEvents
    BY <1>3, <2>1, <2>3 DEF RouteHandler
  <2>4. CASE tcpSocket = "open" /\ registeredEvents' # registeredEvents
    <3>1. current' = [current EXCEPT ![request.event] = NoValue]
      BY <1>3, <2>4 DEF RouteHandler
    <3>2. /\ request.kind \in {"subscribe", "unsubscribe"}
          /\ registeredEvents' \in {registeredEvents \cup {request.event}, registeredEvents \ {request.event}}
      BY <1>3, <2>4 DEF RouteHandler
    <3>3. request.event \in Events
      BY <1>0, <3>2, RequestUpdates DEF TypeOK, ExchangeTypeOK
    <3>4. Channel!Subscribe(request.event) \/ Channel!Unsubscribe(request.event)
      BY <2>1, <2>4, <3>1, <3>2 DEF Channel!Subscribe, Channel!Unsubscribe, Channel!Choose
    <3> QED
      BY <3>3, <3>4 DEF Channel!Next
  <2> QED
    BY <2>2, <2>3, <2>4
<1>4. ASSUME HandleHttpServerResponse \/ HandleEventsTimeout
      PROVE  Channel!Next \/ UNCHANGED <<tcpSocket = "open", registeredEvents, current, queuedEvents, seen>>
  <2>1. UNCHANGED <<tcpSocket, registeredEvents, current>>
    BY <1>4 DEF HandleHttpServerResponse, HandleEventsTimeout
  <2>2. WriteQueue(queuedEvents) \/ UNCHANGED <<queuedEvents, seen>>
    BY <1>4 DEF HandleHttpServerResponse, HandleEventsTimeout
  <2>3. CASE UNCHANGED <<queuedEvents, seen>>
    BY <2>1, <2>3
  <2>4. CASE WriteQueue(queuedEvents) /\ tcpSocket = "open"
    <3>1. Channel!Tell(queuedEvents)
      BY <1>0, <2>4, WriteQueueIsTell
    <3> QED
      BY <2>1, <2>4, <3>1 DEF Channel!Next, Channel!Deliver
  <2>5. CASE WriteQueue(queuedEvents) /\ tcpSocket # "open"
    BY <1>0, <1>1, <2>1, <2>5, WriteQueueIsTell
  <2> QED
    BY <2>2, <2>3, <2>4, <2>5
<1>5. ASSUME NEW e \in Events, NEW v \in Values, SendEvent(e, v)
      PROVE  Channel!Next
  <2> DEFINE q == Append(queuedEvents, [event |-> e, value |-> v])
  <2>1. /\ UNCHANGED <<tcpSocket, registeredEvents>> /\ e \in registeredEvents
        /\ current' = [current EXCEPT ![e] = v]
    BY <1>5 DEF SendEvent
  <2>2. q \in Seq(Event)
    BY <1>0 DEF Event
  <2>3. \/ queuedEvents' = q /\ UNCHANGED seen
        \/ WriteQueue(q)
        \/ AlreadyQueued(e, v) /\ UNCHANGED <<queuedEvents, seen>>
    BY <1>5 DEF SendEvent, SendImmediately, SendCoalesced
  <2>4. CASE tcpSocket # "open"
    <3>1. UNCHANGED seen
      BY <1>0, <2>2, <2>3, <2>4, WriteQueueIsTell
    <3> QED
      BY <1>1, <2>1, <2>4, <3>1
  <2>5. CASE tcpSocket = "open"
    <3>1. WriteQueue(q) => Channel!Tell(q)
      BY <1>0, <2>2, <2>5, WriteQueueIsTell
    <3>2. AlreadyQueued(e, v) => Channel!Repeats(e, v)
      BY DEF AlreadyQueued, Channel!Repeats
    <3>3. Channel!Report(e, v)
      BY <2>1, <2>3, <2>5, <3>1, <3>2 DEF Channel!Report
    <3> QED
      BY <3>3 DEF Channel!Next
  <2> QED
    BY <2>4, <2>5
<1>6. CASE UNCHANGED vars
  BY <1>6 DEF vars
<1> QED
  BY <1>2, <1>3, <1>4, <1>5, <1>6 DEF Next, Relay, Notify

\* The connection implements EventChannel: what is queued is what is owed, and every write, report,
\* request and loss of a connection is a step of the channel or none.
THEOREM EventChannelImplemented == Spec => ImplementsEventChannel
<1>1. Init => Channel!Init
  BY DEF Init, Channel!Init, Channel!Nothing
<1>2. FaithfulIInv /\ [Next]_vars => [Channel!Next]_(Channel!vars)
  <2>1. FaithfulIInv => TypeOK
    BY DEF FaithfulIInv
  <2> QED
    BY <2>1, TypePreserved, ChannelStep
<1> QED
  BY <1>1, <1>2, AlwaysFaithfulIInv, PTL DEF Spec, ImplementsEventChannel, Channel!Spec

-----------------------------------------------------------------------------
(***************************************************************************)
(* The record layer.  Where the frames of a stream end is a recursive      *)
(* function, and so is the loop of layerDecrypt: what they compute follows *)
(* by induction over the frames and over the rounds.                       *)
(***************************************************************************)

\* The positions of the frames: each is behind the one before, by its size.
LEMMA EndEquations ==
  ASSUME NEW fs \in Seq(1..Chunk)
  PROVE  /\ \A k \in 0..Len(fs) : End(fs, k) \in Nat
         /\ End(fs, 0) = 0
         /\ \A k \in 1..Len(fs) : End(fs, k) = End(fs, k - 1) + Size(fs[k])
<1> DEFINE step == [p \in (1..Len(fs)) \X Nat |-> p[2] + Size(fs[p[1]])]
           Unfolds(f) == f = [k \in 0..Len(fs) |-> IF k = 0 THEN 0 ELSE f[k - 1] + Size(fs[k])]
           end == CHOOSE f : Unfolds(f)
<1>0. Len(fs) \in Nat /\ \A k \in 1..Len(fs) : Size(fs[k]) \in Nat
  <2>1. ASSUME NEW k \in 1..Len(fs) PROVE Size(fs[k]) \in Nat
    <3>1. fs[k] \in 1..Chunk
      BY ElementOfSeq
    <3> QED
      BY <3>1, FramingAssumption DEF Size, Header
  <2> QED
    BY <2>1
<1>1. step \in [(1..Len(fs)) \X Nat -> Nat]
  BY <1>0
<1>2. PICK f \in [0..Len(fs) -> Nat] : f[0] = 0 /\ \A k \in 1..Len(fs) : f[k] = step[<<k, f[k - 1]>>]
  <2> HIDE DEF step
  <2>1. \E f : Iterates(f, Len(fs), Nat, 0, step)
    BY <1>0, <1>1, IterationExists
  <2> QED
    BY <2>1 DEF Iterates
<1>3. ASSUME NEW k \in 1..Len(fs)
      PROVE  f[k] = f[k - 1] + Size(fs[k])
  <2>0. k - 1 \in 0..Len(fs)
    BY <1>0
  <2>1. f[k - 1] \in Nat /\ f[k] = step[<<k, f[k - 1]>>]
    BY <1>2, <2>0
  <2> QED
    BY <2>1
<1>4. Unfolds(f)
  <2>1. f = [k \in 0..Len(fs) |-> f[k]]
    OBVIOUS
  <2>2. \A k \in 0..Len(fs) : f[k] = IF k = 0 THEN 0 ELSE f[k - 1] + Size(fs[k])
    <3> SUFFICES ASSUME NEW k \in 0..Len(fs), k # 0 PROVE f[k] = f[k - 1] + Size(fs[k])
      BY <1>2
    <3>1. k \in 1..Len(fs)
      BY <1>0
    <3> QED
      BY <1>3, <3>1
  <2> QED
    BY <2>1, <2>2
<1>5. Unfolds(end)
  <2> HIDE DEF Unfolds
  <2> QED
    BY <1>4
<1>6. \A k : End(fs, k) = end[k]
  BY DEF End
<1>7. end = f
  <2> HIDE DEF end
  <2>1. end = [k \in 0..Len(fs) |-> end[k]] /\ f = [k \in 0..Len(fs) |-> f[k]]
    BY <1>5
  <2>2. end[0] = f[0]
    <3>1. 0 \in 0..Len(fs)
      BY <1>0
    <3> QED
      BY <1>2, <1>5, <3>1
  <2>3. ASSUME NEW k \in 1..Len(fs), end[k - 1] = f[k - 1]
        PROVE  end[k] = f[k]
    <3>1. k \in 0..Len(fs) /\ k # 0
      BY <1>0
    <3>2. end[k] = end[k - 1] + Size(fs[k])
      BY <1>5, <3>1
    <3> QED
      BY <1>3, <2>3, <3>2
  <2>4. Agree(end, f, Len(fs))
    BY <2>1, <2>2, <2>3 DEF Agree
  <2> QED
    BY <1>0, <2>4, AgreeingAreEqual
<1> HIDE DEF end
<1>8. \A k : End(fs, k) = f[k]
  BY <1>6, <1>7
<1>9. 0 \in 0..Len(fs) /\ \A k \in 0..Len(fs) : f[k] \in Nat
  BY <1>0, <1>2
<1>10. \A k \in 0..Len(fs) : End(fs, k) \in Nat
  BY <1>8, <1>9
<1>11. End(fs, 0) = 0
  BY <1>2, <1>8
<1>12. \A k \in 1..Len(fs) : End(fs, k) = End(fs, k - 1) + Size(fs[k])
  BY <1>3, <1>8
<1> QED
  BY <1>10, <1>11, <1>12

\* A later frame ends later.
LEMMA EndGrows ==
  ASSUME NEW fs \in Seq(1..Chunk), NEW i \in 0..Len(fs), NEW j \in 0..Len(fs), i < j
  PROVE  End(fs, i) < End(fs, j)
<1> DEFINE Later == {n \in 0..Len(fs) : i < n => End(fs, i) < End(fs, n)}
<1>1. 0 \in Later /\ Len(fs) \in Nat
  OBVIOUS
<1>2. ASSUME NEW n \in 1..Len(fs), n - 1 \in Later
      PROVE  n \in Later
  <2>1. fs[n] \in 1..Chunk
    BY ElementOfSeq
  <2>2. /\ End(fs, n) = End(fs, n - 1) + Size(fs[n])
        /\ End(fs, n - 1) \in Nat /\ End(fs, i) \in Nat /\ End(fs, n) \in Nat
    <3>1. n - 1 \in 0..Len(fs) /\ n \in 0..Len(fs)
      BY <1>1
    <3> QED
      BY <3>1, EndEquations
  <2>3. End(fs, n - 1) < End(fs, n)
    BY <2>1, <2>2, FramingAssumption DEF Size, Header
  <2>4. i < n => i = n - 1 \/ i < n - 1
    BY <1>1
  <2> QED
    BY <1>2, <2>2, <2>3, <2>4
<1>3. 0..Len(fs) \subseteq Later
  <2> HIDE DEF Later
  <2> QED
    BY <1>1, <1>2, InductionUpTo
<1> QED
  BY <1>3

\* What is written later does not move a frame.
LEMMA EndOfPrefix ==
  ASSUME NEW fs \in Seq(1..Chunk), NEW gs \in Seq(1..Chunk), NEW i \in 0..Len(fs)
  PROVE  End(fs \o gs, i) = End(fs, i)
<1> DEFINE hs == fs \o gs
           Same == {n \in 0..Len(fs) : End(hs, n) = End(fs, n)}
<1>1. /\ hs \in Seq(1..Chunk) /\ Len(hs) = Len(fs) + Len(gs) /\ Len(fs) \in Nat /\ Len(gs) \in Nat
      /\ \A n \in 1..Len(fs) : hs[n] = fs[n]
  BY ConcatProperties
<1> HIDE DEF hs
<1>2. 0 \in Same
  BY <1>1, EndEquations
<1>3. ASSUME NEW n \in 1..Len(fs), n - 1 \in Same
      PROVE  n \in Same
  <2>1. n \in 1..Len(hs)
    BY <1>1
  <2>2. End(hs, n) = End(hs, n - 1) + Size(hs[n]) /\ End(fs, n) = End(fs, n - 1) + Size(fs[n])
    BY <1>1, <2>1, EndEquations
  <2> QED
    BY <1>1, <1>3, <2>2
<1>4. 0..Len(fs) \subseteq Same
  <2> HIDE DEF Same
  <2> QED
    BY <1>1, <1>2, <1>3, InductionUpTo
<1> QED
  BY <1>4 DEF hs

\* layerEncrypt makes frames of one to Chunk bytes.
LEMMA FramesOfWrite ==
  ASSUME NEW n \in Nat
  PROVE  LayerEncrypt(n) \in Seq(1..Chunk)
<1> DEFINE K == (n + Chunk - 1) \div Chunk
<1>1. n + Chunk - 1 \in Nat /\ Chunk \in Nat \ {0}
  BY FramingAssumption
<1>2. K \in Nat /\ K * Chunk <= n + Chunk - 1
  BY <1>1
<1> HIDE DEF K
<1>3. ASSUME NEW i \in 1..K
      PROVE  (IF i * Chunk <= n THEN Chunk ELSE n - (i - 1) * Chunk) \in 1..Chunk
  <2>1. i * Chunk <= K * Chunk /\ i * Chunk \in Nat /\ K * Chunk \in Nat /\ (i - 1) * Chunk = i * Chunk - Chunk
    BY <1>1, <1>2
  <2> QED
    BY <1>1, <1>2, <2>1
<1>4. LayerEncrypt(n) = [i \in 1..K |-> IF i * Chunk <= n THEN Chunk ELSE n - (i - 1) * Chunk]
  BY DEF LayerEncrypt, K
<1> QED
  BY <1>2, <1>3, <1>4

\* What layerDecrypt has after the frames from the c-th to the m-th, keeping kept bytes.
After(c, m, kept) ==
  [offset |-> End(frames, m), count |-> m, incomplete |-> kept,
   chunks |-> [i \in 1 .. m - c |-> c + i], error |-> FALSE]

\* Where the loop of layerDecrypt can be with a packet that ends at "to".
Whole(c, to) == {m \in c..Len(frames) : End(frames, m) <= to}
Broken(c, to) ==
  {m \in c..(Len(frames) - 1) : /\ End(frames, m) < to /\ to < End(frames, m + 1)
                                /\ to # End(frames, m) + 1}
Cut(c, to) == {m \in c..(Len(frames) - 1) : to = End(frames, m) + 1}
Failed(c, m) == [After(c, m, 0) EXCEPT !.error = TRUE]
Progress(c, to) ==
  {After(c, m, 0) : m \in Whole(c, to)} \cup {After(c, m, to - End(frames, m)) : m \in Broken(c, to)}
    \cup {Failed(c, m) : m \in Cut(c, to)}

\* The stream is a sequence of frames, and "to" is a position in it.
Stream(to) ==
  /\ frames \in Seq(1..Chunk)
  /\ to \in 0..Total

\* A position where a frame begins tells which.
LEMMA FrameFound ==
  ASSUME frames \in Seq(1..Chunk), NEW m \in 0..Len(frames), m < Len(frames)
  PROVE  FrameAt(End(frames, m)) = {m + 1}
<1>1. m + 1 \in 1..Len(frames) /\ (m + 1) - 1 = m
  OBVIOUS
<1>2. ASSUME NEW i \in 1..Len(frames), End(frames, i - 1) = End(frames, m)
      PROVE  i = m + 1
  <2>1. i - 1 \in 0..Len(frames) /\ Len(frames) \in Nat
    OBVIOUS
  <2>2. End(frames, i - 1) \in Nat /\ End(frames, m) \in Nat
    BY <2>1, EndEquations
  <2>3. ~ (i - 1 < m)
    BY <1>2, <2>1, <2>2, EndGrows
  <2>4. ~ (m < i - 1)
    BY <1>2, <2>1, <2>2, EndGrows
  <2> QED
    BY <2>1, <2>3, <2>4
<1> QED
  BY <1>1, <1>2 DEF FrameAt

\* A round of the loop decrypts one more frame, or keeps what there is of it, or fails, or finds
\* nothing to do.
LEMMA RoundProgress ==
  ASSUME NEW to, Stream(to), NEW c \in 0..Len(frames), NEW from, NEW s \in Progress(c, to)
  PROVE  /\ Round(s, from, to) \in Progress(c, to)
         /\ Over(s, to) => Round(s, from, to) = s
         /\ ~ Over(s, to) => Over(Round(s, from, to), to) \/ Round(s, from, to).count = s.count + 1
<1>1. CASE Over(s, to)
  BY <1>1 DEF Round
<1>2. CASE ~ Over(s, to)
  <2>1. PICK m \in Whole(c, to) : s = After(c, m, 0)
    <3>1. ASSUME NEW m \in Broken(c, to), s = After(c, m, to - End(frames, m))
          PROVE  FALSE
      <4>1. m \in 0..Len(frames) /\ End(frames, m) < to /\ to \in Nat
        BY DEF Broken, Stream
      <4>2. End(frames, m) \in Nat
        BY <4>1, EndEquations DEF Stream
      <4>3. s.incomplete = to - End(frames, m)
        BY <3>1 DEF After
      <4> QED
        BY <1>2, <4>1, <4>2, <4>3 DEF Over
    <3>2. ASSUME NEW m \in Cut(c, to), s = Failed(c, m)
          PROVE  FALSE
      <4>1. s.error = TRUE
        BY <3>2 DEF Failed, After
      <4> QED
        BY <1>2, <4>1 DEF Over
    <3> QED
      BY <3>1, <3>2 DEF Progress
  <2>2. /\ s.offset = End(frames, m) /\ s.count = m /\ s.incomplete = 0 /\ s.error = FALSE
        /\ s.chunks = [i \in 1 .. m - c |-> c + i]
    BY <2>1 DEF After
  <2>3. /\ m \in c..Len(frames) /\ m \in 0..Len(frames) /\ Len(frames) \in Nat /\ c \in Nat
        /\ End(frames, m) \in Nat /\ to \in Nat /\ End(frames, m) < to /\ to <= End(frames, Len(frames))
    <3>1. m \in c..Len(frames) /\ m \in 0..Len(frames) /\ Len(frames) \in Nat /\ c \in Nat
      BY DEF Whole, Stream
    <3>2. End(frames, m) \in Nat /\ End(frames, Len(frames)) \in Nat
      BY <3>1, EndEquations DEF Stream
    <3> QED
      BY <1>2, <2>2, <3>1, <3>2 DEF Over, Stream, Total
  <2>4. m < Len(frames)
    BY <2>3
  <2>5. /\ m + 1 \in 1..Len(frames) /\ frames[m + 1] \in 1..Chunk /\ End(frames, m + 1) \in Nat
        /\ End(frames, m + 1) = End(frames, m) + Size(frames[m + 1])
    <3>1. m + 1 \in 1..Len(frames) /\ m + 1 \in 0..Len(frames) /\ (m + 1) - 1 = m
      BY <2>3, <2>4
    <3>2. frames[m + 1] \in 1..Chunk
      BY <3>1, ElementOfSeq DEF Stream
    <3> QED
      BY <3>1, <3>2, EndEquations DEF Stream
  <2>6. CASE to - s.offset < Header
    <3>1. to = End(frames, m) + 1 /\ m \in Cut(c, to)
      BY <2>2, <2>3, <2>4, <2>6 DEF Header, Cut
    <3>2. Round(s, from, to) = [s EXCEPT !.error = TRUE]
      BY <1>2, <2>6 DEF Round
    <3>3. Round(s, from, to) = Failed(c, m)
      BY <2>1, <3>2 DEF Failed
    <3>4. Over(Round(s, from, to), to)
      BY <3>3 DEF Over, Failed, After
    <3> QED
      BY <1>2, <3>1, <3>3, <3>4 DEF Progress
  <2>7. FrameAt(s.offset) = {m + 1} /\ (CHOOSE j \in FrameAt(s.offset) : TRUE) = m + 1
    <3>1. FrameAt(s.offset) = {m + 1}
      BY <2>2, <2>3, <2>4, FrameFound DEF Stream
    <3> QED
      BY <3>1
  <2>8. CASE ~ (to - s.offset < Header) /\ Fragmented(frames[m + 1], to - s.offset)
    <3>1. to < End(frames, m + 1)
      <4>1. frames[m + 1] > to - End(frames, m) - Header - Tag
        BY <2>2, <2>8 DEF Fragmented
      <4> QED
        BY <2>3, <2>5, <4>1, FramingAssumption DEF Size, Header
    <3>2. Round(s, from, to) = [s EXCEPT !.incomplete = to - s.offset]
      BY <1>2, <2>7, <2>8 DEF Round, Rest
    <3>3. Round(s, from, to) = After(c, m, to - End(frames, m))
      BY <2>1, <2>2, <3>2 DEF After
    <3>4. m \in Broken(c, to)
      <4>1. to # End(frames, m) + 1
        BY <2>2, <2>3, <2>8 DEF Header
      <4> QED
        BY <2>3, <2>4, <3>1, <4>1 DEF Broken
    <3>5. Over(Round(s, from, to), to)
      BY <2>3, <3>3 DEF Over, After
    <3> QED
      BY <1>2, <3>3, <3>4, <3>5 DEF Progress
  <2>9. CASE ~ (to - s.offset < Header) /\ ~ Fragmented(frames[m + 1], to - s.offset)
    <3>1. End(frames, m + 1) <= to /\ Size(frames[m + 1]) <= to - s.offset
      <4>1. ~ (frames[m + 1] > to - End(frames, m) - Header - Tag)
        BY <2>2, <2>9 DEF Fragmented
      <4> QED
        BY <2>2, <2>3, <2>5, <4>1, FramingAssumption DEF Size, Header
    <3>2. Round(s, from, to)
            = [s EXCEPT !.offset = @ + Size(frames[m + 1]), !.count = @ + 1, !.chunks = Append(@, m + 1)]
      BY <1>2, <2>2, <2>7, <2>9, <3>1 DEF Round
    <3>3. Append(s.chunks, m + 1) = [i \in 1 .. (m + 1) - c |-> c + i]
      <4> DEFINE old == [i \in 1 .. m - c |-> c + i]
                 new == [i \in 1 .. (m + 1) - c |-> c + i]
      <4>1. m - c \in Nat /\ old \in Seq(Nat) /\ Len(old) = m - c
        BY <2>3
      <4>2. Append(old, m + 1) = [i \in 1 .. (m - c) + 1 |-> IF i = (m - c) + 1 THEN m + 1 ELSE old[i]]
        BY <4>1
      <4>3. \A i \in 1 .. (m - c) + 1 : (IF i = (m - c) + 1 THEN m + 1 ELSE old[i]) = c + i
        BY <2>3
      <4>4. (m - c) + 1 = (m + 1) - c
        BY <2>3
      <4>5. Append(old, m + 1) = new
        <5> HIDE DEF old
        <5> QED
          BY <4>2, <4>3, <4>4
      <4> QED
        BY <2>2, <4>5
    <3>4. Round(s, from, to) = After(c, m + 1, 0)
      BY <2>1, <2>2, <2>5, <3>2, <3>3 DEF After
    <3>5. m + 1 \in Whole(c, to)
      BY <2>3, <2>4, <2>5, <3>1 DEF Whole
    <3>6. Round(s, from, to).count = s.count + 1
      BY <2>2, <3>4 DEF After
    <3> QED
      BY <1>2, <3>4, <3>5, <3>6 DEF Progress
  <2> QED
    BY <2>6, <2>8, <2>9
<1> QED
  BY <1>1, <1>2

\* The frames up to the m-th are decrypted, and the bytes of the next one are kept.
DecryptedTo(d, c, m, to) ==
  /\ d = After(c, m, to - End(frames, m))
  /\ End(frames, m) <= to
  /\ m < Len(frames) => to < End(frames, m + 1) /\ to # End(frames, m) + 1

\* The bytes behind the m-th frame are one, of the next one's length.
FailedAt(d, c, m, to) == d = Failed(c, m) /\ m < Len(frames) /\ to = End(frames, m) + 1

\* From the end of a frame, layerDecrypt decrypts every frame that is complete, and keeps the rest,
\* unless the rest is one byte.
LEMMA CompleteDecrypted ==
  ASSUME NEW to, Stream(to), count \in 0..Len(frames), End(frames, count) <= to
  PROVE  \E m \in count..Len(frames) : LET d == LayerDecrypt(End(frames, count), to)
                                      IN  DecryptedTo(d, count, m, to) \/ FailedAt(d, count, m, to)
<1> DEFINE N == Len(frames) + 1
           S == Progress(count, to)
           from == End(frames, count)
           step == [p \in (1..N) \X S |-> Round(p[2], from, to)]
           Unfolds(f) == f = [n \in 0..N |-> IF n = 0 THEN Begun(from) ELSE Round(f[n - 1], from, to)]
           after == CHOOSE f : Unfolds(f)
<1>0. Len(frames) \in Nat /\ N \in Nat /\ count \in Nat /\ to \in Nat
  BY DEF Stream
<1>1. Begun(from) \in S /\ Begun(from).count = count
  <2>1. Begun(from) = After(count, count, 0)
    <3>1. [i \in 1 .. count - count |-> count + i] = <<>>
      BY <1>0
    <3> QED
      BY <3>1 DEF Begun, After
  <2>2. count \in Whole(count, to)
    BY <1>0 DEF Whole
  <2>3. Begun(from) \in S
    BY <2>1, <2>2 DEF Progress
  <2>4. Begun(from).count = count
    BY DEF Begun
  <2> QED
    BY <2>3, <2>4
<1>2. step \in [(1..N) \X S -> S]
  <2>1. \A s \in S : Round(s, from, to) \in S
    BY RoundProgress
  <2> HIDE DEF S, N, from
  <2> QED
    BY <2>1
<1>3. PICK f \in [0..N -> S] : f[0] = Begun(from) /\ \A n \in 1..N : f[n] = Round(f[n - 1], from, to)
  <2>1. \E f : Iterates(f, N, S, Begun(from), step)
    <3> HIDE DEF S, N, from, step
    <3> QED
      BY <1>0, <1>1, <1>2, IterationExists
  <2>2. PICK f : Iterates(f, N, S, Begun(from), step)
    BY <2>1
  <2>3. ASSUME NEW n \in 1..N
        PROVE  f[n] = Round(f[n - 1], from, to)
    <3>1. n - 1 \in 0..N
      BY <1>0
    <3> HIDE DEF S, N, from
    <3>2. f[n - 1] \in S /\ f[n] = step[<<n, f[n - 1]>>]
      BY <2>2, <3>1 DEF Iterates
    <3> QED
      BY <3>2
  <2> HIDE DEF S, N, from, step
  <2> QED
    BY <2>2, <2>3 DEF Iterates
<1>4. Unfolds(f)
  <2> HIDE DEF S, from
  <2>1. f = [n \in 0..N |-> f[n]]
    OBVIOUS
  <2>2. \A n \in 0..N : f[n] = IF n = 0 THEN Begun(from) ELSE Round(f[n - 1], from, to)
    <3> SUFFICES ASSUME NEW n \in 0..N, n # 0 PROVE f[n] = Round(f[n - 1], from, to)
      BY <1>3
    <3>1. n \in 1..N
      BY <1>0
    <3> QED
      BY <1>3, <3>1
  <2> QED
    BY <2>1, <2>2
<1>5. Unfolds(after)
  <2> HIDE DEF Unfolds
  <2> QED
    BY <1>4
<1>6. LayerDecrypt(from, to) = after[N]
  BY DEF LayerDecrypt
<1>7. after = f
  <2> HIDE DEF after, S, from
  <2>1. after = [n \in 0..N |-> after[n]] /\ f = [n \in 0..N |-> f[n]]
    BY <1>5
  <2>2. after[0] = f[0]
    <3>1. 0 \in 0..N
      BY <1>0
    <3> QED
      BY <1>3, <1>5, <3>1
  <2>3. ASSUME NEW n \in 1..N, after[n - 1] = f[n - 1]
        PROVE  after[n] = f[n]
    <3>1. n \in 0..N /\ n # 0
      BY <1>0
    <3>2. after[n] = Round(after[n - 1], from, to)
      BY <1>5, <3>1
    <3> QED
      BY <1>3, <2>3, <3>2
  <2> HIDE DEF N
  <2>4. Agree(after, f, N)
    BY <2>1, <2>2, <2>3 DEF Agree
  <2> QED
    BY <1>0, <2>4, AgreeingAreEqual
<1> HIDE DEF after, Unfolds, step
\* After as many rounds as there are frames, and one more, the loop is over.
<1>8. Over(f[N], to)
  <2> DEFINE Far == {n \in 0..N : Over(f[n], to) \/ f[n].count = count + n}
  <2>1. 0 \in Far
    BY <1>0, <1>1, <1>3
  <2>2. ASSUME NEW n \in 1..N, n - 1 \in Far
        PROVE  n \in Far
    <3>1. n - 1 \in 0..N /\ f[n - 1] \in S /\ n \in 0..N
      <4>1. n - 1 \in 0..N /\ n \in 0..N
        BY <1>0
      <4> HIDE DEF S
      <4> QED
        BY <1>3, <4>1
    <3>2. f[n] = Round(f[n - 1], from, to)
      BY <1>3
    <3>3. CASE Over(f[n - 1], to)
      <4>1. f[n] = f[n - 1]
        BY <3>1, <3>2, <3>3, RoundProgress
      <4> QED
        BY <3>1, <3>3, <4>1
    <3>4. CASE ~ Over(f[n - 1], to)
      <4>1. f[n - 1].count = count + (n - 1)
        BY <2>2, <3>4
      <4>2. Over(f[n], to) \/ f[n].count = f[n - 1].count + 1
        BY <3>1, <3>2, <3>4, RoundProgress
      <4>3. count + (n - 1) + 1 = count + n
        BY <1>0
      <4> QED
        BY <3>1, <4>1, <4>2, <4>3
    <3> QED
      BY <3>3, <3>4
  <2>3. 0..N \subseteq Far
    <3> HIDE DEF Far, N
    <3> QED
      BY <1>0, <2>1, <2>2, InductionUpTo
  <2>4. N \in Far
    BY <1>0, <2>3
  <2>5. f[N] \in S
    <3>1. N \in 0..N
      BY <1>0
    <3> HIDE DEF S
    <3> QED
      BY <1>3, <3>1
  <2>6. f[N].count \in 0..Len(frames)
    <3>1. \A c, m, kept : After(c, m, kept).count = m /\ Failed(c, m).count = m
      BY DEF After, Failed
    <3> QED
      BY <1>0, <2>5, <3>1 DEF Progress, Whole, Broken, Cut
  <2> QED
    BY <1>0, <2>4, <2>6
<1>9. f[N] \in S
  <2>1. N \in 0..N
    BY <1>0
  <2> HIDE DEF S
  <2> QED
    BY <1>3, <2>1
<1>10. \A m \in count..Len(frames) : End(frames, m) \in Nat
  BY <1>0, EndEquations DEF Stream
<1>11. CASE \E m \in Whole(count, to) : f[N] = After(count, m, 0)
  <2>1. PICK m \in Whole(count, to) : f[N] = After(count, m, 0)
    BY <1>11
  <2>2. /\ f[N].offset = End(frames, m) /\ f[N].incomplete = 0 /\ f[N].error = FALSE
    BY <2>1 DEF After
  <2>3. m \in count..Len(frames) /\ End(frames, m) <= to /\ End(frames, m) \in Nat
    BY <1>10 DEF Whole
  <2>4. End(frames, m) = to
    BY <1>0, <1>8, <2>2, <2>3 DEF Over
  <2>5. m < Len(frames) => to < End(frames, m + 1) /\ to # End(frames, m) + 1
    <3> SUFFICES ASSUME m < Len(frames) PROVE End(frames, m) < End(frames, m + 1)
      BY <2>3, <2>4
    <3>1. m \in 0..Len(frames) /\ m + 1 \in 0..Len(frames) /\ m < m + 1
      BY <1>0, <2>3
    <3> QED
      BY <3>1, EndGrows DEF Stream
  <2>6. to - End(frames, m) = 0
    BY <2>3, <2>4
  <2>7. DecryptedTo(f[N], count, m, to)
    BY <2>1, <2>3, <2>5, <2>6 DEF DecryptedTo
  <2> QED
    BY <1>6, <1>7, <2>3, <2>7
<1>12. CASE \E m \in Broken(count, to) : f[N] = After(count, m, to - End(frames, m))
  <2>1. PICK m \in Broken(count, to) : f[N] = After(count, m, to - End(frames, m))
    BY <1>12
  <2>2. /\ m \in count..Len(frames) /\ End(frames, m) \in Nat /\ End(frames, m) < to
        /\ to < End(frames, m + 1) /\ to # End(frames, m) + 1
    BY <1>0, <1>10 DEF Broken
  <2>3. DecryptedTo(f[N], count, m, to)
    BY <1>0, <2>1, <2>2 DEF DecryptedTo
  <2> QED
    BY <1>6, <1>7, <2>2, <2>3
<1>13. CASE \E m \in Cut(count, to) : f[N] = Failed(count, m)
  <2>1. PICK m \in Cut(count, to) : f[N] = Failed(count, m)
    BY <1>13
  <2>2. m \in count..Len(frames) /\ m < Len(frames) /\ to = End(frames, m) + 1
    BY <1>0 DEF Cut
  <2>3. FailedAt(f[N], count, m, to)
    BY <2>1, <2>2 DEF FailedAt
  <2> QED
    BY <1>6, <1>7, <2>2, <2>3
<1> QED
  BY <1>9, <1>11, <1>12, <1>13 DEF Progress

\* A position behind the m-th frame, but not one byte behind it, and before the end of the next one
\* cuts no length.
LEMMA NoLengthCut ==
  ASSUME NEW to, Stream(to), NEW m \in 0..Len(frames), End(frames, m) <= to,
         m < Len(frames) => to < End(frames, m + 1) /\ to # End(frames, m) + 1
  PROVE  ~ CutsHeader(to)
<1> SUFFICES ASSUME NEW i \in 0 .. Len(frames) - 1, End(frames, i) + 1 = to PROVE FALSE
  BY DEF CutsHeader
<1>1. Len(frames) \in Nat /\ to \in Nat
  BY DEF Stream
<1>2. /\ i \in 0..Len(frames) /\ i + 1 \in 0..Len(frames) /\ i + 1 \in 1..Len(frames) /\ (i + 1) - 1 = i
  BY <1>1
<1>3. End(frames, i) \in Nat /\ End(frames, i + 1) \in Nat /\ End(frames, m) \in Nat
  BY <1>2, EndEquations DEF Stream
<1>4. End(frames, i + 1) > to
  <2>1. frames[i + 1] \in 1..Chunk
    BY <1>2, ElementOfSeq DEF Stream
  <2>2. End(frames, i + 1) = End(frames, i) + Size(frames[i + 1])
    BY <1>2, EndEquations DEF Stream
  <2> QED
    BY <1>1, <1>3, <2>1, <2>2, FramingAssumption DEF Size, Header
<1>5. CASE i = m
  BY <1>1, <1>2, <1>5
<1>6. CASE i < m
  <2>1. End(frames, i + 1) <= End(frames, m)
    <3>1. CASE i + 1 = m
      BY <1>3, <3>1
    <3>2. CASE i + 1 < m
      <4>1. End(frames, i + 1) < End(frames, m)
        BY <1>2, <3>2, EndGrows DEF Stream
      <4> QED
        BY <1>3, <4>1
    <3> QED
      BY <1>1, <1>2, <1>6, <3>1, <3>2
  <2> QED
    BY <1>1, <1>3, <1>4, <2>1
<1>7. CASE i > m
  <2>1. m < Len(frames) /\ m + 1 \in 0..Len(frames)
    BY <1>1, <1>2, <1>7
  <2>2. to < End(frames, m + 1) /\ End(frames, m + 1) \in Nat
    BY <2>1, EndEquations DEF Stream
  <2>3. End(frames, m + 1) <= End(frames, i)
    <3>1. CASE m + 1 = i
      BY <1>3, <3>1
    <3>2. CASE m + 1 < i
      <4>1. End(frames, m + 1) < End(frames, i)
        BY <1>2, <2>1, <3>2, EndGrows DEF Stream
      <4> QED
        BY <1>3, <2>2, <4>1
    <3> QED
      BY <1>1, <1>2, <1>7, <3>1, <3>2
  <2> QED
    BY <1>1, <1>3, <2>2, <2>3
<1> QED
  BY <1>1, <1>2, <1>5, <1>6, <1>7

\* While the connection is open, the frames up to the count-th are delivered, and of the next one,
\* whose end has not arrived, the bytes that have are kept, but not one alone.  Once it is closed,
\* what has arrived ends one byte into a frame.
FramesIInv ==
  /\ frames \in Seq(1..Chunk) /\ Len(frames) <= MaxFrames
  /\ count \in 0..Len(frames)
  /\ arrived \in Nat /\ arrived <= Total
  /\ open \in BOOLEAN
  /\ \E n \in 0..count : delivered = [i \in 1..n |-> i]
  /\ open => /\ End(frames, count) <= arrived
             /\ incomplete = arrived - End(frames, count)
             /\ count < Len(frames) => arrived < End(frames, count + 1) /\ arrived # End(frames, count) + 1
             /\ delivered = [i \in 1..count |-> i]
  /\ ~open => incomplete = 0 /\ CutsHeader(arrived)

\* The initial state satisfies the invariant.
LEMMA FramesInitIInv == FramesInit => FramesIInv
<1> SUFFICES ASSUME FramesInit PROVE FramesIInv
  OBVIOUS
<1> USE DEF FramesInit
<1>1. frames \in Seq(1..Chunk) /\ Len(frames) = 0 /\ count \in 0..Len(frames)
  OBVIOUS
<1>2. Total = 0 /\ End(frames, count) = 0
  BY <1>1, EndEquations DEF Total
<1>3. delivered = [i \in 1..count |-> i]
  OBVIOUS
<1> QED
  BY <1>1, <1>2, <1>3, FramingAssumption DEF FramesIInv

\* What is written is behind what was written before.
LEMMA WriteIInv ==
  ASSUME FramesIInv, NEW n \in 1..MaxWrite, Write(n)
  PROVE  FramesIInv'
<1> USE DEF FramesIInv
<1>1. n \in Nat /\ LayerEncrypt(n) \in Seq(1..Chunk)
  BY FramesOfWrite, FramingAssumption
<1>2. PICK fs : fs = frames
  OBVIOUS
<1>3. PICK gs : gs = LayerEncrypt(n)
  OBVIOUS
<1>4. frames' = fs \o gs /\ fs \in Seq(1..Chunk) /\ gs \in Seq(1..Chunk) /\ Len(fs) + Len(gs) <= MaxFrames
  BY <1>1, <1>2, <1>3 DEF Write
<1>5. /\ frames' \in Seq(1..Chunk) /\ Len(frames') = Len(fs) + Len(gs) /\ Len(fs) \in Nat /\ Len(gs) \in Nat
  BY <1>4, ConcatProperties
<1>6. \A i \in 0..Len(fs) : End(frames', i) = End(fs, i) /\ End(fs, i) \in Nat
  BY <1>4, EndOfPrefix, EndEquations
<1>7. UNCHANGED <<arrived, incomplete, count, delivered, open>>
  BY DEF Write
<1>8. End(frames', Len(frames')) \in Nat /\ End(frames', Len(fs)) <= End(frames', Len(frames'))
  <2> DEFINE hs == fs \o gs
  <2>1. hs \in Seq(1..Chunk) /\ Len(hs) = Len(fs) + Len(gs)
    BY <1>4, <1>5
  <2> HIDE DEF hs
  <2>2. Len(fs) \in 0..Len(hs) /\ Len(hs) \in 0..Len(hs) /\ Len(fs) <= Len(hs)
    BY <1>5, <2>1
  <2>3. End(hs, Len(hs)) \in Nat /\ End(hs, Len(fs)) \in Nat
    BY <2>1, <2>2, EndEquations
  <2>4. End(hs, Len(fs)) <= End(hs, Len(hs))
    <3>1. CASE Len(fs) = Len(hs)
      BY <2>3, <3>1
    <3>2. CASE Len(fs) < Len(hs)
      BY <2>1, <2>2, <2>3, <3>2, EndGrows
    <3> QED
      BY <2>2, <3>1, <3>2
  <2>5. frames' = hs
    BY <1>4 DEF hs
  <2> QED
    BY <2>3, <2>4, <2>5
<1>9. arrived' <= Total' /\ Total' \in Nat
  <2>1. arrived <= End(fs, Len(fs))
    BY <1>2 DEF Total
  <2>2. Total' = End(frames', Len(frames'))
    BY DEF Total
  <2>3. Len(fs) \in 0..Len(fs)
    BY <1>5
  <2>4. End(frames', Len(fs)) = End(fs, Len(fs)) /\ End(fs, Len(fs)) \in Nat
    BY <1>6, <2>3
  <2> QED
    BY <1>7, <1>8, <2>1, <2>2, <2>4
<1>10. open => (count' < Len(frames') => arrived' < End(frames', count' + 1) /\ arrived' # End(frames', count') + 1)
  <2> SUFFICES ASSUME open
               PROVE  count' < Len(frames') =>
                        arrived' < End(frames', count' + 1) /\ arrived' # End(frames', count') + 1
    OBVIOUS
  <2>0. End(frames', count') = End(fs, count) /\ End(fs, count) \in Nat
    BY <1>2, <1>5, <1>6, <1>7
  <2>1. CASE count < Len(fs)
    <3>1. count + 1 \in 0..Len(fs)
      BY <1>2, <1>5, <2>1
    <3> QED
      BY <1>2, <1>6, <1>7, <2>0, <2>1, <3>1
  <2>2. CASE count = Len(fs)
    <3> DEFINE hs == fs \o gs
    <3>1. hs \in Seq(1..Chunk) /\ frames' = hs
      BY <1>4, <1>5
    <3> HIDE DEF hs
    <3>2. arrived = End(fs, count)
      BY <1>2, <1>6, <2>0, <2>2 DEF Total
    <3>3. ASSUME count < Len(hs)
          PROVE  End(hs, count) < End(hs, count + 1)
      <4>1. count \in 0..Len(hs) /\ count + 1 \in 0..Len(hs) /\ count < count + 1
        BY <1>5, <2>2, <3>1, <3>3
      <4> QED
        BY <3>1, <4>1, EndGrows
    <3>4. End(hs, count) = End(fs, count)
      BY <1>2, <1>6, <3>1
    <3> QED
      BY <1>7, <2>0, <3>1, <3>2, <3>3, <3>4
  <2> QED
    BY <1>2, <1>5, <2>1, <2>2
<1>13. ~open => CutsHeader(arrived)'
  <2> SUFFICES ASSUME ~open PROVE \E i \in 0 .. Len(frames') - 1 : End(frames', i) + 1 = arrived'
    BY DEF CutsHeader
  <2>1. PICK i \in 0 .. Len(fs) - 1 : End(fs, i) + 1 = arrived
    BY <1>2 DEF CutsHeader
  <2>2. i \in 0..Len(fs) /\ i \in 0 .. Len(frames') - 1
    BY <1>5
  <2> QED
    BY <1>6, <1>7, <2>1, <2>2
<1>11. count' \in 0..Len(frames') /\ End(frames', count') = End(frames, count)
  BY <1>2, <1>5, <1>6, <1>7
<1>12. /\ frames' \in Seq(1..Chunk) /\ Len(frames') <= MaxFrames
  BY <1>4, <1>5
<1> QED
  BY <1>7, <1>9, <1>10, <1>11, <1>12, <1>13

\* A packet is decrypted up to the last complete frame, or closes the connection.
LEMMA PacketIInv ==
  ASSUME FramesIInv, NEW n \in 1 .. Total - arrived, OnTCPSocketBytes(n)
  PROVE  FramesIInv'
<1> USE DEF FramesIInv
<1> DEFINE to == arrived + n
           d == LayerDecrypt(arrived - incomplete, arrived + n)
<1>1. /\ Len(frames) \in Nat /\ count \in Nat /\ End(frames, count) \in Nat
      /\ Total \in Nat /\ to \in Nat /\ to <= Total /\ arrived <= to
  <2>1. Len(frames) \in Nat /\ Len(frames) \in 0..Len(frames) /\ count \in 0..Len(frames)
    OBVIOUS
  <2>2. End(frames, count) \in Nat /\ Total \in Nat
    BY <2>1, EndEquations DEF Total
  <2> QED
    BY <2>1, <2>2
<1>2. Stream(to) /\ open
  BY <1>1 DEF Stream, OnTCPSocketBytes
<1>3. arrived - incomplete = End(frames, count) /\ delivered = [i \in 1..count |-> i]
  BY <1>1, <1>2
<1>4. PICK m \in count..Len(frames) : DecryptedTo(d, count, m, to) \/ FailedAt(d, count, m, to)
  <2>1. End(frames, count) <= to
    BY <1>1, <1>2
  <2> HIDE DEF to
  <2>2. \E m \in count..Len(frames) : \/ DecryptedTo(LayerDecrypt(End(frames, count), to), count, m, to)
                                      \/ FailedAt(LayerDecrypt(End(frames, count), to), count, m, to)
    BY <1>2, <2>1, CompleteDecrypted
  <2> QED
    BY <1>3, <2>2 DEF to
<1>5. /\ m \in 0..Len(frames) /\ m \in Nat /\ End(frames, m) \in Nat
  <2>1. m \in 0..Len(frames) /\ m \in Nat
    BY <1>1
  <2> QED
    BY <2>1, EndEquations
<1>7. /\ arrived' = to /\ incomplete' = d.incomplete /\ count' = d.count
      /\ delivered' = IF d.error THEN delivered ELSE delivered \o d.chunks
      /\ open' = ~ d.error /\ frames' = frames
  BY DEF OnTCPSocketBytes
<1>10. arrived' \in Nat /\ arrived' <= Total'
  BY <1>1, <1>7 DEF Total
<1> HIDE DEF to, d
<1>12. CASE FailedAt(d, count, m, to)
  <2>1. d.count = m /\ d.incomplete = 0 /\ d.error = TRUE /\ m < Len(frames) /\ to = End(frames, m) + 1
    BY <1>12 DEF FailedAt, Failed, After
  <2>2. count' = m /\ incomplete' = 0 /\ open' = FALSE /\ delivered' = delivered /\ frames' = frames
    BY <1>7, <2>1
  <2>3. CutsHeader(arrived)'
    <3>1. m \in 0 .. Len(frames) - 1
      BY <1>1, <1>5, <2>1
    <3> QED
      BY <1>7, <2>1, <2>2, <3>1 DEF CutsHeader
  <2>4. count \in 0..m
    BY <1>1, <1>5
  <2> QED
    BY <1>3, <1>5, <1>10, <2>2, <2>3, <2>4
<1>13. CASE DecryptedTo(d, count, m, to)
  <2>6. /\ d.count = m /\ d.incomplete = to - End(frames, m) /\ d.error = FALSE
        /\ d.chunks = [i \in 1 .. m - count |-> count + i]
        /\ End(frames, m) <= to
        /\ m < Len(frames) => to < End(frames, m + 1) /\ to # End(frames, m) + 1
    BY <1>13 DEF DecryptedTo, After
  <2>8. delivered' = [i \in 1..m |-> i]
    <3> DEFINE old == [i \in 1..count |-> i]
               new == [i \in 1 .. m - count |-> count + i]
    <3>1. delivered' = old \o new
      BY <1>3, <2>6, <1>7
    <3>2. old \in Seq(Nat) /\ new \in Seq(Nat) /\ Len(old) = count /\ Len(new) = m - count
      BY <1>1, <1>4, <1>5
    <3>3. \A i \in 1..count : old[i] = i
      OBVIOUS
    <3>4. \A i \in 1 .. m - count : new[i] = count + i
      OBVIOUS
    <3> HIDE DEF old, new, FramesIInv
    <3>5. /\ old \o new \in Seq(Nat) /\ Len(old \o new) = m
          /\ \A i \in 1..m : (old \o new)[i] = IF i <= count THEN old[i] ELSE new[i - count]
      <4>1. /\ old \o new \in Seq(Nat) /\ Len(old \o new) = Len(old) + Len(new)
            /\ \A i \in 1 .. Len(old) + Len(new) :
                 (old \o new)[i] = IF i <= Len(old) THEN old[i] ELSE new[i - Len(old)]
        BY <3>2, ConcatProperties
      <4>2. Len(old) + Len(new) = m
        BY <1>1, <1>5, <3>2
      <4> QED
        BY <3>2, <4>1, <4>2
    <3>6. ASSUME NEW i \in 1..m
          PROVE  (old \o new)[i] = i
      <4>1. CASE i <= count
        BY <1>1, <3>3, <3>5, <4>1
      <4>2. CASE ~ (i <= count)
        <5>1. i - count \in 1 .. m - count /\ count + (i - count) = i
          BY <1>1, <1>5, <4>2
        <5> QED
          BY <3>4, <3>5, <4>2, <5>1
      <4> QED
        BY <4>1, <4>2
    <3>7. old \o new = [i \in 1..m |-> (old \o new)[i]]
      <4>1. PICK whole \in Seq(Nat) : whole = old \o new
        BY <3>5
      <4>2. whole = [i \in 1..Len(whole) |-> whole[i]]
        OBVIOUS
      <4> QED
        BY <3>5, <4>1, <4>2
    <3> QED
      BY <3>1, <3>6, <3>7
  <2>9. count' = m /\ count' \in 0..Len(frames') /\ frames' = frames /\ open' = TRUE
    BY <1>5, <1>7, <2>6
  <2>11. /\ End(frames', count') <= arrived' /\ incomplete' = arrived' - End(frames', count')
         /\ count' < Len(frames') => arrived' < End(frames', count' + 1) /\ arrived' # End(frames', count') + 1
    BY <1>7, <2>6, <2>9
  <2>12. m \in 0..m
    BY <1>5
  <2> QED
    BY <1>10, <2>8, <2>9, <2>11, <2>12
<1> QED
  BY <1>4, <1>12, <1>13

\* No frame is longer than one of a full chunk.
LEMMA SizeBounds ==
  ASSUME NEW length \in 1..Chunk
  PROVE  Size(length) <= Size(Chunk) /\ Size(length) \in Nat /\ Size(Chunk) \in Nat
BY FramingAssumption DEF Size, Header

\* The frames that have arrived in full are the first count.
LEMMA FramesIInvDelivers ==
  ASSUME FramesIInv
  PROVE  FramesDelivered
<1> USE DEF FramesIInv
<1>1. /\ Len(frames) \in Nat /\ count \in Nat /\ \A j \in 0..Len(frames) : End(frames, j) \in Nat
      /\ Total \in Nat
  <2>1. Len(frames) \in Nat /\ Len(frames) \in 0..Len(frames)
    OBVIOUS
  <2>2. \A j \in 0..Len(frames) : End(frames, j) \in Nat
    BY EndEquations
  <2> QED
    BY <2>1, <2>2 DEF Total
<1>2. ASSUME open, NEW j \in 1..Len(frames)
      PROVE  End(frames, j) <= arrived <=> j <= count
  <2>0. j \in 0..Len(frames) /\ End(frames, j) \in Nat /\ End(frames, count) \in Nat
    BY <1>1
  <2>1. CASE j < count
    <3>1. End(frames, j) < End(frames, count)
      BY <2>0, <2>1, EndGrows
    <3> QED
      BY <1>1, <1>2, <2>0, <2>1, <3>1
  <2>2. CASE j = count
    BY <1>2, <2>2
  <2>3. CASE j > count
    <3>1. count + 1 \in 0..Len(frames) /\ End(frames, count + 1) \in Nat
      BY <1>1, <2>3
    <3>2. End(frames, count + 1) <= End(frames, j)
      <4>1. CASE count + 1 = j
        BY <3>1, <4>1
      <4>2. CASE count + 1 < j
        BY <2>0, <3>1, <4>2, EndGrows
      <4> QED
        BY <1>1, <2>3, <4>1, <4>2
    <3>3. arrived < End(frames, count + 1)
      BY <1>1, <1>2, <2>3
    <3> QED
      BY <1>1, <2>0, <2>3, <3>1, <3>2, <3>3
  <2> QED
    BY <1>1, <2>1, <2>2, <2>3
<1>3. ASSUME open
      PROVE  Cardinality({j \in 1..Len(frames) : End(frames, j) <= arrived}) = count
  <2>1. {j \in 1..Len(frames) : End(frames, j) <= arrived} = 1..count
    BY <1>1, <1>2, <1>3
  <2>2. Cardinality(1..count) = count
    BY <1>1, FS_Interval
  <2> QED
    BY <2>1, <2>2
<1>8. PICK k \in 0..count : delivered = [i \in 1..k |-> i]
  OBVIOUS
<1>4. CompleteIsDelivered
  <2>1. DOMAIN delivered = 1..k
    BY <1>8
  <2>2. open => Len(delivered) = count
    <3> SUFFICES ASSUME open PROVE Len(delivered) = count
      OBVIOUS
    <3>1. delivered = [i \in 1..count |-> i]
      OBVIOUS
    <3> QED
      BY <1>1, <3>1
  <2> QED
    BY <1>3, <1>8, <2>1, <2>2 DEF CompleteIsDelivered
<1>9. ASSUME open
      PROVE  incomplete \in 0 .. Size(Chunk) - 1
  <2>1. CASE count = Len(frames)
    <3>1. incomplete = 0
      BY <1>1, <1>9, <2>1 DEF Total
    <3> QED
      BY <3>1, FramingAssumption DEF Size, Header
  <2>2. CASE count < Len(frames)
    <3>1. count + 1 \in 1..Len(frames) /\ (count + 1) - 1 = count
      BY <1>1, <2>2
    <3>2. End(frames, count + 1) = End(frames, count) + Size(frames[count + 1])
      BY <3>1, EndEquations
    <3>3. frames[count + 1] \in 1..Chunk
      BY <3>1, ElementOfSeq
    <3>4. End(frames, count) \in Nat
      BY <1>1
    <3>5. incomplete < Size(frames[count + 1]) /\ incomplete \in Nat
      <4>1. frames[count + 1] \in Nat /\ Size(frames[count + 1]) \in Nat
        BY <3>3, FramingAssumption DEF Size, Header
      <4> QED
        BY <1>9, <2>2, <3>2, <3>4, <4>1
    <3>6. Size(frames[count + 1]) <= Size(Chunk) /\ Size(frames[count + 1]) \in Nat /\ Size(Chunk) \in Nat
      <4> HIDE DEF FramesIInv
      <4> QED
        BY <3>3, SizeBounds
    <3> QED
      BY <3>5, <3>6
  <2> QED
    BY <1>1, <2>1, <2>2
<1>5. incomplete \in 0 .. Size(Chunk) - 1
  <2>1. Size(Chunk) \in Nat \ {0}
    BY FramingAssumption DEF Size, Header
  <2> QED
    BY <1>9, <2>1
<1>6. delivered \in Seq(1..Len(frames))
  <2>1. k \in Nat /\ \A i \in 1..k : i \in 1..Len(frames)
    BY <1>1
  <2> QED
    BY <1>8, <2>1
<1>7. FramesTypeOK
  BY <1>1, <1>5, <1>6 DEF FramesTypeOK
<1>10. ClosedByOneByte
  <2>1. open => ~ CutsHeader(arrived)
    <3> SUFFICES ASSUME open PROVE ~ CutsHeader(arrived)
      OBVIOUS
    <3>1. Stream(arrived)
      BY <1>1 DEF Stream
    <3> QED
      BY <3>1, NoLengthCut
  <2> QED
    BY <2>1 DEF ClosedByOneByte
<1> QED
  BY <1>4, <1>7, <1>10 DEF FramesDelivered

\* layerDecrypt hands the frames that have arrived to the HTTP server in order and once, however the
\* stream is cut and whatever is written: all of them while the connection is open, and it is open
\* unless a packet ended between the two bytes of a length.
THEOREM FramesAlwaysDelivered == FramesSpec => []FramesDelivered
<1>1. FramesInit => FramesIInv
  BY FramesInitIInv
<1>2. FramesIInv /\ [FramesNext]_framesVars => FramesIInv'
  <2> SUFFICES ASSUME FramesIInv, [FramesNext]_framesVars PROVE FramesIInv'
    OBVIOUS
  <2>1. ASSUME NEW n \in 1..MaxWrite, Write(n) PROVE FramesIInv'
    BY <2>1, WriteIInv
  <2>2. ASSUME NEW n \in 1 .. Total - arrived, OnTCPSocketBytes(n) PROVE FramesIInv'
    BY <2>2, PacketIInv
  <2>3. CASE UNCHANGED framesVars
    BY <2>3 DEF framesVars, FramesIInv, Total, CutsHeader
  <2> QED
    BY <2>1, <2>2, <2>3 DEF FramesNext
<1>3. FramesIInv => FramesDelivered
  BY FramesIInvDelivers
<1> QED
  BY <1>1, <1>2, <1>3, PTL DEF FramesSpec
=============================================================================
