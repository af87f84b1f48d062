---------------------------- MODULE HAPConnection ----------------------------
(***************************************************************************)
(* One HAPConnection of src/src/lib/util/eventedhttp.ts: the TCP socket of *)
(* a HomeKit controller, the loopback socket to the connection's own HTTP  *)
(* server, the request in progress and the queue of event notifications.   *)
(*                                                                         *)
(* Node runs one callback at a time, so every action is one callback (or   *)
(* one call made by the rest of the program) run to its end; what is       *)
(* interleaved are the callbacks: socket data, socket close, the loopback  *)
(* socket, the coalescing timer, the tear-down timer.                      *)
(*                                                                         *)
(* The controller is well behaved: it has one request outstanding at a     *)
(* time and runs pair-verify once per connection.  Its request is one data *)
(* event; an answer is up to MaxChunks data events of the loopback socket. *)
(***************************************************************************)
EXTENDS Naturals, Sequences, SequencesExt

CONSTANTS Events,      \* event names, "<aid>.<iid>"
          Values,      \* characteristic values
          NoValue,     \* no value of an event was sent since it was registered
          NoEvent,     \* the event of a request that is about no event
          MaxEvents,   \* bound: calls of sendEvent that queue an event
          MaxChunks    \* bound: data events one answer takes on the loopback socket

ASSUME ConnectionAssumption ==
  /\ NoValue \notin Values
  /\ NoEvent \notin Events
  /\ MaxEvents \in Nat
  /\ MaxChunks \in Nat \ {0}

VARIABLES
  state,            \* HAPConnectionState
  tcpSocket,        \* socket to the controller: "open", "destroyed" (close() was called), "closed"
  httpSocket,       \* socket to the internal HTTP server: "connecting", "open", "closed"
  httpServer,       \* internal HTTP server: "open", "closing", "closed"
  request,          \* the controller's outstanding request and how far it got
  midResponse,      \* part of an answer was written to the TCP socket, more is to come
  handlingRequest,
  registeredEvents,
  queuedEvents,
  eventsTimer,      \* the coalescing timer is armed
  eventsQueuedForImmediateDelivery,
  tearDownTimer,    \* the 10ms timer that closes an unpaired connection is armed
  encryption,       \* session keys: "none", "set", "counted" (controllerToAccessoryCount > 0)
  \* What the controller observes:
  secure,           \* it has read the answer that ends pair-verify: it reads encrypted data only
  garbled,          \* something was written in a form it could not read
  seen,             \* the events it processed, in its processing order
  current,          \* last value sendEvent was given for an event since it was registered
  produced          \* number of events queued so far

transport == <<state, tcpSocket, httpSocket, httpServer, tearDownTimer>>
queue     == <<queuedEvents, eventsTimer, eventsQueuedForImmediateDelivery, seen, garbled>>
exchange  == <<request, midResponse, handlingRequest, encryption, secure>>
interest  == <<registeredEvents, current, produced>>
vars      == <<transport, queue, exchange, interest>>

(***************************************************************************)
(* The enumeration HAPConnectionState is ordered; the code compares with   *)
(* AUTHENTICATED (alive or not) and with CLOSING.                          *)
(***************************************************************************)
Alive  == {"CONNECTING", "FULLY_SET_UP", "AUTHENTICATED"}
Closed == {"CLOSING", "CLOSED"}
States == Alive \cup {"TO_BE_TEARED_DOWN"} \cup Closed

Kinds  == {"verify", "subscribe", "unsubscribe", "unpair", "other"}
Stages == {"idle", "buffered", "relayed", "parsed", "answering", "ignored"}
Event  == [event : Events, value : Values]

\* A request names an event exactly if it registers or unregisters one.
NamesEvent(kind, event) == (event = NoEvent) <=> (kind \notin {"subscribe", "unsubscribe"})

Request ==
  {r \in [stage : Stages, kind : Kinds, event : Events \cup {NoEvent}, left : 0..MaxChunks] :
     NamesEvent(r.kind, r.event) /\ (r.left # 0 <=> r.stage = "answering")}

Idle == [stage |-> "idle", kind |-> "other", event |-> NoEvent, left |-> 0]

TransportTypeOK ==
  /\ state \in States
  /\ tcpSocket \in {"open", "destroyed", "closed"}
  /\ httpSocket \in {"connecting", "open", "closed"}
  /\ httpServer \in {"open", "closing", "closed"}
  /\ tearDownTimer \in BOOLEAN

\* seen is left out: no guard reads it, it is a record for the properties below.
QueueTypeOK ==
  /\ queuedEvents \in Seq(Event)
  /\ eventsTimer \in BOOLEAN
  /\ eventsQueuedForImmediateDelivery \in BOOLEAN
  /\ garbled \in BOOLEAN

ExchangeTypeOK ==
  /\ request \in Request
  /\ midResponse \in BOOLEAN
  /\ handlingRequest \in BOOLEAN
  /\ encryption \in {"none", "set", "counted"}
  /\ secure \in BOOLEAN

InterestTypeOK ==
  /\ registeredEvents \subseteq Events
  /\ current \in [Events -> Values \cup {NoValue}]
  /\ produced \in 0..MaxEvents

TypeOK == TransportTypeOK /\ QueueTypeOK /\ ExchangeTypeOK /\ InterestTypeOK

Init ==
  /\ state = "CONNECTING"
  /\ tcpSocket = "open"
  /\ httpSocket = "connecting"
  /\ httpServer = "open"
  /\ request = Idle
  /\ midResponse = FALSE
  /\ handlingRequest = FALSE
  /\ registeredEvents = {}
  /\ queuedEvents = <<>>
  /\ eventsTimer = FALSE
  /\ eventsQueuedForImmediateDelivery = FALSE
  /\ tearDownTimer = FALSE
  /\ encryption = "none"
  /\ secure = FALSE
  /\ garbled = FALSE
  /\ seen = <<>>
  /\ current = [e \in Events |-> NoValue]
  /\ produced = 0

-----------------------------------------------------------------------------
(* Writing to the TCP socket.                                              *)

\* encrypt() encrypts only once encrypted data of the controller was decrypted.
Encrypts == encryption = "counted"

\* A write is readable when it is encrypted exactly if the controller expects it.
Garbles == tcpSocket = "open" /\ Encrypts # secure

\* The events of q that have one of the names, in their order.
EventsNamed(q, names) ==
  LET kept[n \in 0..Len(q)] ==
        IF n = 0 THEN <<>>
        ELSE IF q[n].event \in names THEN Append(kept[n - 1], q[n]) ELSE kept[n - 1]
  IN kept[Len(q)]

\* Events whose name is still registered when they are written.
StillRegistered(q) == EventsNamed(q, registeredEvents)

\* Mutant of WireOrder: the array is not reversed.
WireOrderUnreversed(q) == q

\* writeEventNotification reverses the array; the controller processes a
\* notification from its end.
WireOrder(q)       == Reverse(q)
ControllerOrder(n) == Reverse(n)

\* writeQueuedEventNotifications of a non-empty queue q, outside a request.
WriteQueue(q) ==
  /\ queuedEvents' = <<>>
  /\ eventsTimer' = FALSE
  /\ eventsQueuedForImmediateDelivery' = FALSE
  /\ seen' = IF tcpSocket = "open"
             THEN seen \o ControllerOrder(WireOrder(StillRegistered(q)))
             ELSE seen
  /\ garbled' = (garbled \/ Garbles)

-----------------------------------------------------------------------------
(* Event notifications.                                                    *)

\* Mutant of AlreadyQueued: any queued event of that name and value suppresses the new one.
QueuedAnywhere(e, v) == \E i \in 1..Len(queuedEvents) : queuedEvents[i] = [event |-> e, value |-> v]

\* The last queued event of that name already carries the value.
AlreadyQueued(e, v) ==
  \E i \in 1..Len(queuedEvents) :
    /\ queuedEvents[i] = [event |-> e, value |-> v]
    /\ \A j \in i+1..Len(queuedEvents) : queuedEvents[j].event # e

SendImmediately(e, v) ==
  LET q == Append(queuedEvents, [event |-> e, value |-> v])
  IN /\ IF state \in Alive /\ ~handlingRequest
        THEN WriteQueue(q)
        ELSE /\ queuedEvents' = q
             /\ eventsQueuedForImmediateDelivery' = TRUE
             /\ eventsTimer' = FALSE
             /\ UNCHANGED <<seen, garbled>>
     /\ produced' = produced + 1

SendCoalesced(e, v) ==
  IF AlreadyQueued(e, v)
  THEN UNCHANGED <<queue, produced>>
  ELSE /\ queuedEvents' = Append(queuedEvents, [event |-> e, value |-> v])
       /\ eventsTimer' = TRUE
       /\ produced' = produced + 1
       /\ UNCHANGED <<eventsQueuedForImmediateDelivery, seen, garbled>>

\* sendEvent of a registered event (it returns at once for any other).
SendEvent(e, v) ==
  /\ produced < MaxEvents
  /\ e \in registeredEvents
  /\ SendImmediately(e, v) \/ SendCoalesced(e, v)
  /\ current' = [current EXCEPT ![e] = v]
  /\ UNCHANGED <<transport, exchange, registeredEvents>>

HandleEventsTimeout ==
  /\ eventsTimer
  /\ IF state \in Alive /\ queuedEvents # <<>> /\ ~handlingRequest
     THEN WriteQueue(queuedEvents)
     ELSE /\ eventsTimer' = FALSE
          /\ UNCHANGED <<queuedEvents, eventsQueuedForImmediateDelivery, seen, garbled>>
  /\ UNCHANGED <<transport, exchange, interest>>

-----------------------------------------------------------------------------
(* Closing.                                                                *)

\* close(): nothing to do for a connection that is closing or closed.
CloseEffect ==
  IF state \in Closed
  THEN UNCHANGED <<state, tcpSocket>>
  ELSE /\ state' = "CLOSING"
       /\ tcpSocket' = IF tcpSocket = "closed" THEN "closed" ELSE "destroyed"

\* Called for another connection's unpair, an idle timeout or the server's stop.
Close ==
  /\ state \notin Closed
  /\ CloseEffect
  /\ UNCHANGED <<httpSocket, httpServer, tearDownTimer, queue, exchange, interest>>

\* The socket's close event: the controller left, or close() destroyed it.  The
\* closed event makes the accessory clear the registered events.
OnTCPSocketClose ==
  /\ tcpSocket # "closed"
  /\ tcpSocket' = "closed"
  /\ state' = "CLOSED"
  /\ httpSocket' = "closed"
  /\ httpServer' = IF httpServer = "open" THEN "closing" ELSE httpServer
  /\ registeredEvents' = {}
  /\ UNCHANGED <<tearDownTimer, queue, exchange, current, produced>>

\* The single connection to the internal HTTP server ended (a parse error, say).
OnHttpSocketClose ==
  /\ httpSocket = "open"
  /\ httpSocket' = "closed"
  /\ httpServer' = IF httpServer = "open" THEN "closing" ELSE httpServer
  /\ UNCHANGED <<state, tcpSocket, tearDownTimer, queue, exchange, interest>>

OnHttpServerClose ==
  /\ httpServer = "closing"
  /\ httpServer' = "closed"
  /\ CloseEffect
  /\ UNCHANGED <<httpSocket, tearDownTimer, queue, exchange, interest>>

\* The 10ms timer of a connection that answered the request that unpaired it.
TearDown ==
  /\ tearDownTimer
  /\ tearDownTimer' = FALSE
  /\ CloseEffect
  /\ UNCHANGED <<httpSocket, httpServer, queue, exchange, interest>>

-----------------------------------------------------------------------------
(* Requests and answers.                                                   *)

\* The loopback socket connects: the state is set whatever it was, and data
\* received meanwhile is relayed.
OnHttpSocketConnect ==
  /\ httpSocket = "connecting"
  /\ httpSocket' = "open"
  /\ state' = "FULLY_SET_UP"
  /\ request' = IF request.stage = "buffered"
                THEN [request EXCEPT !.stage = "relayed"]
                ELSE request
  /\ UNCHANGED <<tcpSocket, httpServer, tearDownTimer, queue, midResponse,
                 handlingRequest, encryption, secure, interest>>

\* What a controller may ask next: it verifies an unverified connection, and
\* registers, unregisters or removes its own pairing once it is verified.
MayAsk(kind, event) ==
  /\ NamesEvent(kind, event)
  /\ kind = "verify" => ~secure
  /\ kind \in {"subscribe", "unsubscribe", "unpair"} => secure

\* A request arrives.  It is ignored by a connection that is no longer alive.
OnTCPSocketData(kind, event) ==
  /\ tcpSocket = "open"
  /\ request.stage = "idle"
  /\ MayAsk(kind, event)
  /\ IF state \notin Alive
     THEN /\ request' = [Idle EXCEPT !.stage = "ignored"]
          /\ UNCHANGED <<handlingRequest, encryption>>
     ELSE /\ handlingRequest' = TRUE
          /\ encryption' = IF encryption = "none" THEN "none" ELSE "counted"
          /\ request' = [Idle EXCEPT !.kind = kind, !.event = event,
                           !.stage = IF state = "CONNECTING" THEN "buffered" ELSE "relayed"]
  /\ UNCHANGED <<transport, queue, midResponse, secure, interest>>

\* Data that cannot be decrypted closes the connection; handlingRequest stays set.
OnTCPSocketDataUndecryptable ==
  /\ tcpSocket = "open"
  /\ state \in Alive
  /\ encryption # "none"
  /\ handlingRequest' = TRUE
  /\ CloseEffect
  /\ UNCHANGED <<httpSocket, httpServer, tearDownTimer, queue, request, midResponse,
                 encryption, secure, interest>>

\* The internal HTTP server parsed the head of the request.
HandleHttpServerRequest ==
  /\ request.stage = "relayed"
  /\ request' = [request EXCEPT !.stage = IF state \in Alive THEN "parsed" ELSE "ignored"]
  /\ UNCHANGED <<transport, queue, midResponse, handlingRequest, encryption, secure, interest>>

\* The request is complete: its route handler runs.  A verified controller is
\* authenticated whatever the state has become since the head was parsed.
RouteHandler(chunks) ==
  /\ request.stage = "parsed"
  /\ request' = [stage |-> "answering", kind |-> request.kind, event |-> request.event,
                 left |-> chunks]
  /\ LET authenticated == state = "AUTHENTICATED"
     IN /\ state' = CASE request.kind = "verify" -> "AUTHENTICATED"
                      [] request.kind = "unpair" /\ authenticated -> "TO_BE_TEARED_DOWN"
                      [] OTHER -> state
        /\ encryption' = IF request.kind = "verify" THEN "set" ELSE encryption
        /\ registeredEvents' =
             CASE request.kind = "subscribe" /\ authenticated -> registeredEvents \cup {request.event}
               [] request.kind = "unsubscribe" /\ authenticated -> registeredEvents \ {request.event}
               [] OTHER -> registeredEvents
        /\ current' = IF registeredEvents' = registeredEvents
                      THEN current
                      ELSE [current EXCEPT ![request.event] = NoValue]
  /\ UNCHANGED <<tcpSocket, httpSocket, httpServer, tearDownTimer, queue, midResponse,
                 handlingRequest, secure, produced>>

\* Mutants of FlushDue: events left to a request by the timer, or immediate events that a
\* coalescing timer joined, are not looked at.
FlushDueImmediate  == state \in Alive /\ eventsQueuedForImmediateDelivery /\ queuedEvents # <<>>
FlushDueUntimed    == state \in Alive /\ ~eventsTimer /\ queuedEvents # <<>>

\* What the queue holds is written after an answer unless the coalescing timer will do it.
FlushDue ==
  /\ state \in Alive
  /\ ~eventsTimer \/ eventsQueuedForImmediateDelivery
  /\ queuedEvents # <<>>

\* Mutant of TearDownDue: nobody closes the connection after the answer.
TearDownForgotten == tearDownTimer

TearDownDue == tearDownTimer \/ state = "TO_BE_TEARED_DOWN"

\* Data of the answer comes back from the internal HTTP server and is written out.
HandleHttpServerResponse ==
  /\ request.stage = "answering"
  /\ httpSocket = "open"
  /\ LET last == request.left = 1
     IN /\ request' = IF last THEN Idle ELSE [request EXCEPT !.left = request.left - 1]
        /\ midResponse' = ~last
        /\ secure' = (secure \/ (last /\ request.kind = "verify"))
  /\ handlingRequest' = FALSE
  /\ tearDownTimer' = TearDownDue
  /\ IF FlushDue
     THEN WriteQueue(queuedEvents)
     ELSE /\ garbled' = (garbled \/ Garbles)
          /\ UNCHANGED <<queuedEvents, eventsTimer, eventsQueuedForImmediateDelivery, seen>>
  /\ UNCHANGED <<state, tcpSocket, httpSocket, httpServer, encryption, interest>>

-----------------------------------------------------------------------------
Receive ==
  \/ \E kind \in Kinds, event \in Events \cup {NoEvent} : OnTCPSocketData(kind, event)
  \/ OnTCPSocketDataUndecryptable

Relay ==
  \/ OnHttpSocketConnect
  \/ HandleHttpServerRequest
  \/ \E chunks \in 1..MaxChunks : RouteHandler(chunks)
  \/ HandleHttpServerResponse

Disconnect ==
  \/ Close
  \/ OnTCPSocketClose
  \/ OnHttpSocketClose
  \/ OnHttpServerClose
  \/ TearDown

Notify ==
  \/ \E e \in Events, v \in Values : SendEvent(e, v)
  \/ HandleEventsTimeout

Next == Receive \/ Relay \/ Disconnect \/ Notify

Spec == Init /\ [][Next]_vars

(***************************************************************************)
(* Timers fire, sockets deliver what was written to them and report their  *)
(* end, and every route handler answers.  The controller, the rest of the  *)
(* program and the network promise nothing.                                *)
(***************************************************************************)
Fairness ==
  /\ WF_vars(Relay)
  /\ WF_vars(HandleEventsTimeout)
  /\ WF_vars(TearDown)
  /\ WF_vars(OnHttpServerClose)
  /\ WF_vars(tcpSocket = "destroyed" /\ OnTCPSocketClose)

FairSpec == Spec /\ Fairness

-----------------------------------------------------------------------------
(* Properties.                                                             *)

\* A queued event of a connection that can still be written to is always on its way: the
\* coalescing timer is armed, or an answer is due after which the queue is looked at again.
\* (sendEvent, handleEventsTimeout and handleHttpServerResponse share this duty.)
NoStrandedEvent ==
  queuedEvents # <<>> /\ state \in Alive /\ tcpSocket = "open"
    => eventsTimer \/ handlingRequest

\* What a controller has processed last of an event is what the accessory last reported of it,
\* once nothing is queued for it: coalescing, suppression of duplicates, delivery at once and the
\* reversed wire order of writeEventNotification never leave it with an older value.
ControllerConverges ==
  \A e \in registeredEvents :
    /\ tcpSocket = "open"
    /\ current[e] # NoValue
    /\ \A i \in 1..Len(queuedEvents) : queuedEvents[i].event # e
    => \E i \in 1..Len(seen) :
         /\ seen[i] = [event |-> e, value |-> current[e]]
         /\ \A j \in i+1..Len(seen) : seen[j].event # e

\* The controller can read all that is written: the answer that ends pair-verify is still plain,
\* though the keys are set by then, and everything after it is encrypted (encrypt).
ReadableByController == ~garbled

\* An immediate event is kept in the queue only while an answer is being composed.
ImmediateWaitsForAnswerOnly ==
  eventsQueuedForImmediateDelivery /\ state \in Alive /\ tcpSocket = "open" => handlingRequest

\* "Events are sent by simply waiting for current HTTP traffic to subside": a notification is
\* never written between two parts of an answer.
EventsBetweenAnswers == [][seen' # seen => ~midResponse']_vars

\* A connection that is closing or closed is never alive again ("below states are considered
\* closed or soon closed").
ClosedIsFinal == [][(state \in Closed) => (state' \in Closed)]_vars

\* Once the accessory stops reporting values, what is queued is written, unless the connection
\* goes down: the bound MaxEvents makes every behaviour stop reporting.
EventuallyDelivered ==
  queuedEvents # <<>> ~> (queuedEvents = <<>> \/ state \notin Alive)

\* A connection that unpaired itself, or whose close() was called, ends up closed.
TornDownIsClosed == state = "TO_BE_TEARED_DOWN" \/ tcpSocket = "destroyed" ~> state = "CLOSED"

\* What a controller can read and has read of its events is what the accessory last reported: the
\* queue, its two ways of flushing and the change to encryption leave it with no older value.
ConnectionFaithful == TypeOK /\ ControllerConverges /\ ReadableByController

Channel == INSTANCE EventChannel WITH
  up         <- tcpSocket = "open",
  subscribed <- registeredEvents,
  latest     <- current,
  owed       <- queuedEvents,
  told       <- seen

\* A HAPConnection is an event channel: coalescing, the suppression of repeated values, delivery
\* at once, the filter on unregistered events and the reversal of writeEventNotification neither
\* lose, reorder nor repeat an event (sendEvent to writeEventNotification).
ImplementsEventChannel == Channel!Spec

\* Queued events are delivered and a connection that must close is closed, under Fairness.
DeliversAndCloses == EventuallyDelivered /\ TornDownIsClosed
=============================================================================
