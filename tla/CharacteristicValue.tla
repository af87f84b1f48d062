--------------------------- MODULE CharacteristicValue ---------------------------
(***************************************************************************)
(* One characteristic and the controllers that registered for its events:  *)
(* Characteristic.setValue, updateValue, sendEventNotification,            *)
(* handleGetRequest and handleSetRequest, the change events they emit, the *)
(* accessory's decision which of them become event notifications, and the  *)
(* queue of each connection.                                               *)
(*                                                                         *)
(* An onGet or onSet handler is awaited, and an on('get') or on('set')     *)
(* listener may call back later: everything else runs meanwhile.  Only     *)
(* without a handler, or with a listener that calls back at once, nothing  *)
(* does.  How a connection's queue is flushed is the subject of            *)
(* HAPConnection: here all of it is delivered at some moment when the      *)
(* connection handles no request.  The characteristic has no write         *)
(* responses (these store a value without a change event).                 *)
(***************************************************************************)
EXTENDS Naturals, FiniteSets, Sequences, SequencesExt

CONSTANTS
  Values, InitialValue,
  Listeners,      \* controllers that only listen
  Requesters,     \* controllers that also read and write
  Accessory,      \* the plugin, which may call setValue
  SetHandler,     \* "sync" (none, or one that calls back at once), "async"
  GetHandler,     \* "none", "sync" (one that calls back at once), "async"
  MaxRequests,    \* bound: reads, writes and calls of setValue
  MaxUpdates      \* bound: calls of updateValue and sendEventNotification

ASSUME ValueAssumption ==
  /\ InitialValue \in Values
  /\ Listeners \cap Requesters = {}
  /\ Accessory \notin Listeners \cup Requesters
  /\ SetHandler \in {"sync", "async"}
  /\ GetHandler \in {"none", "sync", "async"}
  /\ MaxRequests \in Nat /\ MaxUpdates \in Nat

VARIABLES
  value, statusCode,   \* of the characteristic
  request,             \* the requests so far
  started,             \* their number
  updates,             \* number of updates so far
  queued,              \* connection -> queuedEvents
  known,               \* controller -> the value it shows
  told,                \* controller -> the events it got so far, the initial value first
  changes              \* history: every value the characteristic took

characteristic == <<value, statusCode, changes>>
controllers    == <<queued, known, told>>
requests       == <<request, started>>
vars           == <<characteristic, controllers, requests, updates>>

Controllers == Listeners \cup Requesters
Ids == 1..MaxRequests
Failed == "failed"

\* value: what is written, or what a read returns; old: oldValue of the closure of a write.
\* A setValue has no answer that could be due, or late.
Request ==
  {r \in [by: Controllers \cup {Accessory}, kind: {"read", "write"}, value: Values \cup {Failed},
          old: Values, stage: {"handling", "late", "handled", "over"}] :
     r.by = Accessory => r.kind = "write" /\ r.stage \in {"handling", "over"}}

TypeOK ==
  /\ value \in Values
  /\ statusCode \in {"SUCCESS", "error"}
  /\ started \in 0..MaxRequests
  /\ request \in [1..started -> Request]
  /\ updates \in 0..MaxUpdates
  /\ queued \in [Controllers -> Seq(Values)]
  /\ known \in [Controllers -> Values]
  /\ told \in [Controllers -> Seq(Values)]
  /\ changes \in Seq(Values)

Init ==
  /\ value = InitialValue
  /\ statusCode = "SUCCESS"
  /\ started = 0
  /\ request = <<>>
  /\ updates = 0
  /\ queued = [c \in Controllers |-> <<>>]
  /\ known = [c \in Controllers |-> InitialValue]
  /\ told = [c \in Controllers |-> <<InitialValue>>]
  /\ changes = <<InitialValue>>

-----------------------------------------------------------------------------
(* Change events and their notifications.                                  *)

\* sendEvent: the same event is not queued twice in a row, a different one is never replaced.
Queue(events, v) == IF events # <<>> /\ Last(events) = v THEN events ELSE Append(events, v)

\* Every connection gets the event but that of the controller whose request it was.
BroadcastEvent(v, originator) ==
  queued' = [c \in Controllers |-> IF c = originator THEN queued[c] ELSE Queue(queued[c], v)]

\* The change event and what becomes of it: no notification when nothing changed, unless forced.
Change(old, new, originator, forced) ==
  IF forced \/ old # new THEN BroadcastEvent(new, originator) ELSE UNCHANGED queued

Store(v) ==
  /\ value' = v
  /\ statusCode' = "SUCCESS"
  /\ changes' = IF v = value THEN changes ELSE Append(changes, v)

-----------------------------------------------------------------------------
(* The accessory's side.                                                   *)

\* No other JavaScript runs between the call of a synchronous handler and what follows it; a handler
\* that itself gives the characteristic a value before it calls back is an "async" one.
Handler(kind) == IF kind = "read" THEN GetHandler ELSE SetHandler
Runs(r) == request[r].stage = "handling" /\ Handler(request[r].kind) # "async"
NothingRuns == \A r \in 1..started : ~Runs(r)

Counted == NothingRuns /\ updates < MaxUpdates /\ updates' = updates + 1

UpdateValue(v) ==
  /\ Counted
  /\ Store(v)
  /\ Change(value, v, Accessory, FALSE)
  /\ UNCHANGED <<known, told, requests>>

SendEventNotification(v) ==
  /\ Counted
  /\ Store(v)
  /\ Change(value, v, Accessory, TRUE)
  /\ UNCHANGED <<known, told, requests>>

\* updateValue or setValue with an error: never pushed to a controller.
UpdateError ==
  /\ Counted
  /\ statusCode' = "error"
  /\ UNCHANGED <<value, changes, controllers, requests>>

-----------------------------------------------------------------------------
(* Requests.                                                               *)

Answering(c) == \E r \in 1..started : request[r].by = c /\ request[r].stage \in {"handling", "handled"}

Begin(by, kind, v, stage) ==
  /\ NothingRuns
  /\ by = Accessory \/ ~Answering(by)
  /\ started < MaxRequests
  /\ started' = started + 1
  /\ request' = Append(request, [by |-> by, kind |-> kind, value |-> v, old |-> value, stage |-> stage])
  /\ UNCHANGED <<value, changes, controllers, updates>>

\* handleSetRequest up to its handler; called by setValue as well.
Write(by, v) ==
  /\ Begin(by, "write", v, "handling")
  /\ statusCode' = "SUCCESS"

\* handleSetRequest of a value the characteristic does not take.
WriteInvalid(c) ==
  /\ Begin(c, "write", Failed, "handled")
  /\ statusCode' = "SUCCESS"

\* handleGetRequest without a handler answers with the value, or with the error that was set.
Read(c) ==
  /\ IF GetHandler = "none"
     THEN Begin(c, "read", IF statusCode = "error" THEN Failed ELSE value, "handled")
     ELSE Begin(c, "read", value, "handling")
  /\ UNCHANGED statusCode

\* After the handler: late for a request that was answered, or over for one of setValue.
Handled(r) == IF request[r].stage = "handling" /\ request[r].by # Accessory THEN "handled" ELSE "over"

\* Mutant of OldValue: a read too compares with the value from before its handler was called.
OldValueAtStart(q) == q.old

\* A write compares with the value from before its handler was called, a read with the one after.
OldValue(q) == IF q.kind = "write" THEN q.old ELSE value

\* The handler is done: a write stores what was written, a read what the handler returned.
Succeed(r, v) ==
  /\ request[r].stage \in {"handling", "late"}
  /\ Runs(r) \/ NothingRuns
  /\ request[r].kind = "write" => v = request[r].value
  /\ Store(v)
  /\ Change(OldValue(request[r]), v, request[r].by, FALSE)
  /\ request' = [request EXCEPT ![r].value = v, ![r].stage = Handled(r)]
  /\ UNCHANGED <<known, told, started, updates>>

Fail(r) ==
  /\ request[r].stage \in {"handling", "late"}
  /\ Runs(r) \/ NothingRuns
  /\ statusCode' = "error"
  /\ request' = [request EXCEPT ![r].value = Failed, ![r].stage = Handled(r)]
  /\ UNCHANGED <<value, changes, controllers, started, updates>>

\* The request's timers: the controller is told that the operation timed out.
TimeOut(r) ==
  /\ NothingRuns
  /\ request[r].stage = "handling"
  /\ request[r].by # Accessory
  /\ request' = [request EXCEPT ![r].stage = "late"]
  /\ UNCHANGED <<characteristic, controllers, started, updates>>

\* The answer goes out, possibly later than this characteristic is done: others were asked for too.
Answer(r) ==
  /\ NothingRuns
  /\ request[r].stage = "handled"
  /\ request' = [request EXCEPT ![r].stage = "over"]
  /\ known' = IF request[r].value = Failed THEN known
              ELSE [known EXCEPT ![request[r].by] = request[r].value]
  /\ UNCHANGED <<characteristic, queued, told, started, updates>>

\* The connection of c flushes its queue.
Deliver(c) ==
  /\ NothingRuns
  /\ ~Answering(c)
  /\ queued[c] # <<>>
  /\ queued' = [queued EXCEPT ![c] = <<>>]
  /\ known' = [known EXCEPT ![c] = Last(queued[c])]
  /\ told' = [told EXCEPT ![c] = @ \o queued[c]]
  /\ UNCHANGED <<characteristic, requests, updates>>

Next ==
  \/ \E v \in Values : UpdateValue(v) \/ SendEventNotification(v)
  \/ UpdateError
  \/ \E by \in Requesters \cup {Accessory}, v \in Values : Write(by, v)
  \/ \E c \in Requesters : Read(c) \/ WriteInvalid(c)
  \/ \E r \in 1..started :
       \/ \E v \in Values : Succeed(r, v)
       \/ Fail(r)
       \/ TimeOut(r)
       \/ Answer(r)
  \/ \E c \in Controllers : Deliver(c)

Spec == Init /\ [][Next]_vars

-----------------------------------------------------------------------------
(* Properties.                                                             *)

\* What a controller was told and is about to be told ends with the characteristic's value.
UpToDate(c) == value = IF queued[c] = <<>> THEN known[c] ELSE Last(queued[c])

\* "If the value changed, an event notification will be sent to all connected HomeKit controllers
\* which are registered": holds for synchronous set handlers, not for awaited ones.
ListenersUpToDate == \A c \in Listeners : UpToDate(c)

\* Events are "processed in chronological order", also with respect to the controller's own
\* writes: a controller with no request in progress shows the value, or is about to.
RequestersUpToDate == \A c \in Requesters : ~Answering(c) => UpToDate(c)

\* The place of s[i] in s without the repetitions.
Place(s, i) == Cardinality({j \in 1..i : j > 1 => s[j - 1] # s[j]})

\* t is s without the repetitions.
WithoutRepeats(s, t) ==
  /\ Len(t) = Place(s, Len(s))
  /\ \A i \in 1..Len(s) : s[i] = t[Place(s, i)]

\* "Automations must be executed!": a listener gets every value the characteristic took, in order
\* (a repeated one only when it was forced), however events are coalesced.
EveryChangeTold == \A c \in Listeners : WithoutRepeats(told[c] \o queued[c], changes)

\* A listener gets every value a characteristic takes, in order, and ends with the current one.
ValuesReachListeners == TypeOK /\ ListenersUpToDate /\ EveryChangeTold
=============================================================================
