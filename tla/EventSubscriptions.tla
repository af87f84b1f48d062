-------------------------- MODULE EventSubscriptions --------------------------
(***************************************************************************)
(* Who is subscribed to the events of a characteristic is kept twice: each *)
(* HAPConnection has a set registeredEvents of "aid.iid" names, and each   *)
(* Characteristic has a counter of subscriptions, whose first and last     *)
(* step are told to the plugin (SUBSCRIBE, UNSUBSCRIBE), so that a plugin  *)
(* polls a device only while somebody listens.  The two are changed by ev  *)
(* writes, by the CLOSED event of a connection, which travels connection   *)
(* -> EventedHTTPServer -> HAPServer -> Accessory, and they drift apart    *)
(* when that event finds the characteristic removed, or nobody listening.  *)
(*                                                                         *)
(* A removed characteristic may be added again as the same object (its     *)
(* counter survives).  Replacing it by a new object is not modelled.       *)
(***************************************************************************)
EXTENDS Integers, FiniteSets

CONSTANTS
  Conns,            \* connections; each is opened at most once
  Chars,            \* characteristics that allow notifications
  MayRemove,        \* may services and bridged accessories be removed and added?
  MayUnpublish      \* may the accessory be unpublished and published again?

ASSUME SubscriptionsAssumption ==
  /\ IsFiniteSet(Conns)
  /\ MayRemove \in BOOLEAN
  /\ MayUnpublish \in BOOLEAN

VARIABLES
  server,           \* is _server set: is the accessory published?
  conn,             \* state of each connection
  heard,            \* does the accessory still listen to the connection's server?
  registered,       \* HAPConnection.registeredEvents
  present,          \* the characteristics findCharacteristic() finds
  subscriptions,    \* Characteristic.subscriptions
  pluginTold              \* was SUBSCRIBE (rather than UNSUBSCRIBE) emitted last?

subscriptionVars == <<server, conn, heard, registered, present, subscriptions, pluginTold>>

SubscriptionsInit ==
  /\ server = TRUE
  /\ conn = [c \in Conns |-> "new"]
  /\ heard = [c \in Conns |-> FALSE]
  /\ registered = [c \in Conns |-> {}]
  /\ present = Chars
  /\ subscriptions = [x \in Chars |-> 0]
  /\ pluginTold = [x \in Chars |-> FALSE]

-----------------------------------------------------------------------------
(* The counter of a characteristic. *)

\* Math.max(subscriptions - 1, 0)
Less(n) == IF n = 0 THEN 0 ELSE n - 1

\* subscribe() on every characteristic of X.
Subscribe(X) ==
  /\ subscriptions' = [x \in Chars |-> subscriptions[x] + (IF x \in X THEN 1 ELSE 0)]
  /\ pluginTold' = [x \in Chars |-> pluginTold[x] \/ (x \in X /\ subscriptions[x] = 0)]

\* unsubscribe() on every characteristic of X.
Unsubscribe(X) ==
  /\ subscriptions' = [x \in Chars |-> IF x \in X THEN Less(subscriptions[x]) ELSE subscriptions[x]]
  /\ pluginTold' = [x \in Chars |-> pluginTold[x] /\ ~(x \in X /\ subscriptions[x] = 1)]

-----------------------------------------------------------------------------
(* Connections. *)

EnableEventNotifications(c, x)  == registered' = [registered EXCEPT ![c] = @ \cup {x}]
DisableEventNotifications(c, x) == registered' = [registered EXCEPT ![c] = @ \ {x}]
ClearRegisteredEvents(c)        == registered' = [registered EXCEPT ![c] = {}]

\* A controller connects and its pair-verify succeeds.
Connect(c) ==
  /\ server
  /\ conn[c] = "new"
  /\ conn' = [conn EXCEPT ![c] = "open"]
  /\ heard' = [heard EXCEPT ![c] = TRUE]
  /\ UNCHANGED <<server, registered, present, subscriptions, pluginTold>>

\* A write with ev: true.  A characteristic that is not found, or a name that
\* is registered already, changes nothing.
EnableEvents(c, x) ==
  /\ conn[c] = "open"
  /\ x \in present \ registered[c]
  /\ EnableEventNotifications(c, x)
  /\ Subscribe({x})
  /\ UNCHANGED <<server, conn, heard, present>>

\* Mutant: the name need not be registered.
DisableUnchecked(c, x) ==
  /\ conn[c] = "open"
  /\ x \in present
  /\ Unsubscribe({x})
  /\ registered' = [registered EXCEPT ![c] = @ \ {x}]
  /\ UNCHANGED <<server, conn, heard, present>>

\* A write with ev: false.
DisableEvents(c, x) ==
  /\ conn[c] = "open"
  /\ x \in present \cap registered[c]
  /\ Unsubscribe({x})
  /\ DisableEventNotifications(c, x)
  /\ UNCHANGED <<server, conn, heard, present>>

\* The accessory closes the connection: its socket is destroyed, and requests
\* are no longer taken.  The CLOSED event follows with the socket's.
Close(c) ==
  /\ conn[c] = "open"
  /\ conn' = [conn EXCEPT ![c] = "closing"]
  /\ UNCHANGED <<server, heard, registered, present, subscriptions, pluginTold>>

\* The characteristics whose counter a closing connection is taken off.
FoundAtClose(c) == registered[c] \cap present

\* The CLOSED event of a connection, closed by either side.  Only the HAPServer
\* the accessory still listens to hands it on.
ConnectionClosed(c) ==
  /\ conn[c] \in {"open", "closing"}
  /\ conn' = [conn EXCEPT ![c] = "closed"]
  /\ IF heard[c]
     THEN /\ Unsubscribe(FoundAtClose(c))
          /\ ClearRegisteredEvents(c)
     ELSE UNCHANGED <<registered, subscriptions, pluginTold>>
  /\ UNCHANGED <<server, heard, present>>

-----------------------------------------------------------------------------
(* The accessory. *)

\* removeService(), removeBridgedAccessory()
RemoveCharacteristic(x) ==
  /\ MayRemove
  /\ x \in present
  /\ present' = present \ {x}
  /\ UNCHANGED <<server, conn, heard, registered, subscriptions, pluginTold>>

\* addService(), addBridgedAccessory() of the same object
AddCharacteristic(x) ==
  /\ x \in Chars \ present
  /\ present' = present \cup {x}
  /\ UNCHANGED <<server, conn, heard, registered, subscriptions, pluginTold>>

\* stop() of the HTTP server, on the connections.
Stop == conn' = [c \in Conns |-> IF conn[c] = "open" THEN "closing" ELSE conn[c]]

\* unpublish(): the HAPServer closes its connections and drops its listeners.
Unpublish ==
  /\ MayUnpublish
  /\ server
  /\ server' = FALSE
  /\ Stop
  /\ heard' = [c \in Conns |-> FALSE]
  /\ UNCHANGED <<registered, present, subscriptions, pluginTold>>

\* publish() again, with a HAPServer of its own
Publish ==
  /\ ~server
  /\ server' = TRUE
  /\ UNCHANGED <<conn, heard, registered, present, subscriptions, pluginTold>>

SubscriptionsNext ==
  \/ \E c \in Conns :
       \/ Connect(c)
       \/ Close(c)
       \/ ConnectionClosed(c)
       \/ \E x \in Chars : EnableEvents(c, x) \/ DisableEvents(c, x)
  \/ \E x \in Chars : RemoveCharacteristic(x) \/ AddCharacteristic(x)
  \/ Unpublish
  \/ Publish

SubscriptionsSpec == SubscriptionsInit /\ [][SubscriptionsNext]_subscriptionVars

-----------------------------------------------------------------------------
\* A connection that is still there, registered for x.
Subscribers(x) == {c \in Conns : conn[c] \in {"open", "closing"} /\ x \in registered[c]}

\* Types.  A connection adds at most one to a counter it never takes it off,
\* so a counter never exceeds the number of connections there were.
SubscriptionsTypeOK ==
  /\ server \in BOOLEAN
  /\ conn \in [Conns -> {"new", "open", "closing", "closed"}]
  /\ heard \in [Conns -> BOOLEAN]
  /\ registered \in [Conns -> SUBSET Chars]
  /\ present \in SUBSET Chars
  /\ subscriptions \in [Chars -> 0 .. Cardinality(Conns)]
  /\ pluginTold \in [Chars -> BOOLEAN]

\* While somebody is subscribed to a characteristic, the plugin was last told
\* so and is not told that the last subscriber left, however removals,
\* disconnects and unpublishing interleave (subscribe, unsubscribe).
PluginTold == \A x \in Chars : Subscribers(x) # {} => pluginTold[x]

\* Those whose CLOSED event will still reach the accessory.
HeardSubscribers(x) == {c \in Subscribers(x) : heard[c]}

\* The counter of a characteristic that stays found follows the connections that are registered
\* for it up and down, whatever happened before, as long as the accessory stays published: ev
\* writes of several controllers and the CLOSED events of those that went count each once.
CountFollows ==
  [][server' = server =>
       \A x \in present \cap present' :
         subscriptions'[x] - subscriptions[x]
           = Cardinality(HeardSubscribers(x)') - Cardinality(HeardSubscribers(x))]_subscriptionVars

\* A counter above zero has a subscriber: the plugin is told when the last one
\* disconnects (unsubscribe: "or a HomeKit controller which was subscribed to
\* this characteristic disconnects").
NoSubscriberLeft == \A x \in Chars : subscriptions[x] > 0 => Subscribers(x) # {}

\* The plugin knows whether anybody listens, and the counter it is told from follows the
\* registrations of the connections.
SubscriptionsFollowed == [](SubscriptionsTypeOK /\ PluginTold) /\ CountFollows
=============================================================================
