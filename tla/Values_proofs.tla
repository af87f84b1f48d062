------------------------------- MODULE Values_proofs -------------------------------
(***************************************************************************)
(* Proofs about the values of a characteristic and those who listen.       *)
(* EventSubscriptions, for any finite number of connections and any        *)
(* characteristics: the counter of a characteristic follows those who are  *)
(* registered for it, and the plugin knows whether anybody is.             *)
(* CharacteristicValue, for any controllers and values: a listener gets    *)
(* every value the characteristic takes.  CharacteristicProps, for any     *)
(* declarations a plugin may make: what is served is within them.          *)
(***************************************************************************)
EXTENDS CharacteristicValue, EventSubscriptions, CharacteristicProps, FiniteSetTheorems, SequenceTheorems, TLAPS

(***************************************************************************)
(* The inductive invariant.  The counter and the registrations drift apart *)
(* when a characteristic is removed or the accessory is unpublished, but   *)
(* only to one side: it lies between those that are registered and still   *)
(* there, and those that ever were and may be counted for ever.            *)
(***************************************************************************)

\* Those that can be on the counter of x: registered for it, or gone.
EverCounted(x) == {c \in Conns : x \in registered[c] \/ conn[c] = "closed"}

\* The accessory listens to open connections, and one that is new has no registrations.
OpenIsHeard ==
  \A c \in Conns :
    /\ conn[c] = "open" => heard[c]
    /\ conn[c] = "new" => registered[c] = {}

CountedBetween ==
  \A x \in Chars :
    /\ Cardinality(Subscribers(x)) <= subscriptions[x]
    /\ subscriptions[x] <= Cardinality(EverCounted(x))
    /\ pluginTold[x] <=> subscriptions[x] > 0

SubscriptionTypes ==
  /\ server \in BOOLEAN
  /\ conn \in [Conns -> {"new", "open", "closing", "closed"}]
  /\ heard \in [Conns -> BOOLEAN]
  /\ registered \in [Conns -> SUBSET Chars]
  /\ present \in SUBSET Chars
  /\ subscriptions \in [Chars -> Nat]
  /\ pluginTold \in [Chars -> BOOLEAN]

SubscriptionsIInv ==
  /\ SubscriptionTypes
  /\ OpenIsHeard
  /\ CountedBetween

\* The sets that are counted are finite, and a counter is at most the number of connections.
LEMMA CountedFinite ==
  ASSUME NEW S \in SUBSET Conns
  PROVE  IsFiniteSet(S) /\ Cardinality(S) \in Nat /\ Cardinality(S) <= Cardinality(Conns)
         /\ Cardinality(Conns) \in Nat
BY SubscriptionsAssumption, FS_Subset, FS_CardinalityType

\* One connection more, or one less.
LEMMA OneMoreOrLess ==
  ASSUME NEW S \in SUBSET Conns, NEW c \in Conns
  PROVE  /\ c \notin S => Cardinality(S \cup {c}) = Cardinality(S) + 1
         /\ c \in S => Cardinality(S \ {c}) = Cardinality(S) - 1
BY CountedFinite, FS_AddElement, FS_RemoveElement

\* Where one set of connections lies in another it counts no more.
LEMMA CountsNoMore ==
  ASSUME NEW S \in SUBSET Conns, NEW T \in SUBSET S
  PROVE  Cardinality(T) <= Cardinality(S)
BY CountedFinite, FS_Subset

\* unsubscribe() takes one off a counter, never below zero.
LEMMA LessIsLess ==
  ASSUME NEW n \in Nat
  PROVE  /\ Less(n) \in Nat /\ Less(n) <= n
         /\ n > 0 => Less(n) = n - 1
         /\ Less(n) > 0 <=> n > 1
BY DEF Less


\* What CountFollows says of one step.
CountStep ==
  server' = server =>
    \A x \in present \cap present' :
      subscriptions'[x] - subscriptions[x]
        = Cardinality(HeardSubscribers(x)') - Cardinality(HeardSubscribers(x))

\* The sets of connections that are compared with a counter.
LEMMA CountedSets ==
  \A x : /\ Subscribers(x) \in SUBSET Conns /\ HeardSubscribers(x) \in SUBSET Subscribers(x)
         /\ EverCounted(x) \in SUBSET Conns
BY DEF Subscribers, HeardSubscribers, EverCounted

\* Steps that change no counter and nobody's registrations.
LEMMA UncountedPreserves ==
  ASSUME SubscriptionsIInv, UNCHANGED <<registered, subscriptions, pluginTold>>,
         server' \in BOOLEAN, heard' \in [Conns -> BOOLEAN], present' \in SUBSET Chars,
         conn' \in [Conns -> {"new", "open", "closing", "closed"}],
         OpenIsHeard',
         \A c \in Conns : /\ conn'[c] \in {"open", "closing"} =>
                               conn[c] \in {"open", "closing"} \/ registered[c] = {}
                          /\ conn[c] = "closed" => conn'[c] = "closed"
  PROVE  SubscriptionsIInv'
<1>1. SubscriptionTypes'
  BY DEF SubscriptionsIInv, SubscriptionTypes
<1>2. ASSUME NEW x \in Chars
      PROVE  Subscribers(x)' \in SUBSET Subscribers(x) /\ EverCounted(x) \in SUBSET EverCounted(x)'
  BY DEF Subscribers, EverCounted
<1>3. ASSUME NEW x \in Chars
      PROVE  /\ Cardinality(Subscribers(x)') <= subscriptions[x]
             /\ subscriptions[x] <= Cardinality(EverCounted(x)')
  <2>1. EverCounted(x)' \in SUBSET Conns
    BY DEF EverCounted
  <2>2. /\ Cardinality(Subscribers(x)') <= Cardinality(Subscribers(x))
        /\ Cardinality(EverCounted(x)) <= Cardinality(EverCounted(x)')
    BY <1>2, <2>1, CountedSets, CountsNoMore
  <2>3. /\ Cardinality(Subscribers(x)') \in Nat /\ Cardinality(Subscribers(x)) \in Nat
        /\ Cardinality(EverCounted(x)) \in Nat /\ Cardinality(EverCounted(x)') \in Nat
    BY <1>2, <2>1, CountedSets, CountedFinite
  <2>4. /\ Cardinality(Subscribers(x)) <= subscriptions[x]
        /\ subscriptions[x] <= Cardinality(EverCounted(x)) /\ subscriptions[x] \in Nat
    BY DEF SubscriptionsIInv, SubscriptionTypes, CountedBetween
  <2> QED BY <2>2, <2>3, <2>4
<1>4. CountedBetween'
  BY <1>3 DEF SubscriptionsIInv, CountedBetween
<1> QED BY <1>1, <1>4 DEF SubscriptionsIInv

\* Connections and the accessory, but for the end of a connection.
LEMMA ConnectionStep ==
  ASSUME SubscriptionsIInv,
         \/ \E c \in Conns : Connect(c) \/ Close(c)
         \/ \E x \in Chars : RemoveCharacteristic(x) \/ AddCharacteristic(x)
         \/ Unpublish \/ Publish
  PROVE  SubscriptionsIInv' /\ CountStep
<1>0. SubscriptionTypes /\ OpenIsHeard
  BY DEF SubscriptionsIInv
<1>1. CASE \E c \in Conns : Connect(c) \/ Close(c)
  <2>1. PICK c \in Conns : Connect(c) \/ Close(c)
    BY <1>1
  <2>2. PICK state \in {"open", "closing"} :
          /\ conn' = [conn EXCEPT ![c] = state]
          /\ heard' = [heard EXCEPT ![c] = TRUE]
          /\ IF state = "open" THEN conn[c] = "new" ELSE conn[c] = "open"
          /\ UNCHANGED <<server, registered, present, subscriptions, pluginTold>>
    <3>1. CASE Connect(c)
      BY <3>1 DEF Connect
    <3>2. CASE Close(c)
      <4>1. heard = [heard EXCEPT ![c] = TRUE]
        BY <1>0, <3>2 DEF Close, OpenIsHeard, SubscriptionTypes
      <4> QED BY <3>2, <4>1 DEF Close
    <3> QED BY <2>1, <3>1, <3>2
  <2>3. /\ conn' \in [Conns -> {"new", "open", "closing", "closed"}] /\ heard' \in [Conns -> BOOLEAN]
        /\ conn'[c] = state /\ heard'[c] /\ \A d \in Conns : d # c => conn'[d] = conn[d] /\ heard'[d] = heard[d]
    BY <1>0, <2>2 DEF SubscriptionTypes
  <2>4. OpenIsHeard'
    BY <1>0, <2>2, <2>3 DEF OpenIsHeard
  <2>5. \A d \in Conns : /\ conn'[d] \in {"open", "closing"} =>
                               conn[d] \in {"open", "closing"} \/ registered[d] = {}
                         /\ conn[d] = "closed" => conn'[d] = "closed"
    BY <1>0, <2>2, <2>3 DEF OpenIsHeard
  <2>6. SubscriptionsIInv'
    BY <1>0, <2>2, <2>3, <2>4, <2>5, UncountedPreserves DEF SubscriptionTypes
  <2>7. \A x \in Chars : HeardSubscribers(x)' = HeardSubscribers(x)
    BY <1>0, <2>2, <2>3 DEF HeardSubscribers, Subscribers, OpenIsHeard
  <2>8. \A x \in Chars : subscriptions'[x] - subscriptions[x] = 0
    BY <1>0, <2>2 DEF SubscriptionTypes
  <2>9. \A x \in Chars : Cardinality(HeardSubscribers(x)) \in Nat
    BY CountedSets, CountedFinite
  <2> QED BY <1>0, <2>6, <2>7, <2>8, <2>9 DEF CountStep, SubscriptionTypes
<1>2. CASE \E x \in Chars : RemoveCharacteristic(x) \/ AddCharacteristic(x)
  <2>1. present' \in SUBSET Chars /\ UNCHANGED <<server, conn, heard, registered, subscriptions, pluginTold>>
    BY <1>0, <1>2 DEF RemoveCharacteristic, AddCharacteristic, SubscriptionTypes
  <2>2. SubscriptionsIInv'
    BY <1>0, <2>1, UncountedPreserves DEF SubscriptionTypes, OpenIsHeard
  <2>3. \A x \in Chars : HeardSubscribers(x)' = HeardSubscribers(x)
    BY <2>1 DEF HeardSubscribers, Subscribers
  <2>4. \A x \in Chars : subscriptions'[x] - subscriptions[x] = 0
    BY <1>0, <2>1 DEF SubscriptionTypes
  <2>5. \A x \in Chars : Cardinality(HeardSubscribers(x)) \in Nat
    BY CountedSets, CountedFinite
  <2> QED BY <1>0, <2>2, <2>3, <2>4, <2>5 DEF CountStep, SubscriptionTypes
<1>3. CASE Unpublish \/ Publish
  <2>1. /\ server' # server /\ server' \in BOOLEAN
        /\ conn' \in [Conns -> {"new", "open", "closing", "closed"}] /\ heard' \in [Conns -> BOOLEAN]
        /\ \A c \in Conns : /\ conn'[c] \in {"open", "closing"} => conn[c] \in {"open", "closing"}
                            /\ conn[c] = "closed" => conn'[c] = "closed"
                            /\ conn'[c] = "open" => heard'[c]
                            /\ conn'[c] = "new" => conn[c] = "new"
        /\ UNCHANGED <<registered, present, subscriptions, pluginTold>>
    BY <1>0, <1>3 DEF Unpublish, Publish, Stop, SubscriptionTypes, OpenIsHeard
  <2>2. OpenIsHeard'
    BY <1>0, <2>1 DEF OpenIsHeard
  <2>3. SubscriptionsIInv'
    BY <1>0, <2>1, <2>2, UncountedPreserves DEF SubscriptionTypes
  <2> QED BY <2>1, <2>3 DEF CountStep
<1> QED BY <1>1, <1>2, <1>3


\* A write with ev: true counts its connection once (handleSetCharacteristics, subscribe).
LEMMA EnableStep ==
  ASSUME SubscriptionsIInv, NEW c \in Conns, NEW x \in Chars, EnableEvents(c, x)
  PROVE  SubscriptionsIInv' /\ CountStep
<1>0. SubscriptionTypes /\ OpenIsHeard /\ CountedBetween
  BY DEF SubscriptionsIInv
<1>1. /\ conn[c] = "open" /\ heard[c] /\ x \in present /\ x \notin registered[c]
      /\ UNCHANGED <<server, conn, heard, present>>
  BY <1>0 DEF EnableEvents, OpenIsHeard
<1>2. /\ registered' \in [Conns -> SUBSET Chars]
      /\ registered'[c] = registered[c] \cup {x}
      /\ \A d \in Conns : d # c => registered'[d] = registered[d]
  BY <1>0 DEF EnableEvents, EnableEventNotifications, SubscriptionTypes
<1>3. /\ subscriptions' \in [Chars -> Nat] /\ pluginTold' \in [Chars -> BOOLEAN]
      /\ subscriptions'[x] = subscriptions[x] + 1
      /\ \A y \in Chars : y # x => subscriptions'[y] = subscriptions[y] /\ (pluginTold'[y] <=> pluginTold[y])
  BY <1>0 DEF EnableEvents, Subscribe, SubscriptionTypes
<1>4. pluginTold'[x]
  <2>1. pluginTold[x] \/ subscriptions[x] = 0
    BY <1>0 DEF CountedBetween, SubscriptionTypes
  <2> QED BY <2>1 DEF EnableEvents, Subscribe
<1>5. /\ Subscribers(x)' = Subscribers(x) \cup {c} /\ c \notin Subscribers(x)
      /\ HeardSubscribers(x)' = HeardSubscribers(x) \cup {c} /\ c \notin HeardSubscribers(x)
      /\ EverCounted(x)' = EverCounted(x) \cup {c} /\ c \notin EverCounted(x)
  BY <1>1, <1>2 DEF Subscribers, HeardSubscribers, EverCounted
<1>6. \A y \in Chars : y # x => /\ Subscribers(y)' = Subscribers(y)
                                /\ HeardSubscribers(y)' = HeardSubscribers(y)
                                /\ EverCounted(y)' = EverCounted(y)
  BY <1>1, <1>2 DEF Subscribers, HeardSubscribers, EverCounted
<1>7. \A y \in Chars : /\ Cardinality(Subscribers(y)) \in Nat /\ Cardinality(HeardSubscribers(y)) \in Nat
                       /\ Cardinality(EverCounted(y)) \in Nat /\ subscriptions[y] \in Nat
  BY <1>0, CountedSets, CountedFinite DEF SubscriptionTypes
<1>8. /\ Cardinality(Subscribers(x)') = Cardinality(Subscribers(x)) + 1
      /\ Cardinality(HeardSubscribers(x)') = Cardinality(HeardSubscribers(x)) + 1
      /\ Cardinality(EverCounted(x)') = Cardinality(EverCounted(x)) + 1
  BY <1>5, CountedSets, OneMoreOrLess
<1>9. CountedBetween'
  <2> SUFFICES ASSUME NEW y \in Chars
               PROVE  /\ Cardinality(Subscribers(y)') <= subscriptions'[y]
                      /\ subscriptions'[y] <= Cardinality(EverCounted(y)')
                      /\ pluginTold'[y] <=> subscriptions'[y] > 0
    BY DEF CountedBetween
  <2>1. CASE y = x
    BY <1>0, <1>3, <1>4, <1>7, <1>8, <2>1 DEF CountedBetween
  <2>2. CASE y # x
    BY <1>0, <1>3, <1>6, <2>2 DEF CountedBetween
  <2> QED BY <2>1, <2>2
<1>10. CountStep
  <2> SUFFICES ASSUME NEW y \in Chars
               PROVE  subscriptions'[y] - subscriptions[y]
                        = Cardinality(HeardSubscribers(y)') - Cardinality(HeardSubscribers(y))
    BY <1>0 DEF CountStep, SubscriptionTypes
  <2>1. CASE y = x
    BY <1>3, <1>7, <1>8, <2>1
  <2>2. CASE y # x
    BY <1>3, <1>6, <1>7, <2>2
  <2> QED BY <2>1, <2>2
<1>11. SubscriptionTypes' /\ OpenIsHeard'
  BY <1>0, <1>1, <1>2, <1>3 DEF SubscriptionTypes, OpenIsHeard
<1> QED BY <1>9, <1>10, <1>11 DEF SubscriptionsIInv

\* A connection taken off the counters of the characteristics X it is registered for: by a write with
\* ev: false of one of them, or by its end of those that are found.
LEMMA TakenOff ==
  ASSUME SubscriptionsIInv, NEW c \in Conns, NEW X \in SUBSET registered[c],
         conn[c] \in {"open", "closing"}, X \subseteq present,
         X # {} => heard[c],
         Unsubscribe(X),
         \/ conn' = conn /\ registered' = [registered EXCEPT ![c] = registered[c] \ X]
         \/ /\ conn' = [conn EXCEPT ![c] = "closed"] /\ registered' = [registered EXCEPT ![c] = {}]
            /\ X = registered[c] \cap present /\ heard[c]
         \/ conn' = [conn EXCEPT ![c] = "closed"] /\ registered' = registered /\ X = {} /\ ~heard[c],
         UNCHANGED <<server, heard, present>>
  PROVE  SubscriptionsIInv' /\ CountStep
<1>0. SubscriptionTypes /\ OpenIsHeard /\ CountedBetween /\ X \in SUBSET Chars
  BY DEF SubscriptionsIInv, SubscriptionTypes
<1>1. /\ subscriptions' \in [Chars -> Nat] /\ pluginTold' \in [Chars -> BOOLEAN]
      /\ \A y \in X : subscriptions'[y] = Less(subscriptions[y])
                      /\ (pluginTold'[y] <=> pluginTold[y] /\ subscriptions[y] # 1)
      /\ \A y \in Chars \ X : subscriptions'[y] = subscriptions[y] /\ (pluginTold'[y] <=> pluginTold[y])
  <2>1. /\ subscriptions' = [y \in Chars |-> IF y \in X THEN Less(subscriptions[y]) ELSE subscriptions[y]]
        /\ pluginTold' = [y \in Chars |-> pluginTold[y] /\ ~(y \in X /\ subscriptions[y] = 1)]
    BY DEF Unsubscribe
  <2>2. subscriptions \in [Chars -> Nat] /\ pluginTold \in [Chars -> BOOLEAN] /\ X \subseteq Chars
    BY <1>0 DEF SubscriptionTypes
  <2>3. subscriptions' \in [Chars -> Nat]
    BY <2>1, <2>2, LessIsLess
  <2>4. pluginTold' \in [Chars -> BOOLEAN]
    BY <2>1, <2>2
  <2>5. \A y \in X : subscriptions'[y] = Less(subscriptions[y])
                    /\ (pluginTold'[y] <=> pluginTold[y] /\ subscriptions[y] # 1)
    BY <2>1, <2>2
  <2>6. \A y \in Chars \ X : subscriptions'[y] = subscriptions[y] /\ (pluginTold'[y] <=> pluginTold[y])
    BY <2>1, <2>2
  <2> QED BY <2>3, <2>4, <2>5, <2>6
<1>2. /\ conn' \in [Conns -> {"new", "open", "closing", "closed"}]
      /\ registered' \in [Conns -> SUBSET Chars]
      /\ conn'[c] \in {conn[c], "closed"}
      /\ \A d \in Conns : d # c => conn'[d] = conn[d] /\ registered'[d] = registered[d]
      /\ registered'[c] \subseteq registered[c]
  BY <1>0 DEF SubscriptionTypes
<1>3. /\ conn'[c] = conn[c] => registered'[c] = registered[c] \ X
      /\ conn'[c] = "closed" => (X = {} /\ ~heard[c]) \/ X = registered[c] \cap present
  BY <1>0 DEF SubscriptionTypes
<1>4. SubscriptionTypes' /\ OpenIsHeard'
  BY <1>0, <1>1, <1>2, <1>3 DEF SubscriptionTypes, OpenIsHeard
<1>5. \A y \in Chars : /\ Cardinality(Subscribers(y)) \in Nat /\ Cardinality(HeardSubscribers(y)) \in Nat
                       /\ Cardinality(EverCounted(y)) \in Nat /\ subscriptions[y] \in Nat
                       /\ Cardinality(Subscribers(y)') \in Nat /\ Cardinality(EverCounted(y)') \in Nat
  <2>1. \A y \in Chars : Subscribers(y)' \in SUBSET Conns /\ EverCounted(y)' \in SUBSET Conns
    BY DEF Subscribers, EverCounted
  <2> QED BY <1>0, <2>1, CountedSets, CountedFinite DEF SubscriptionTypes
<1>6. ASSUME NEW y \in X
      PROVE  /\ Cardinality(Subscribers(y)') = Cardinality(Subscribers(y)) - 1
             /\ Cardinality(HeardSubscribers(y)') = Cardinality(HeardSubscribers(y)) - 1
             /\ subscriptions[y] > 0 /\ subscriptions'[y] = subscriptions[y] - 1
             /\ subscriptions'[y] <= Cardinality(EverCounted(y)')
             /\ pluginTold'[y] <=> subscriptions'[y] > 0
  <2>1. y \in Chars /\ y \in registered[c] /\ heard[c]
    BY <1>0, <1>6
  <2>2. /\ Subscribers(y)' = Subscribers(y) \ {c} /\ c \in Subscribers(y)
        /\ HeardSubscribers(y)' = HeardSubscribers(y) \ {c} /\ c \in HeardSubscribers(y)
    BY <1>2, <1>3, <1>6, <2>1 DEF Subscribers, HeardSubscribers
  <2>3. /\ Cardinality(Subscribers(y)') = Cardinality(Subscribers(y)) - 1
        /\ Cardinality(HeardSubscribers(y)') = Cardinality(HeardSubscribers(y)) - 1
    BY <2>2, CountedSets, OneMoreOrLess
  <2>4. subscriptions[y] > 0
    BY <1>0, <1>5, <2>1, <2>3 DEF CountedBetween
  <2>5. subscriptions'[y] = subscriptions[y] - 1
    BY <1>1, <1>5, <2>1, <2>4, LessIsLess
  <2>6. Cardinality(EverCounted(y)) - 1 <= Cardinality(EverCounted(y)')
    <3>1. EverCounted(y) \ {c} \in SUBSET EverCounted(y)' /\ c \in EverCounted(y) /\ EverCounted(y)' \in SUBSET Conns
      BY <1>2, <2>1 DEF EverCounted
    <3>2. /\ Cardinality(EverCounted(y) \ {c}) = Cardinality(EverCounted(y)) - 1
          /\ Cardinality(EverCounted(y) \ {c}) <= Cardinality(EverCounted(y)')
      BY <3>1, CountedSets, OneMoreOrLess, CountsNoMore
    <3> QED BY <3>2
  <2>7. subscriptions[y] <= Cardinality(EverCounted(y)) /\ (pluginTold[y] <=> subscriptions[y] > 0)
    BY <1>0, <2>1 DEF CountedBetween
  <2>8. subscriptions'[y] <= Cardinality(EverCounted(y)')
    BY <1>5, <2>1, <2>5, <2>6, <2>7
  <2>9. pluginTold'[y] <=> subscriptions'[y] > 0
    BY <1>1, <1>5, <1>6, <2>1, <2>4, <2>5, <2>7
  <2> QED BY <2>3, <2>4, <2>5, <2>8, <2>9
<1>7. ASSUME NEW y \in Chars \ X
      PROVE  /\ Cardinality(Subscribers(y)') <= Cardinality(Subscribers(y))
             /\ Cardinality(EverCounted(y)) <= Cardinality(EverCounted(y)')
             /\ y \in present => HeardSubscribers(y)' = HeardSubscribers(y)
  <2>1. Subscribers(y)' \in SUBSET Subscribers(y)
    BY <1>2 DEF Subscribers
  <2>2. EverCounted(y) \in SUBSET EverCounted(y)' /\ EverCounted(y)' \in SUBSET Conns
    BY <1>2, <1>3, <1>7 DEF EverCounted
  <2>3. y \in present => HeardSubscribers(y)' = HeardSubscribers(y)
    BY <1>2, <1>3, <1>7 DEF HeardSubscribers, Subscribers
  <2> QED BY <2>1, <2>2, <2>3, CountedSets, CountsNoMore
<1>8. CountedBetween'
  <2> SUFFICES ASSUME NEW y \in Chars
               PROVE  /\ Cardinality(Subscribers(y)') <= subscriptions'[y]
                      /\ subscriptions'[y] <= Cardinality(EverCounted(y)')
                      /\ pluginTold'[y] <=> subscriptions'[y] > 0
    BY DEF CountedBetween
  <2>1. /\ Cardinality(Subscribers(y)) <= subscriptions[y]
        /\ subscriptions[y] <= Cardinality(EverCounted(y))
        /\ pluginTold[y] <=> subscriptions[y] > 0
    BY <1>0 DEF CountedBetween
  <2>2. CASE y \in X
    BY <1>5, <1>6, <2>1, <2>2
  <2>3. CASE y \notin X
    <3>1. /\ Cardinality(Subscribers(y)') <= Cardinality(Subscribers(y))
          /\ Cardinality(EverCounted(y)) <= Cardinality(EverCounted(y)')
      BY <1>7, <2>3
    <3>2. subscriptions'[y] = subscriptions[y] /\ (pluginTold'[y] <=> pluginTold[y])
      BY <1>1, <2>3
    <3> QED BY <1>5, <2>1, <3>1, <3>2
  <2> QED BY <2>2, <2>3
<1>9. CountStep
  <2> SUFFICES ASSUME NEW y \in present
               PROVE  subscriptions'[y] - subscriptions[y]
                        = Cardinality(HeardSubscribers(y)') - Cardinality(HeardSubscribers(y))
    BY DEF CountStep
  <2>1. y \in Chars
    BY <1>0 DEF SubscriptionTypes
  <2>2. CASE y \in X
    BY <1>5, <1>6, <2>1, <2>2
  <2>3. CASE y \notin X
    BY <1>1, <1>5, <1>7, <2>1, <2>3
  <2> QED BY <2>2, <2>3
<1> QED BY <1>4, <1>8, <1>9 DEF SubscriptionsIInv


\* A write with ev: false, and the CLOSED event of a connection.
LEMMA TakingOffStep ==
  ASSUME SubscriptionsIInv, NEW c \in Conns,
         ConnectionClosed(c) \/ \E x \in Chars : DisableEvents(c, x)
  PROVE  SubscriptionsIInv' /\ CountStep
<1>0. SubscriptionTypes /\ OpenIsHeard
  BY DEF SubscriptionsIInv
<1>1. CASE \E x \in Chars : DisableEvents(c, x)
  <2>1. PICK x \in Chars : DisableEvents(c, x)
    BY <1>1
  <2>2. PICK X \in SUBSET registered[c] : X = {x}
    BY <2>1 DEF DisableEvents
  <2>3. /\ conn[c] \in {"open", "closing"} /\ heard[c] /\ X \subseteq present
        /\ Unsubscribe(X)
        /\ conn' = conn /\ registered' = [registered EXCEPT ![c] = registered[c] \ X]
        /\ UNCHANGED <<server, heard, present>>
    BY <1>0, <2>1, <2>2 DEF DisableEvents, DisableEventNotifications, OpenIsHeard
  <2> QED BY <2>3, TakenOff
<1>2. CASE ConnectionClosed(c) /\ heard[c]
  <2>1. PICK X \in SUBSET registered[c] : X = registered[c] \cap present
    OBVIOUS
  <2>2. /\ conn[c] \in {"open", "closing"}
        /\ Unsubscribe(X) /\ registered' = [registered EXCEPT ![c] = {}]
        /\ conn' = [conn EXCEPT ![c] = "closed"]
        /\ UNCHANGED <<server, heard, present>>
    BY <1>2, <2>1 DEF ConnectionClosed, FoundAtClose, ClearRegisteredEvents
  <2> QED BY <1>2, <2>1, <2>2, TakenOff
<1>3. CASE ConnectionClosed(c) /\ ~heard[c]
  <2>1. /\ conn[c] \in {"open", "closing"}
        /\ conn' = [conn EXCEPT ![c] = "closed"]
        /\ UNCHANGED <<server, heard, present, registered, subscriptions, pluginTold>>
    BY <1>3 DEF ConnectionClosed
  <2>2. Unsubscribe({})
    <3>1. subscriptions' = [x \in Chars |-> IF x \in {} THEN Less(subscriptions[x]) ELSE subscriptions[x]]
      BY <1>0, <2>1 DEF SubscriptionTypes
    <3>2. pluginTold' = [x \in Chars |-> pluginTold[x] /\ ~(x \in {} /\ subscriptions[x] = 1)]
      <4>1. \A x \in Chars : (pluginTold[x] /\ ~(x \in {} /\ subscriptions[x] = 1)) = pluginTold[x]
        BY <1>0 DEF SubscriptionTypes
      <4>2. pluginTold = [x \in Chars |-> pluginTold[x]]
        BY <1>0 DEF SubscriptionTypes
      <4> QED BY <2>1, <4>1, <4>2
    <3> QED BY <3>1, <3>2 DEF Unsubscribe
  <2> QED BY <1>3, <2>1, <2>2, TakenOff
<1> QED BY <1>1, <1>2, <1>3

\* Init => IInv
LEMMA SubscriptionsInitIInv == SubscriptionsInit => SubscriptionsIInv
<1> SUFFICES ASSUME SubscriptionsInit PROVE SubscriptionsIInv
  OBVIOUS
<1>1. \A x \in Chars : Subscribers(x) = {} /\ EverCounted(x) = {}
  BY DEF SubscriptionsInit, Subscribers, EverCounted
<1>2. CountedBetween
  BY <1>1, FS_EmptySet DEF SubscriptionsInit, CountedBetween
<1> QED BY <1>2 DEF SubscriptionsInit, SubscriptionsIInv, SubscriptionTypes, OpenIsHeard

\* IInv /\ [Next]_vars => IInv', and a step counts as CountFollows says.
LEMMA SubscriptionsNextIInv ==
  SubscriptionsIInv /\ [SubscriptionsNext]_subscriptionVars => SubscriptionsIInv' /\ (CountStep \/ UNCHANGED subscriptionVars)
<1> SUFFICES ASSUME SubscriptionsIInv, [SubscriptionsNext]_subscriptionVars
             PROVE  SubscriptionsIInv' /\ (CountStep \/ UNCHANGED subscriptionVars)
  OBVIOUS
<1>1. CASE \E c \in Conns, x \in Chars : EnableEvents(c, x)
  BY <1>1, EnableStep
<1>2. CASE \E c \in Conns : ConnectionClosed(c) \/ \E x \in Chars : DisableEvents(c, x)
  BY <1>2, TakingOffStep
<1>3. CASE \/ \E c \in Conns : Connect(c) \/ Close(c)
           \/ \E x \in Chars : RemoveCharacteristic(x) \/ AddCharacteristic(x)
           \/ Unpublish \/ Publish
  BY <1>3, ConnectionStep
<1>4. CASE UNCHANGED subscriptionVars
  BY <1>4 DEF subscriptionVars, SubscriptionsIInv, SubscriptionTypes, OpenIsHeard, CountedBetween, Subscribers,
    EverCounted
<1> QED BY <1>1, <1>2, <1>3, <1>4 DEF SubscriptionsNext

\* The invariant has what SubscriptionsFollowed says of every state.
LEMMA CountedIsTold == SubscriptionsIInv => SubscriptionsTypeOK /\ PluginTold
<1> SUFFICES ASSUME SubscriptionsIInv PROVE SubscriptionsTypeOK /\ PluginTold
  OBVIOUS
<1>1. SubscriptionTypes /\ CountedBetween
  BY DEF SubscriptionsIInv
<1>2. ASSUME NEW x \in Chars PROVE subscriptions[x] \in 0..Cardinality(Conns)
  <2>1. /\ Cardinality(EverCounted(x)) \in Nat /\ Cardinality(Conns) \in Nat
        /\ Cardinality(EverCounted(x)) <= Cardinality(Conns)
    BY CountedSets, CountedFinite
  <2>2. subscriptions[x] \in Nat /\ subscriptions[x] <= Cardinality(EverCounted(x))
    BY <1>1 DEF SubscriptionTypes, CountedBetween
  <2> QED BY <2>1, <2>2
<1>3. SubscriptionsTypeOK
  BY <1>1, <1>2 DEF SubscriptionTypes, SubscriptionsTypeOK
<1>4. ASSUME NEW x \in Chars, Subscribers(x) # {} PROVE pluginTold[x]
  <2>1. IsFiniteSet(Subscribers(x)) /\ Cardinality(Subscribers(x)) \in Nat
    BY CountedSets, CountedFinite
  <2>2. Cardinality(Subscribers(x)) # 0
    BY <1>4, <2>1, FS_EmptySet
  <2>3. Cardinality(Subscribers(x)) <= subscriptions[x] /\ subscriptions[x] \in Nat /\ (pluginTold[x] <=> subscriptions[x] > 0)
    BY <1>1 DEF SubscriptionTypes, CountedBetween
  <2>4. subscriptions[x] > 0
    BY <2>1, <2>2, <2>3
  <2> QED BY <2>3, <2>4
<1> QED BY <1>3, <1>4 DEF PluginTold

\* While somebody is subscribed to a characteristic the plugin was last told so, and while the
\* accessory stays published and the characteristic found the counter it is told from moves by the
\* connections registered and gone, however ev writes, disconnects, removals and unpublishing
\* interleave (Characteristic.subscribe, Accessory.handleHAPConnectionClosed). It may end above zero
\* with no subscriber (NoSubscriberLeft).
THEOREM SubscriptionsAlwaysFollowed == SubscriptionsSpec => SubscriptionsFollowed
<1>1. SubscriptionsIInv /\ [SubscriptionsNext]_subscriptionVars => [CountStep]_subscriptionVars
  BY SubscriptionsNextIInv
<1>2. SubscriptionsIInv /\ [SubscriptionsNext]_subscriptionVars => SubscriptionsIInv'
  BY SubscriptionsNextIInv
<1>3. SubscriptionsIInv => SubscriptionsTypeOK /\ PluginTold
  BY CountedIsTold
<1>4. [CountStep]_subscriptionVars =>
        [server' = server =>
           \A x \in present \cap present' :
             subscriptions'[x] - subscriptions[x]
               = Cardinality(HeardSubscribers(x)') - Cardinality(HeardSubscribers(x))]_subscriptionVars
  BY DEF CountStep
<1> QED BY <1>1, <1>2, <1>3, <1>4, SubscriptionsInitIInv, PTL DEF SubscriptionsSpec, SubscriptionsFollowed, CountFollows

-----------------------------------------------------------------------------
(***************************************************************************)
(* Values.  Events are coalesced, so what a listener got is compared       *)
(* without repetitions.  That an event carries the change it is for needs  *)
(* that a write is stored before anything else changes the value, which    *)
(* holds of set handlers that call back at once (WritesCallBack).          *)
(***************************************************************************)

\* The places of a sequence are counted by numbers.
LEMMA PlaceIsNat ==
  ASSUME NEW s, NEW i \in Nat
  PROVE  Place(s, i) \in Nat /\ IsFiniteSet({j \in 1..i : j > 1 => s[j - 1] # s[j]})
<1>1. IsFiniteSet(1..i)
  BY FS_Interval
<1>2. {j \in 1..i : j > 1 => s[j - 1] # s[j]} \subseteq 1..i
  OBVIOUS
<1> QED
  BY <1>1, <1>2, FS_Subset, FS_CardinalityType DEF Place

\* One element more is one place more, unless it repeats the last.
LEMMA PlaceOfNext ==
  ASSUME NEW s, NEW i \in Nat \ {0}
  PROVE  Place(s, i + 1) = IF s[i] = s[i + 1] THEN Place(s, i) ELSE Place(s, i) + 1
<1> DEFINE P(n) == {j \in 1..n : j > 1 => s[j - 1] # s[j]}
<1>1. IsFiniteSet(P(i)) /\ i + 1 \notin P(i)
  BY PlaceIsNat
<1>2. CASE s[i] = s[i + 1]
  <2>1. P(i + 1) = P(i)
    BY <1>2
  <2> QED
    BY <1>2, <2>1 DEF Place
<1>3. CASE s[i] # s[i + 1]
  <2>1. P(i + 1) = P(i) \cup {i + 1}
    BY <1>3
  <2>2. Cardinality(P(i) \cup {i + 1}) = Cardinality(P(i)) + 1
    <3> HIDE DEF P
    <3> QED
      BY <1>1, FS_AddElement
  <2> QED
    BY <1>3, <2>1, <2>2 DEF Place
<1> QED
  BY <1>2, <1>3

\* Places depend on the elements up to them only.
LEMMA PlaceAgrees ==
  ASSUME NEW s, NEW t, NEW i \in Nat, \A j \in 1..i : s[j] = t[j]
  PROVE  Place(s, i) = Place(t, i)
<1>1. {j \in 1..i : j > 1 => s[j - 1] # s[j]} = {j \in 1..i : j > 1 => t[j - 1] # t[j]}
  <2>1. \A j \in 1..i : j > 1 => j - 1 \in 1..i
    OBVIOUS
  <2> QED
    BY <2>1
<1> QED
  BY <1>1 DEF Place

\* The first element has the first place.
LEMMA FirstPlace ==
  ASSUME NEW s
  PROVE  Place(s, 1) = 1
<1>1. {j \in 1..1 : j > 1 => s[j - 1] # s[j]} = {1}
  OBVIOUS
<1> QED
  BY <1>1, FS_Singleton DEF Place

\* What is appended to a sequence is appended to it without the repetitions, unless it is one.
LEMMA WithoutRepeatsAppend ==
  ASSUME NEW V, NEW s \in Seq(V), NEW t \in Seq(V), NEW v \in V, s # <<>>, WithoutRepeats(s, t)
  PROVE  /\ t # <<>> /\ Last(t) = Last(s)
         /\ WithoutRepeats(Append(s, v), IF v = Last(s) THEN t ELSE Append(t, v))
<1> DEFINE n == Len(s)
           a == Append(s, v)
           b == IF v = Last(s) THEN t ELSE Append(t, v)
<1>1. /\ n \in Nat \ {0} /\ Len(a) = n + 1
      /\ \A i \in 1..n : a[i] = s[i]
      /\ a[n + 1] = v
  BY AppendProperties, EmptySeq
<1>2. \A i \in 1..n : Place(a, i) = Place(s, i)
  <2> SUFFICES ASSUME NEW i \in 1..n PROVE Place(a, i) = Place(s, i)
    OBVIOUS
  <2>1. i \in Nat /\ \A j \in 1..i : a[j] = s[j]
    BY <1>1
  <2> HIDE DEF a
  <2> QED
    BY <2>1, PlaceAgrees
<1>3. Place(a, n + 1) = IF s[n] = v THEN Place(s, n) ELSE Place(s, n) + 1
  <2>1. a[n] = s[n]
    BY <1>1
  <2>2. Place(a, n) = Place(s, n)
    BY <1>1, <1>2
  <2> HIDE DEF a
  <2>3. Place(a, n + 1) = IF a[n] = a[n + 1] THEN Place(a, n) ELSE Place(a, n) + 1
    BY <1>1, PlaceOfNext
  <2> QED
    BY <1>1, <2>1, <2>2, <2>3
<1>4. Len(t) = Place(s, n) /\ Len(t) \in Nat
  BY DEF WithoutRepeats
<1>5. s[n] = t[Len(t)] /\ Last(t) = Last(s)
  BY <1>1, <1>4 DEF WithoutRepeats, Last
<1>6. \A i \in 1..n : Place(s, i) \in 1..Len(t)
  <2> SUFFICES ASSUME NEW i \in 1..n PROVE Place(s, i) \in 1..Len(t)
    OBVIOUS
  <2> DEFINE P(m) == {j \in 1..m : j > 1 => s[j - 1] # s[j]}
  <2>1. P(i) \subseteq P(n) /\ P(1) \subseteq P(i)
    OBVIOUS
  <2>2. IsFiniteSet(P(n)) /\ IsFiniteSet(P(i))
    <3>1. i \in Nat
      OBVIOUS
    <3> QED
      BY <1>1, <3>1, PlaceIsNat
  <2>3. Cardinality(P(i)) <= Cardinality(P(n)) /\ Cardinality(P(1)) <= Cardinality(P(i))
    <3> HIDE DEF P
    <3> QED
      BY <2>1, <2>2, FS_Subset
  <2>4. Place(s, i) <= Place(s, n) /\ Place(s, 1) <= Place(s, i)
    BY <2>3 DEF Place
  <2>5. Place(s, 1) = 1 /\ Place(s, i) \in Nat
    <3>1. i \in Nat
      OBVIOUS
    <3> QED
      BY <3>1, FirstPlace, PlaceIsNat
  <2> QED
    BY <1>4, <2>4, <2>5
<1>7. t # <<>>
  <2>1. 1..Len(t) # {}
    BY <1>1, <1>6
  <2> QED
    BY <2>1
<1>8. CASE v = Last(s)
  <2>1. b = t /\ s[n] = v
    BY <1>8 DEF Last
  <2>2. Len(b) = Place(a, n + 1)
    BY <1>3, <1>4, <2>1
  <2>3. ASSUME NEW i \in 1..(n + 1) PROVE a[i] = b[Place(a, i)]
    <3>1. CASE i = n + 1
      <4>1. Place(a, i) = Len(t)
        BY <1>3, <1>4, <2>1, <3>1
      <4> QED
        BY <1>1, <1>5, <2>1, <3>1, <4>1
    <3>2. CASE i \in 1..n
      <4> HIDE DEF a
      <4> QED
        BY <1>1, <1>2, <2>1, <3>2 DEF WithoutRepeats
    <3>3. i = n + 1 \/ i \in 1..n
      BY <1>1
    <3> HIDE DEF a, b
    <3> QED
      BY <3>1, <3>2, <3>3
  <2> HIDE DEF a, b
  <2>4. WithoutRepeats(a, b)
    BY <1>1, <2>2, <2>3 DEF WithoutRepeats
  <2> QED
    BY <1>5, <1>7, <2>4 DEF a, b
<1>9. CASE v # Last(s)
  <2>1. b = Append(t, v) /\ s[n] # v
    BY <1>9 DEF Last
  <2>2. /\ Len(b) = Len(t) + 1 /\ b[Len(t) + 1] = v
        /\ \A k \in 1..Len(t) : b[k] = t[k]
    BY <2>1, AppendProperties
  <2>3. Place(a, n + 1) = Len(t) + 1
    BY <1>3, <1>4, <2>1
  <2>4. ASSUME NEW i \in 1..(n + 1) PROVE a[i] = b[Place(a, i)]
    <3>1. CASE i = n + 1
      <4> HIDE DEF a, b
      <4> QED
        BY <1>1, <2>2, <2>3, <3>1
    <3>2. CASE i \in 1..n
      <4>1. s[i] = t[Place(s, i)] /\ Place(s, i) \in 1..Len(t)
        BY <1>6, <3>2 DEF WithoutRepeats
      <4> HIDE DEF a, b
      <4> QED
        BY <1>1, <1>2, <2>2, <3>2, <4>1
    <3>3. i = n + 1 \/ i \in 1..n
      BY <1>1
    <3> HIDE DEF a, b
    <3> QED
      BY <3>1, <3>2, <3>3
  <2> HIDE DEF a, b
  <2>5. WithoutRepeats(a, b)
    BY <1>1, <2>2, <2>3, <2>4 DEF WithoutRepeats
  <2> QED
    BY <1>5, <1>7, <2>5 DEF a, b
<1> QED
  BY <1>8, <1>9

\* At most one handler that calls back at once runs, so a write is stored before anything changes
\* the value, and its timers never fire.
WritesCallBack ==
  /\ \A r \in 1..started : request[r].by \notin Listeners
  /\ \A r, q \in 1..started : Runs(r) /\ Runs(q) => r = q
  /\ \A r \in 1..started : request[r].kind = "write" /\ request[r].stage \in {"handling", "late"}
                             => Runs(r) /\ request[r].old = value

\* What a listener was told ends with what it shows, and every change is told or queued.
ListenersAreTold ==
  /\ changes # <<>> /\ Last(changes) = value
  /\ \A c \in Listeners : told[c] # <<>> /\ Last(told[c]) = known[c]
  /\ EveryChangeTold

ValueIInv == TypeOK /\ WritesCallBack /\ ListenersAreTold

\* The first value is the first a listener was told.
LEMMA ValueInit == Init => ValueIInv
<1> SUFFICES ASSUME Init PROVE ValueIInv
  OBVIOUS
<1> USE ValueAssumption DEF Init
<1>1. TypeOK
  <2>1. <<InitialValue>> \in Seq(Values) /\ <<>> \in Seq(Values)
    OBVIOUS
  <2>2. request \in [1..started -> Request]
    OBVIOUS
  <2> QED
    BY <2>1, <2>2 DEF TypeOK
<1>2. WritesCallBack
  BY DEF WritesCallBack
<1>3. ASSUME NEW c \in Listeners
      PROVE  /\ told[c] = <<InitialValue>> /\ queued[c] = <<>> /\ known[c] = InitialValue
             /\ WithoutRepeats(told[c] \o queued[c], changes)
  <2>1. told[c] = <<InitialValue>> /\ queued[c] = <<>> /\ known[c] = InitialValue
    BY DEF Controllers
  <2>2. told[c] \o queued[c] = <<InitialValue>>
    <3>1. <<InitialValue>> \in Seq(Values)
      OBVIOUS
    <3>2. <<InitialValue>> \o <<>> = <<InitialValue>>
      BY <3>1, ConcatEmptySeq
    <3> QED
      BY <2>1, <3>2
  <2>3. WithoutRepeats(<<InitialValue>>, <<InitialValue>>)
    <3>1. Len(<<InitialValue>>) = 1 /\ 1..1 = {1}
      OBVIOUS
    <3> QED
      BY <3>1, FirstPlace DEF WithoutRepeats
  <2> QED
    BY <2>1, <2>2, <2>3
<1>4. ListenersAreTold
  <2>1. Last(<<InitialValue>>) = InitialValue /\ <<InitialValue>> # <<>>
    BY DEF Last
  <2> QED
    BY <1>3, <2>1 DEF ListenersAreTold, EveryChangeTold
<1> QED
  BY <1>1, <1>2, <1>4 DEF ValueIInv

\* What a listener was told and is about to be told ends with the value.
LEMMA EndsWithValue ==
  ASSUME TypeOK, ListenersAreTold, NEW c \in Listeners
  PROVE  /\ told[c] \o queued[c] \in Seq(Values) /\ told[c] \o queued[c] # <<>>
         /\ Last(told[c] \o queued[c]) = value
         /\ UpToDate(c)
<1> DEFINE s == told[c] \o queued[c]
<1>1. told[c] \in Seq(Values) /\ queued[c] \in Seq(Values) /\ told[c] # <<>>
  BY DEF TypeOK, Controllers, ListenersAreTold
<1>2. /\ s \in Seq(Values) /\ Len(s) = Len(told[c]) + Len(queued[c])
      /\ \A i \in 1..Len(told[c]) : s[i] = told[c][i]
      /\ \A i \in 1..Len(queued[c]) : s[Len(told[c]) + i] = queued[c][i]
  <2>1. ASSUME NEW t \in Seq(Values), NEW q \in Seq(Values)
        PROVE  /\ t \o q \in Seq(Values) /\ Len(t \o q) = Len(t) + Len(q)
               /\ \A i \in 1..Len(t) : (t \o q)[i] = t[i]
               /\ \A i \in 1..Len(q) : (t \o q)[Len(t) + i] = q[i]
    BY ConcatProperties
  <2> QED
    BY <1>1, <2>1
<1>3. Len(told[c]) \in Nat \ {0} /\ Len(queued[c]) \in Nat
  BY <1>1
<1>4. s # <<>>
  BY <1>2, <1>3
<1>5. Last(s) = value
  <2>1. WithoutRepeats(s, changes) /\ Last(changes) = value /\ changes \in Seq(Values)
    BY DEF ListenersAreTold, EveryChangeTold, TypeOK
  <2>2. Len(changes) = Place(s, Len(s)) /\ s[Len(s)] = changes[Place(s, Len(s))]
    <3>1. Len(s) \in 1..Len(s)
      <4>1. \A m \in Nat \ {0}, n \in Nat : m + n \in 1..(m + n)
        OBVIOUS
      <4>2. Len(s) = Len(told[c]) + Len(queued[c])
        BY <1>2
      <4> HIDE DEF s
      <4> QED
        BY <1>3, <4>1, <4>2
    <3> HIDE DEF s
    <3> QED
      BY <2>1, <3>1 DEF WithoutRepeats
  <2> QED
    BY <2>1, <2>2 DEF Last
<1>6. UpToDate(c)
  <2>1. CASE queued[c] = <<>>
    <3>1. Len(s) = Len(told[c]) /\ s[Len(s)] = told[c][Len(told[c])]
      <4>1. Len(queued[c]) = 0
        BY <2>1
      <4> HIDE DEF s
      <4> QED
        BY <1>2, <1>3, <4>1
    <3>2. Last(told[c]) = known[c]
      BY DEF ListenersAreTold
    <3> QED
      BY <1>5, <2>1, <3>1, <3>2 DEF UpToDate, Last
  <2>2. CASE queued[c] # <<>>
    <3>1. Len(queued[c]) \in 1..Len(queued[c])
      BY <1>1, <1>3, <2>2
    <3>2. s[Len(s)] = queued[c][Len(queued[c])]
      <4> HIDE DEF s
      <4> QED
        BY <1>2, <3>1
    <3> QED
      BY <1>5, <2>2, <3>2 DEF UpToDate, Last
  <2> QED
    BY <2>1, <2>2
<1> QED
  BY <1>2, <1>4, <1>5, <1>6

\* A value that is stored is told to every listener, unless it is no change and not forced.
LEMMA StoredIsTold ==
  ASSUME TypeOK, ListenersAreTold, NEW v \in Values, Store(v), known' = known, told' = told,
         NEW originator \in Requesters \cup {Accessory}, NEW forced \in BOOLEAN,
         Change(value, v, originator, forced)
  PROVE  ListenersAreTold'
<1>1. changes \in Seq(Values) /\ changes # <<>> /\ Last(changes) = value
  BY DEF TypeOK, ListenersAreTold
<1>2. changes' = IF v = value THEN changes ELSE Append(changes, v)
  BY DEF Store
<1>3. changes' # <<>> /\ Last(changes') = value'
  <2>1. value' = v
    BY DEF Store
  <2>2. Append(changes, v) # <<>> /\ Last(Append(changes, v)) = v
    BY <1>1, AppendProperties DEF Last
  <2> QED
    BY <1>1, <1>2, <2>1, <2>2
<1>4. ASSUME NEW c \in Listeners
      PROVE  WithoutRepeats(told[c] \o queued'[c], changes')
  <2> DEFINE s == told[c] \o queued[c]
  <2>1. s \in Seq(Values) /\ s # <<>> /\ Last(s) = value /\ UpToDate(c)
    BY EndsWithValue
  <2>2. WithoutRepeats(s, changes)
    BY DEF ListenersAreTold, EveryChangeTold
  <2>3. (queued'[c] = queued[c] /\ v = value) \/ queued'[c] = Queue(queued[c], v)
    BY ValueAssumption DEF Change, BroadcastEvent, Controllers, TypeOK
  <2>4. CASE queued'[c] = queued[c] /\ v = value
    BY <1>2, <2>2, <2>4
  <2>5. CASE queued'[c] = queued[c] /\ queued[c] # <<>> /\ Last(queued[c]) = v
    BY <1>2, <2>1, <2>2, <2>5 DEF UpToDate
  <2>6. CASE queued'[c] = Append(queued[c], v)
    <3>1. told[c] \o Append(queued[c], v) = Append(s, v)
      BY DEF TypeOK, Controllers
    <3>2. WithoutRepeats(Append(s, v), IF v = Last(s) THEN changes ELSE Append(changes, v))
      <4> HIDE DEF s
      <4> QED
        BY <1>1, <2>1, <2>2, WithoutRepeatsAppend
    <3> QED
      BY <1>2, <2>1, <2>6, <3>1, <3>2
  <2> QED
    BY <2>3, <2>4, <2>5, <2>6 DEF Queue
<1> QED
  BY <1>3, <1>4 DEF ListenersAreTold, EveryChangeTold

\* new is the request q at another stage, with its value v or the one it had.
Restaged(new, q, v, stage) ==
  new = [q EXCEPT !.value = v, !.stage = stage] \/ new = [q EXCEPT !.stage = stage]

\* A request keeps its fields when its stage and value change.
LEMMA RequestUpdate ==
  ASSUME NEW q \in Request, NEW v \in Values \cup {Failed}, NEW stage \in {"late", "handled", "over"},
         q.by = Accessory => stage = "over",
         NEW new, Restaged(new, q, v, stage)
  PROVE  /\ new \in Request
         /\ new.by = q.by /\ new.kind = q.kind /\ new.old = q.old /\ new.stage = stage
<1>1. new = [q EXCEPT !.value = v, !.stage = stage] \/ new = [q EXCEPT !.stage = stage]
  BY DEF Restaged
<1>2. new \in [by: Controllers \cup {Accessory}, kind: {"read", "write"}, value: Values \cup {Failed},
               old: Values, stage: {"handling", "late", "handled", "over"}]
  BY <1>1 DEF Request
<1>3. new.by = q.by /\ new.kind = q.kind /\ new.old = q.old /\ new.stage = stage
  BY <1>1 DEF Request
<1>4. q.by = Accessory => q.kind = "write"
  BY DEF Request
<1> QED
  BY <1>2, <1>3, <1>4 DEF Request

\* A request whose stage changes is no longer one of the handlers that run, and the others stay.
LEMMA StageChanges ==
  ASSUME TypeOK, WritesCallBack, SetHandler = "sync", NEW r \in 1..started,
         NEW new \in Request, new.by = request[r].by, new.kind = request[r].kind, new.old = request[r].old,
         new.stage \in {"late", "handled", "over"},
         new.stage = "late" => new.kind = "read",
         started' = started, request' = [request EXCEPT ![r] = new],
         value' = value \/ Runs(r) \/ NothingRuns
  PROVE  WritesCallBack' /\ request' \in [1..started' -> Request]
<1>1. request \in [1..started -> Request]
  BY DEF TypeOK
<1>2. /\ request' \in [1..started' -> Request]
      /\ request'[r] = new
      /\ \A q \in 1..started : q # r => request'[q] = request[q]
  BY <1>1
<1>3. \A q \in 1..started : q # r => (Runs(q)' <=> Runs(q))
  BY <1>2 DEF Runs, Handler
<1>4. ~Runs(r)'
  BY <1>2 DEF Runs
<1>5. ASSUME NEW q \in 1..started, request'[q].kind = "write", request'[q].stage \in {"handling", "late"}
      PROVE  Runs(q)' /\ request'[q].old = value'
  <2>1. q # r
    BY <1>2, <1>5
  <2>2. Runs(q) /\ request[q].old = value
    BY <1>2, <1>5, <2>1 DEF WritesCallBack
  <2>3. ~Runs(r) /\ ~NothingRuns
    BY <2>1, <2>2 DEF WritesCallBack, NothingRuns
  <2>4. value' = value
    BY <2>3
  <2> QED
    BY <1>2, <1>3, <2>1, <2>2, <2>4
<1>6. \A q \in 1..started : request'[q].by \notin Listeners
  BY <1>2 DEF WritesCallBack
<1>7. \A q, p \in 1..started : Runs(q)' /\ Runs(p)' => q = p
  BY <1>3, <1>4 DEF WritesCallBack
<1> QED
  BY <1>2, <1>5, <1>6, <1>7 DEF WritesCallBack

\* A request begins when nothing runs.
LEMMA BeginPreserves ==
  ASSUME ValueIInv, SetHandler = "sync", NEW by \in Requesters \cup {Accessory}, NEW kind \in {"read", "write"},
         NEW v \in Values \cup {Failed}, NEW stage \in {"handling", "handled"},
         by = Accessory => kind = "write" /\ stage = "handling",
         Begin(by, kind, v, stage), statusCode' \in {"SUCCESS", "error"}
  PROVE  ValueIInv'
<1> DEFINE new == [by |-> by, kind |-> kind, value |-> v, old |-> value, stage |-> stage]
<1>0. TypeOK /\ WritesCallBack /\ ListenersAreTold
  BY DEF ValueIInv
<1>1. new \in Request
  BY <1>0 DEF Request, Controllers, TypeOK
<1>2. /\ started \in Nat /\ started' = started + 1 /\ started' \in 0..MaxRequests
      /\ request \in [1..started -> Request] /\ request' = Append(request, new)
      /\ NothingRuns
      /\ UNCHANGED <<value, changes, queued, known, told, updates>>
  BY <1>0, ValueAssumption DEF TypeOK, Begin, controllers
<1>3. /\ request' \in [1..started' -> Request]
      /\ request'[started'] = new
      /\ \A q \in 1..started : request'[q] = request[q]
  <2> HIDE DEF new
  <2>1. Len(request) = started /\ request \in Seq(Request)
    BY <1>2
  <2>2. /\ request' \in Seq(Request) /\ Len(request') = started + 1
        /\ request'[started + 1] = new
        /\ \A q \in 1..started : request'[q] = request[q]
    BY <1>1, <1>2, <2>1, AppendProperties
  <2>3. request' \in [1..Len(request') -> Request]
    BY <2>2
  <2> QED
    BY <1>2, <2>2, <2>3
<1>4. TypeOK'
  BY <1>0, <1>2, <1>3 DEF TypeOK
<1>5. \A q \in 1..started : ~Runs(q)'
  BY <1>2, <1>3 DEF Runs, NothingRuns, Handler
<1>6. \A q \in 1..started' : q = started' \/ q \in 1..started
  BY <1>2
<1>7. WritesCallBack'
  <2>1. \A q \in 1..started' : request'[q].by \notin Listeners
    BY <1>0, <1>3, <1>6, ValueAssumption DEF WritesCallBack
  <2>2. \A q, p \in 1..started' : Runs(q)' /\ Runs(p)' => q = p
    BY <1>5, <1>6
  <2>3. ASSUME NEW q \in 1..started', request'[q].kind = "write", request'[q].stage \in {"handling", "late"}
        PROVE  Runs(q)' /\ request'[q].old = value'
    <3>1. q \notin 1..started
      BY <1>0, <1>2, <1>3, <2>3 DEF WritesCallBack, NothingRuns
    <3>2. request'[q] = new
      BY <1>3, <1>6, <3>1
    <3>3. new.kind = "write" /\ new.stage = "handling" /\ new.old = value
      BY <2>3, <3>2
    <3> HIDE DEF new
    <3> QED
      BY <1>2, <3>2, <3>3 DEF Runs, Handler
  <2> QED
    BY <2>1, <2>2, <2>3 DEF WritesCallBack
<1>8. ListenersAreTold'
  BY <1>0, <1>2 DEF ListenersAreTold, EveryChangeTold
<1> QED
  BY <1>4, <1>7, <1>8 DEF ValueIInv

\* The types of what Store and Change write.
LEMMA StoreTypes ==
  ASSUME TypeOK, NEW v \in Values, Store(v),
         NEW old, NEW originator, NEW forced, Change(old, v, originator, forced)
  PROVE  /\ value' \in Values /\ statusCode' \in {"SUCCESS", "error"} /\ changes' \in Seq(Values)
         /\ queued' \in [Controllers -> Seq(Values)]
<1>1. \A q \in Seq(Values) : Queue(q, v) \in Seq(Values)
  BY DEF Queue
<1>2. queued' \in [Controllers -> Seq(Values)]
  BY <1>1 DEF TypeOK, Change, BroadcastEvent
<1> QED
  BY <1>2 DEF TypeOK, Store

\* When nothing runs, no write is in progress, whatever the value becomes.
LEMMA QuietStays ==
  ASSUME WritesCallBack, NothingRuns, UNCHANGED <<request, started>>
  PROVE  WritesCallBack'
BY DEF WritesCallBack, NothingRuns, Runs, Handler

\* A handler that is done stores its value, and the listeners are told.
LEMMA SucceedPreserves ==
  ASSUME ValueIInv, SetHandler = "sync", NEW r \in 1..started, NEW v \in Values, Succeed(r, v)
  PROVE  ValueIInv'
<1>0. TypeOK /\ WritesCallBack /\ ListenersAreTold
  BY DEF ValueIInv
<1>1. /\ request[r].stage \in {"handling", "late"} /\ (Runs(r) \/ NothingRuns)
      /\ Store(v) /\ Change(OldValue(request[r]), v, request[r].by, FALSE)
      /\ UNCHANGED <<known, told, started, updates>>
  BY DEF Succeed
<1>2. OldValue(request[r]) = value
  BY <1>0, <1>1 DEF OldValue, WritesCallBack
<1>3. request[r] \in Request /\ request[r].by \in Requesters \cup {Accessory}
  BY <1>0 DEF TypeOK, WritesCallBack, Request, Controllers
<1>4. ListenersAreTold'
  <2>1. PICK b \in BOOLEAN : b = FALSE
    OBVIOUS
  <2>2. PICK by \in Requesters \cup {Accessory} : by = request[r].by
    BY <1>3
  <2>3. Change(value, v, by, b)
    BY <1>1, <1>2, <2>1, <2>2
  <2>4. known' = known /\ told' = told
    BY <1>1
  <2> QED
    BY <1>0, <1>1, <2>3, <2>4, StoredIsTold
<1> DEFINE new == [request[r] EXCEPT !.value = v, !.stage = Handled(r)]
<1>5. request' = [request EXCEPT ![r] = new]
  BY <1>0 DEF Succeed, TypeOK
<1>6. Handled(r) \in {"handled", "over"} /\ (request[r].by = Accessory => Handled(r) = "over")
  BY DEF Handled
<1>7. /\ new \in Request
      /\ new.by = request[r].by /\ new.kind = request[r].kind /\ new.old = request[r].old
      /\ new.stage = Handled(r)
  <2>1. PICK st \in {"late", "handled", "over"} : st = Handled(r)
    BY <1>6
  <2>2. PICK w \in Values \cup {Failed} : w = v
    OBVIOUS
  <2>3. PICK q \in Request : q = request[r]
    BY <1>3
  <2>4. q.by = Accessory => st = "over"
    BY <1>6, <2>1, <2>3
  <2>5. PICK n : n = new
    OBVIOUS
  <2>6. Restaged(n, q, w, st)
    BY <2>1, <2>2, <2>3, <2>5 DEF Restaged
  <2>7. /\ n \in Request /\ n.by = q.by /\ n.kind = q.kind /\ n.old = q.old /\ n.stage = st
    BY <2>4, <2>6, RequestUpdate
  <2> HIDE DEF new
  <2> QED
    BY <2>1, <2>3, <2>5, <2>7
<1>8. WritesCallBack' /\ request' \in [1..started' -> Request]
  <2> HIDE DEF new
  <2>1. PICK n \in Request : n = new
    BY <1>7
  <2>2. n.by = request[r].by /\ n.kind = request[r].kind /\ n.old = request[r].old /\ n.stage \in {"handled", "over"}
    BY <1>6, <1>7, <2>1
  <2>3. request' = [request EXCEPT ![r] = n]
    BY <1>5, <2>1
  <2> QED
    BY <1>0, <1>1, <2>2, <2>3, StageChanges
<1>9. TypeOK'
  <2>1. /\ value' \in Values /\ statusCode' \in {"SUCCESS", "error"} /\ changes' \in Seq(Values)
        /\ queued' \in [Controllers -> Seq(Values)]
    BY <1>0, <1>1, StoreTypes
  <2> QED
    BY <1>0, <1>1, <1>8, <2>1 DEF TypeOK
<1> QED
  BY <1>4, <1>8, <1>9 DEF ValueIInv

\* A step that changes the stage of one request, and neither the value nor what listeners are told.
LEMMA StageStep ==
  ASSUME ValueIInv, NEW r \in 1..started, NEW v \in Values \cup {Failed},
         NEW stage \in {"late", "handled", "over"}, SetHandler = "sync",
         request[r].by = Accessory => stage = "over",
         stage = "late" => request[r].kind = "read",
         NEW new, Restaged(new, request[r], v, stage),
         request' = [request EXCEPT ![r] = new],
         statusCode' \in {"SUCCESS", "error"}, known' \in [Controllers -> Values],
         \A c \in Listeners : known'[c] = known[c],
         UNCHANGED <<value, changes, queued, told, started, updates>>
  PROVE  ValueIInv'
<1>0. TypeOK /\ WritesCallBack /\ ListenersAreTold
  BY DEF ValueIInv
<1>1. /\ new \in Request /\ new.by = request[r].by /\ new.kind = request[r].kind
      /\ new.old = request[r].old /\ new.stage = stage
  <2>1. PICK q \in Request : q = request[r]
    BY <1>0 DEF TypeOK
  <2>2. Restaged(new, q, v, stage) /\ (q.by = Accessory => stage = "over")
    BY <2>1
  <2>3. /\ new \in Request /\ new.by = q.by /\ new.kind = q.kind /\ new.old = q.old /\ new.stage = stage
    BY <2>2, RequestUpdate
  <2> QED
    BY <2>1, <2>3
<1>2. WritesCallBack' /\ request' \in [1..started' -> Request]
  <2>1. PICK n \in Request : n = new
    BY <1>1
  <2>2. /\ n.by = request[r].by /\ n.kind = request[r].kind /\ n.old = request[r].old
        /\ n.stage \in {"late", "handled", "over"} /\ (n.stage = "late" => n.kind = "read")
    BY <1>1, <2>1
  <2>3. request' = [request EXCEPT ![r] = n] /\ started' = started /\ value' = value
    BY <2>1
  <2> QED
    BY ONLY <1>0, <2>2, <2>3, SetHandler = "sync", StageChanges
<1>3. TypeOK'
  BY <1>0, <1>2 DEF TypeOK
<1>4. ListenersAreTold'
  BY <1>0 DEF ListenersAreTold, EveryChangeTold
<1> QED
  BY <1>2, <1>3, <1>4 DEF ValueIInv

\* The plugin updates the value, or sends an event for it.
LEMMA UpdatePreserves ==
  ASSUME ValueIInv, NEW v \in Values, UpdateValue(v) \/ SendEventNotification(v)
  PROVE  ValueIInv'
<1>0. TypeOK /\ WritesCallBack /\ ListenersAreTold
  BY DEF ValueIInv
<1>1. /\ NothingRuns /\ updates < MaxUpdates /\ updates' = updates + 1
      /\ Store(v) /\ known' = known /\ told' = told /\ request' = request /\ started' = started
  BY DEF UpdateValue, SendEventNotification, Counted, requests
<1>2. PICK forced \in BOOLEAN : Change(value, v, Accessory, forced)
  BY DEF UpdateValue, SendEventNotification
<1>3. ListenersAreTold'
  <2>1. PICK by \in Requesters \cup {Accessory} : by = Accessory
    OBVIOUS
  <2>2. Change(value, v, by, forced)
    BY <1>2, <2>1
  <2> QED
    BY <1>0, <1>1, <2>2, StoredIsTold
<1>4. WritesCallBack'
  BY <1>0, <1>1, QuietStays
<1>5. /\ value' \in Values /\ statusCode' \in {"SUCCESS", "error"} /\ changes' \in Seq(Values)
      /\ queued' \in [Controllers -> Seq(Values)]
  BY <1>0, <1>1, <1>2, StoreTypes
<1>6. TypeOK'
  BY <1>0, <1>1, <1>5, ValueAssumption DEF TypeOK
<1> QED
  BY <1>3, <1>4, <1>6 DEF ValueIInv

\* A connection delivers what is queued.
LEMMA DeliverPreserves ==
  ASSUME ValueIInv, NEW c \in Controllers, Deliver(c)
  PROVE  ValueIInv'
<1>0. TypeOK /\ WritesCallBack /\ ListenersAreTold
  BY DEF ValueIInv
<1>1. /\ NothingRuns /\ queued[c] \in Seq(Values) /\ queued[c] # <<>> /\ told[c] \in Seq(Values)
      /\ queued' = [queued EXCEPT ![c] = <<>>]
      /\ known' = [known EXCEPT ![c] = Last(queued[c])]
      /\ told' = [told EXCEPT ![c] = told[c] \o queued[c]]
      /\ UNCHANGED <<value, statusCode, changes, request, started, updates>>
  BY <1>0 DEF Deliver, TypeOK, characteristic, requests
<1>2. /\ told[c] \o queued[c] \in Seq(Values) /\ told[c] \o queued[c] # <<>>
      /\ Last(told[c] \o queued[c]) = Last(queued[c]) /\ Last(queued[c]) \in Values
      /\ (told[c] \o queued[c]) \o <<>> = told[c] \o queued[c]
  <2>1. ASSUME NEW t \in Seq(Values), NEW q \in Seq(Values), q # <<>>
        PROVE  /\ t \o q \in Seq(Values) /\ t \o q # <<>>
               /\ Last(t \o q) = Last(q) /\ Last(q) \in Values
               /\ (t \o q) \o <<>> = t \o q
    <3>1. Len(q) \in Nat \ {0} /\ Len(t) \in Nat
      BY <2>1, EmptySeq
    <3>2. /\ t \o q \in Seq(Values) /\ Len(t \o q) = Len(t) + Len(q)
          /\ \A i \in 1..Len(t) + Len(q) : (t \o q)[i] = IF i <= Len(t) THEN t[i] ELSE q[i - Len(t)]
      BY ConcatProperties
    <3>3. (t \o q)[Len(t) + Len(q)] = q[Len(q)]
      BY <3>1, <3>2
    <3>4. q[Len(q)] \in Values
      BY <3>1, ElementOfSeq
    <3>5. t \o q # <<>>
      BY <3>1, <3>2
    <3> QED
      BY <3>2, <3>3, <3>4, <3>5, ConcatEmptySeq DEF Last
  <2> QED
    BY <1>1, <2>1
<1>3. TypeOK'
  <2>1. <<>> \in Seq(Values)
    OBVIOUS
  <2> QED
    BY <1>0, <1>1, <1>2, <2>1 DEF TypeOK
<1>4. WritesCallBack'
  BY <1>0, <1>1, QuietStays
<1>5. ASSUME NEW d \in Listeners
      PROVE  /\ told'[d] # <<>> /\ Last(told'[d]) = known'[d]
             /\ told'[d] \o queued'[d] = told[d] \o queued[d]
  <2>0. d \in Controllers /\ told[d] # <<>> /\ Last(told[d]) = known[d]
    BY <1>0 DEF Controllers, ListenersAreTold
  <2>1. CASE d = c
    <3>1. told'[d] = told[c] \o queued[c] /\ queued'[d] = <<>> /\ known'[d] = Last(queued[c])
      BY <1>0, <1>1, <2>1 DEF TypeOK
    <3> QED
      BY <1>2, <2>1, <3>1
  <2>2. CASE d # c
    <3>1. told'[d] = told[d] /\ queued'[d] = queued[d] /\ known'[d] = known[d]
      BY <1>0, <1>1, <2>0, <2>2 DEF TypeOK
    <3> QED
      BY <2>0, <3>1
  <2> QED
    BY <2>1, <2>2
<1>6. ListenersAreTold'
  BY <1>0, <1>1, <1>5 DEF ListenersAreTold, EveryChangeTold
<1> QED
  BY <1>3, <1>4, <1>6 DEF ValueIInv

\* Every step preserves the invariant.
LEMMA ValuePreserved ==
  ASSUME SetHandler = "sync", ValueIInv, [Next]_vars
  PROVE  ValueIInv'
<1>0. TypeOK /\ WritesCallBack /\ ListenersAreTold
  BY DEF ValueIInv
<1>1. CASE \E v \in Values : UpdateValue(v) \/ SendEventNotification(v)
  BY <1>1, UpdatePreserves
<1>2. CASE UpdateError
  <2>1. /\ NothingRuns /\ updates < MaxUpdates /\ updates' = updates + 1 /\ statusCode' = "error"
        /\ UNCHANGED <<value, changes, queued, known, told, request, started>>
    BY <1>2 DEF UpdateError, Counted, controllers, requests
  <2>2. TypeOK'
    BY <1>0, <2>1, ValueAssumption DEF TypeOK
  <2>3. WritesCallBack'
    BY <1>0, <2>1, QuietStays
  <2>4. ListenersAreTold'
    BY <1>0, <2>1 DEF ListenersAreTold, EveryChangeTold
  <2> QED
    BY <2>2, <2>3, <2>4 DEF ValueIInv
<1>3. CASE \E by \in Requesters \cup {Accessory}, v \in Values : Write(by, v)
  <2>1. PICK by \in Requesters \cup {Accessory}, v \in Values : Write(by, v)
    BY <1>3
  <2>2. PICK kind \in {"read", "write"}, stage \in {"handling", "handled"} : kind = "write" /\ stage = "handling"
    OBVIOUS
  <2>3. PICK w \in Values \cup {Failed} : w = v
    OBVIOUS
  <2>4. Begin(by, kind, w, stage) /\ statusCode' \in {"SUCCESS", "error"}
    BY <2>1, <2>2, <2>3 DEF Write
  <2> QED
    BY <2>2, <2>4, BeginPreserves
<1>4. CASE \E c \in Requesters : Read(c) \/ WriteInvalid(c)
  <2>1. PICK c \in Requesters : Read(c) \/ WriteInvalid(c)
    BY <1>4
  <2>2. c # Accessory
    BY ValueAssumption
  <2>3. value \in Values \cup {Failed} /\ Failed \in Values \cup {Failed}
    BY <1>0 DEF TypeOK
  <2>4. \E kind \in {"read", "write"}, w \in Values \cup {Failed}, stage \in {"handling", "handled"} :
          Begin(c, kind, w, stage)
    BY <2>1, <2>3 DEF Read, WriteInvalid
  <2>5. PICK kind \in {"read", "write"}, w \in Values \cup {Failed}, stage \in {"handling", "handled"} :
          Begin(c, kind, w, stage)
    BY <2>4
  <2>6. PICK by \in Requesters \cup {Accessory} : by = c
    OBVIOUS
  <2>7. Begin(by, kind, w, stage) /\ by # Accessory
    BY <2>2, <2>5, <2>6
  <2>8. statusCode' \in {"SUCCESS", "error"}
    BY <1>0, <2>1 DEF Read, WriteInvalid, TypeOK
  <2> QED
    BY <2>7, <2>8, BeginPreserves
<1>5. ASSUME NEW r \in 1..started, NEW v \in Values, Succeed(r, v)
      PROVE  ValueIInv'
  BY <1>5, SucceedPreserves
<1>6. ASSUME NEW r \in 1..started, Fail(r)
      PROVE  ValueIInv'
  <2>1. PICK w \in Values \cup {Failed} : w = Failed
    OBVIOUS
  <2>2. PICK stage \in {"late", "handled", "over"} : stage = Handled(r) /\ stage # "late"
    BY DEF Handled
  <2>3. request[r].by = Accessory => stage = "over"
    BY <2>2 DEF Handled
  <2>4. PICK new : new = [request[r] EXCEPT !.value = w, !.stage = stage] /\ Restaged(new, request[r], w, stage)
    BY DEF Restaged
  <2>5. request' = [request EXCEPT ![r] = new]
    BY <1>0, <1>6, <2>1, <2>2, <2>4 DEF Fail, TypeOK
  <2>6. /\ statusCode' \in {"SUCCESS", "error"} /\ known' \in [Controllers -> Values] /\ known' = known
        /\ UNCHANGED <<value, changes, queued, told, started, updates>>
    BY <1>0, <1>6 DEF Fail, controllers, TypeOK
  <2> QED
    BY <2>2, <2>3, <2>4, <2>5, <2>6, StageStep
<1>7. ASSUME NEW r \in 1..started, TimeOut(r)
      PROVE  ValueIInv'
  <2>1. PICK w \in Values \cup {Failed} : w = Failed
    OBVIOUS
  <2>2. PICK stage \in {"late", "handled", "over"} : stage = "late"
    OBVIOUS
  <2>3. request[r].by # Accessory /\ request[r].kind = "read"
    BY <1>0, <1>7 DEF TimeOut, NothingRuns, WritesCallBack, TypeOK, Request
  <2>4. PICK new : new = [request[r] EXCEPT !.stage = stage] /\ Restaged(new, request[r], w, stage)
    BY DEF Restaged
  <2>5. request' = [request EXCEPT ![r] = new]
    BY <1>0, <1>7, <2>2, <2>4 DEF TimeOut, TypeOK
  <2>6. /\ statusCode' \in {"SUCCESS", "error"} /\ known' \in [Controllers -> Values] /\ known' = known
        /\ UNCHANGED <<value, changes, queued, told, started, updates>>
    BY <1>0, <1>7 DEF TimeOut, controllers, characteristic, TypeOK
  <2> QED
    BY <2>2, <2>3, <2>4, <2>5, <2>6, StageStep
<1>8. ASSUME NEW r \in 1..started, Answer(r)
      PROVE  ValueIInv'
  <2>1. PICK w \in Values \cup {Failed} : w = Failed
    OBVIOUS
  <2>2. PICK stage \in {"late", "handled", "over"} : stage = "over"
    OBVIOUS
  <2>3. PICK new : new = [request[r] EXCEPT !.stage = stage] /\ Restaged(new, request[r], w, stage)
    BY DEF Restaged
  <2>4. request' = [request EXCEPT ![r] = new]
    BY <1>0, <1>8, <2>2, <2>3 DEF Answer, TypeOK
  <2>5. request[r] \in Request /\ request[r].by \notin Listeners
    BY <1>0 DEF TypeOK, WritesCallBack
  <2>6. /\ known' \in [Controllers -> Values]
        /\ \A c \in Listeners : known'[c] = known[c]
    BY <1>0, <1>8, <2>5 DEF Answer, TypeOK, Request
  <2>7. /\ statusCode' \in {"SUCCESS", "error"}
        /\ UNCHANGED <<value, changes, queued, told, started, updates>>
    BY <1>0, <1>8 DEF Answer, characteristic, TypeOK
  <2> QED
    BY <2>2, <2>3, <2>4, <2>6, <2>7, StageStep
<1>9. CASE \E c \in Controllers : Deliver(c)
  BY <1>9, DeliverPreserves
<1>10. CASE UNCHANGED vars
  <2>1. UNCHANGED <<value, statusCode, changes, queued, known, told, request, started, updates>>
    BY <1>10 DEF vars, characteristic, controllers, requests
  <2>2. TypeOK'
    BY <1>0, <2>1 DEF TypeOK
  <2>3. WritesCallBack'
    BY <1>0, <2>1 DEF WritesCallBack, Runs, Handler
  <2>4. ListenersAreTold'
    BY <1>0, <2>1 DEF ListenersAreTold, EveryChangeTold
  <2> QED
    BY <2>2, <2>3, <2>4 DEF ValueIInv
<1> QED
  BY <1>1, <1>2, <1>3, <1>4, <1>5, <1>6, <1>7, <1>8, <1>9, <1>10 DEF Next

\* Characteristic.setValue, updateValue, sendEventNotification and the requests of controllers: with
\* a set handler that calls back at once a listener gets every value the characteristic takes, in
\* order, and ends with the current one, for any controllers, values and bounds.
THEOREM ValuesAlwaysReachListeners ==
  ASSUME SetHandler = "sync"
  PROVE  Spec => []ValuesReachListeners
<1>1. Init => ValueIInv
  BY ValueInit
<1>2. ValueIInv /\ [Next]_vars => ValueIInv'
  BY ValuePreserved
<1>3. ValueIInv => ValuesReachListeners
  <2> SUFFICES ASSUME ValueIInv PROVE ValuesReachListeners
    OBVIOUS
  <2>1. TypeOK /\ ListenersAreTold
    BY DEF ValueIInv
  <2>2. ListenersUpToDate
    BY <2>1, EndsWithValue DEF ListenersUpToDate
  <2> QED
    BY <2>1, <2>2 DEF ValuesReachListeners, ListenersAreTold
<1> QED
  BY <1>1, <1>2, <1>3, PTL DEF Spec

-----------------------------------------------------------------------------
(***************************************************************************)
(* CharacteristicProps: options and grids.  A field that may be absent is  *)
(* an option; what validateUserInput does to a number is to round it to a  *)
(* grid and to move it between bounds that lie on it.                      *)
(***************************************************************************)

\* An option that is given is the one element it has.
LEMMA TheOption ==
  ASSUME NEW S, NEW o, Optional(o, S), o # {}
  PROVE  The(o) \in S /\ o = {The(o)}
<1>1. PICK x : x \in o
  OBVIOUS
<1>2. The(o) \in o
  BY <1>1 DEF The
<1> QED
  BY <1>2 DEF Optional

\* The greater and the lesser of two numbers, one of which may be absent.
LEMMA GreatestOfOption ==
  ASSUME NEW o, Optional(o, Int), NEW x \in Int
  PROVE  /\ Greatest(o \cup {x}) \in Int /\ Greatest(o \cup {x}) >= x
         /\ \A y \in o : Greatest(o \cup {x}) >= y
         /\ Greatest(o \cup {x}) \in o \cup {x}
<1>1. \E y \in o \cup {x} : \A z \in o \cup {x} : y >= z
  <2>1. CASE o = {}
    BY <2>1
  <2>2. CASE o # {}
    <3>1. PICK a \in Int : o = {a}
      BY <2>2, TheOption
    <3>2. CASE a >= x
      BY <3>1, <3>2
    <3>3. CASE x >= a
      BY <3>1, <3>3
    <3> QED
      BY <3>2, <3>3
  <2> QED
    BY <2>1, <2>2
<1>2. Greatest(o \cup {x}) \in o \cup {x} /\ \A z \in o \cup {x} : Greatest(o \cup {x}) >= z
  BY <1>1 DEF Greatest
<1> QED
  BY <1>2 DEF Optional

\* And the lesser.
LEMMA LeastOfOption ==
  ASSUME NEW o, Optional(o, Int), NEW x \in Int
  PROVE  /\ Least(o \cup {x}) \in Int /\ Least(o \cup {x}) <= x
         /\ \A y \in o : Least(o \cup {x}) <= y
         /\ Least(o \cup {x}) \in o \cup {x}
<1>1. \E y \in o \cup {x} : \A z \in o \cup {x} : y <= z
  <2>1. CASE o = {}
    BY <2>1
  <2>2. CASE o # {}
    <3>1. PICK a \in Int : o = {a}
      BY <2>2, TheOption
    <3>2. CASE a <= x
      BY <3>1, <3>2
    <3>3. CASE x <= a
      BY <3>1, <3>3
    <3> QED
      BY <3>2, <3>3
  <2> QED
    BY <2>1, <2>2
<1>2. Least(o \cup {x}) \in o \cup {x} /\ \A z \in o \cup {x} : Least(o \cup {x}) <= z
  BY <1>1 DEF Least
<1> QED
  BY <1>2 DEF Optional

\* Of two numbers.
LEMMA GreatestOfTwo ==
  ASSUME NEW x \in Int, NEW y \in Int
  PROVE  Greatest({x, y}) = IF x >= y THEN x ELSE y
<1>1. \E u \in {x, y} : \A z \in {x, y} : u >= z
  OBVIOUS
<1>2. Greatest({x, y}) \in {x, y} /\ \A z \in {x, y} : Greatest({x, y}) >= z
  BY <1>1 DEF Greatest
<1> QED
  BY <1>2

\* And the lesser of two.
LEMMA LeastOfTwo ==
  ASSUME NEW x \in Int, NEW y \in Int
  PROVE  Least({x, y}) = IF x <= y THEN x ELSE y
<1>1. \E u \in {x, y} : \A z \in {x, y} : u <= z
  OBVIOUS
<1>2. Least({x, y}) \in {x, y} /\ \A z \in {x, y} : Least({x, y}) <= z
  BY <1>1 DEF Least
<1> QED
  BY <1>2

\* The numbers that lie on a grid.
OfGrid(step, base, n) == (n - base) % step = 0

\* What lies on a grid is a number of steps from its base.
LEMMA GridPoint ==
  ASSUME NEW step \in Nat, step > 0, NEW base \in Int, NEW n \in Int, OfGrid(step, base, n)
  PROVE  \E q \in Int : n - base = step * q
<1>1. PICK a \in Int : a = n - base
  OBVIOUS
<1>2. a % step = 0
  BY <1>1 DEF OfGrid
<1>3. a \div step \in Int /\ a = step * (a \div step)
  BY <1>2
<1> QED
  BY <1>1, <1>3

\* And the other way round.
LEMMA PointOfGrid ==
  ASSUME NEW step \in Nat, step > 0, NEW base \in Int, NEW n \in Int, NEW q \in Int, n - base = step * q
  PROVE  OfGrid(step, base, n)
<1>1. (step * q) % step = 0
  OBVIOUS
<1> QED
  BY <1>1 DEF OfGrid

\* Rounding to a grid ends on it and leaves what lies on it.
LEMMA RoundsOntoGrid ==
  ASSUME NEW step \in Nat, step > 0, NEW base \in Int, NEW n \in Int
  PROVE  /\ RoundTo(step, base, n) \in Int
         /\ OfGrid(step, base, RoundTo(step, base, n))
         /\ OfGrid(step, base, n) => RoundTo(step, base, n) = n
<1>1. PICK q \in Int : q = (2 * (n - base) + step) \div (2 * step)
  OBVIOUS
<1>2. PICK m \in Int : m = step * q
  OBVIOUS
<1>3. RoundTo(step, base, n) = m + base
  BY <1>1, <1>2 DEF RoundTo
<1>4. OfGrid(step, base, m + base)
  <2>1. PICK x \in Int : x = m + base
    OBVIOUS
  <2>2. x - base = step * q
    BY <2>1, <1>2
  <2> QED
    BY <2>1, <2>2, PointOfGrid
<1>5. ASSUME OfGrid(step, base, n)
      PROVE  m + base = n
  <2>1. PICK d \in Int : n - base = step * d
    BY <1>5, GridPoint
  <2>2. q = (2 * (step * d) + step) \div (2 * step)
    BY <1>1, <2>1
  <2>3. q = d
    BY <2>2
  <2> QED
    BY <2>1, <2>3, <1>2
<1> QED
  BY <1>3, <1>4, <1>5

\* Rounding keeps the order.
LEMMA RoundsInOrder ==
  ASSUME NEW step \in Nat, step > 0, NEW base \in Int, NEW n \in Int, NEW m \in Int, n <= m
  PROVE  RoundTo(step, base, n) <= RoundTo(step, base, m)
<1>1. PICK w \in Nat : w = 2 * step /\ w > 0
  OBVIOUS
<1>2. PICK a \in Int, b \in Int : a = 2 * (n - base) + step /\ b = 2 * (m - base) + step /\ a <= b
  OBVIOUS
<1>3. a \div w <= b \div w
  BY <1>1, <1>2
<1>4. PICK c \in Int, d \in Int : c = a \div w /\ d = b \div w /\ c <= d
  BY <1>1, <1>3
<1>5. step * c <= step * d
  BY <1>4
<1> QED
  BY <1>1, <1>2, <1>4, <1>5 DEF RoundTo

\* Cutting to a grid ends on it, not above, and leaves what lies on it.
LEMMA CutsOntoGrid ==
  ASSUME NEW step \in Nat, step > 0, NEW base \in Int, NEW n \in Int
  PROVE  /\ FloorTo(step, base, n) \in Int /\ FloorTo(step, base, n) <= n
         /\ OfGrid(step, base, FloorTo(step, base, n))
         /\ OfGrid(step, base, n) => FloorTo(step, base, n) = n
<1>1. PICK a \in Int : a = n - base
  OBVIOUS
<1>2. PICK q \in Int : q = a \div step
  OBVIOUS
<1>3. step * q <= a
  BY <1>2
<1>4. PICK m \in Int : m = step * q
  OBVIOUS
<1>5. FloorTo(step, base, n) = m + base
  BY <1>1, <1>2, <1>4 DEF FloorTo
<1>6. OfGrid(step, base, m + base)
  <2>1. PICK x \in Int : x = m + base
    OBVIOUS
  <2>2. x - base = step * q
    BY <2>1, <1>4
  <2> QED
    BY <2>1, <2>2, PointOfGrid
<1>7. ASSUME OfGrid(step, base, n)
      PROVE  m + base = n
  <2>1. PICK d \in Int : a = step * d
    BY <1>7, <1>1, GridPoint
  <2>2. q = d
    BY <2>1, <1>2
  <2> QED
    BY <2>1, <2>2, <1>1, <1>4
<1> QED
  BY <1>1, <1>3, <1>4, <1>5, <1>6, <1>7

\* What the fields of the props are.
PropsTyped(p) ==
  /\ p \in [minValue : SUBSET Int, maxValue : SUBSET Int, minStep : SUBSET Int, maxLen : SUBSET Nat,
            maxDataLen : SUBSET Nat, validValues : SUBSET Seq(Int), validValueRanges : SUBSET Seq(Int)]
  /\ Optional(p.minValue, Int) /\ Optional(p.maxValue, Int)
  /\ Optional(p.minStep, {step \in Nat : step > 0 /\ (step < One => One % step = 0)})
  /\ Optional(p.maxLen, Nat) /\ Optional(p.maxDataLen, Nat)
  /\ Optional(p.validValues, Seq(Int) \ {<<>>})
  /\ Optional(p.validValueRanges, {range \in Seq(Int) : Len(range) = 2})

\* An option of fewer values is one of more.
LEMMA OptionWithin ==
  ASSUME NEW S, NEW T, S \subseteq T, NEW o, Optional(o, S)
  PROVE  Optional(o, T)
BY DEF Optional

\* What the constants bound.
LEMMA BoundTypes ==
  ASSUME NEW f, NEW p, PropsTyped(p)
  PROVE  /\ LowerBound(f) \in Int /\ UpperBound(f) \in Int /\ Base(p) \in Int
         /\ NumericMin(f, p) \in Int /\ NumericMax(f, p) \in Int
<1>1. IntBound \in Int /\ FloatBound \in Int /\ UintBound \in Int /\ One \in Int
  BY PropsAssumption
<1>2. LowerBound(f) \in Int /\ UpperBound(f) \in Int
  BY <1>1 DEF LowerBound, UpperBound
<1>3. Base(p) \in Int
  <2>1. CASE p.minValue = {}
    BY <2>1 DEF Base, Else
  <2>2. CASE p.minValue # {}
    <3>1. The(p.minValue) \in Int
      BY <2>2, TheOption DEF PropsTyped
    <3> QED
      BY <2>2, <3>1 DEF Base, Else
  <2> QED
    BY <2>1, <2>2
<1>4. PICK lower \in Int, upper \in Int : lower = LowerBound(f) /\ upper = UpperBound(f)
  BY <1>2
<1>5. Greatest(p.minValue \cup {lower}) \in Int /\ Least(p.maxValue \cup {upper}) \in Int
  BY GreatestOfOption, LeastOfOption DEF PropsTyped
<1> QED
  BY <1>2, <1>3, <1>4, <1>5 DEF NumericMin, NumericMax

\* The step of a format is there or not; it is positive, and one below 1 is the minimal step.
LEMMA StepTypes ==
  ASSUME NEW f, NEW p, PropsTyped(p)
  PROVE  Optional(Step(f, p), {step \in Nat : step > 0})
<1>1. CASE IsInteger(f)
  <2>1. One \in Int /\ One > 0
    BY PropsAssumption
  <2>2. Optional(p.minStep, Int)
    BY OptionWithin DEF PropsTyped, Optional
  <2>3. PICK g : g = Greatest(p.minStep \cup {One})
    OBVIOUS
  <2>4. g \in Int /\ g >= One
    BY <2>1, <2>2, <2>3, GreatestOfOption
  <2>5. Step(f, p) = {g}
    BY <1>1, <2>3 DEF Step
  <2> QED
    BY <2>1, <2>4, <2>5 DEF Optional
<1>2. CASE ~ IsInteger(f)
  BY <1>2 DEF Step, PropsTyped, Optional
<1> QED
  BY <1>1, <1>2

\* OnGrid, in terms of the one step there may be.
LEMMA OnGridOfStep ==
  ASSUME NEW f, NEW p, NEW n
  PROVE  OnGrid(f, p, n) <=> \A step \in Step(f, p) : OfGrid(step, Base(p), n)
BY DEF OnGrid, OfGrid

(***************************************************************************)
(* The repair of a number: between the bounds and on the grid.             *)
(***************************************************************************)
LEMMA BetweenTheBounds ==
  ASSUME NEW f, NEW p, PropsTyped(p), NEW n \in Int
  PROVE  /\ BetweenBounds(f, p, OntoGrid(f, p, n)) \in Int
         /\ Consistent(f, p) /\ Aligned(f, p) =>
              /\ BetweenBounds(f, p, OntoGrid(f, p, n)) \in NumericMin(f, p) .. NumericMax(f, p)
              /\ OnGrid(f, p, BetweenBounds(f, p, OntoGrid(f, p, n)))
              /\ n \in NumericMin(f, p) .. NumericMax(f, p) /\ OnGrid(f, p, n)
                   => BetweenBounds(f, p, OntoGrid(f, p, n)) = n
<1>1. PICK lo \in Int, hi \in Int, base \in Int :
        lo = NumericMin(f, p) /\ hi = NumericMax(f, p) /\ base = Base(p)
  BY BoundTypes
<1>2. PICK onto : onto = OntoGrid(f, p, n)
  OBVIOUS
<1>3. PICK last : last = LastOfGrid(f, p)
  OBVIOUS
<1>4. /\ onto \in Int /\ last \in Int /\ last <= hi
      /\ OnGrid(f, p, onto) /\ (OnGrid(f, p, n) => onto = n)
      /\ (OnGrid(f, p, hi) => last = hi)
  <2>1. CASE Step(f, p) = {}
    BY <2>1, <1>1, <1>2, <1>3 DEF OntoGrid, LastOfGrid, OnGrid
  <2>2. CASE Step(f, p) # {}
    <3>1. PICK step \in Nat : step > 0 /\ The(Step(f, p)) = step /\ Step(f, p) = {step}
      BY <2>2, StepTypes, TheOption
    <3>2. onto = RoundTo(step, base, n) /\ last = FloorTo(step, base, hi)
      BY <3>1, <2>2, <1>1, <1>2, <1>3 DEF OntoGrid, LastOfGrid
    <3>3. /\ onto \in Int /\ OfGrid(step, base, onto)
          /\ OfGrid(step, base, n) => onto = n
      BY <3>1, <3>2, RoundsOntoGrid
    <3>4. /\ last \in Int /\ last <= hi
          /\ OfGrid(step, base, hi) => last = hi
      BY <3>1, <3>2, CutsOntoGrid
    <3>5. \A x : OnGrid(f, p, x) <=> OfGrid(step, base, x)
      BY <3>1, <1>1 DEF OnGrid, OfGrid
    <3> QED
      BY <3>3, <3>4, <3>5
  <2> QED
    BY <2>1, <2>2
<1>5. PICK m \in Int : m = (IF lo >= onto THEN lo ELSE onto)
  BY <1>4
<1>6. Greatest({lo, onto}) = m
  BY <1>4, <1>5, GreatestOfTwo
<1>7. PICK k \in Int : k = (IF last <= m THEN last ELSE m)
  BY <1>4
<1>8. Least({last, m}) = k
  BY <1>4, <1>7, LeastOfTwo
<1>9. BetweenBounds(f, p, OntoGrid(f, p, n)) = k
  BY <1>1, <1>2, <1>3, <1>6, <1>8 DEF BetweenBounds
<1>10. ASSUME Consistent(f, p), Aligned(f, p)
       PROVE  /\ k \in lo .. hi /\ OnGrid(f, p, k)
              /\ n \in lo .. hi /\ OnGrid(f, p, n) => k = n
  <2>1. lo <= last
    BY <1>10, <1>1, <1>3 DEF Consistent
  <2>2. OnGrid(f, p, lo) /\ OnGrid(f, p, hi)
    BY <1>10, <1>1 DEF Aligned
  <2>3. last = hi
    BY <2>2, <1>4
  <2>4. k \in lo .. hi
    BY <2>1, <2>3, <1>5, <1>7, <1>4
  <2>5. k = lo \/ k = hi \/ k = onto
    BY <2>3, <1>5, <1>7
  <2>6. OnGrid(f, p, k)
    BY <2>2, <2>5, <1>4
  <2>7. ASSUME n \in lo .. hi, OnGrid(f, p, n)
        PROVE  k = n
    <3>1. onto = n
      BY <2>7, <1>4
    <3> QED
      BY <3>1, <2>7, <2>3, <1>5, <1>7
  <2> QED
    BY <2>4, <2>6, <2>7
<1> QED
  BY <1>1, <1>9, <1>10

\* The declarations of sound numbers.
SoundNumber(f, p) == Consistent(f, p) /\ Aligned(f, p)

\* A number that a controller may write and that lies on the grid.
Fits(f, p, n) == n \in Int /\ NumberAccepted(f, p, n) /\ OnGrid(f, p, n)

\* Every listed value fits.
LEMMA ListedFits ==
  ASSUME NEW f, NEW p, PropsTyped(p), SoundNumber(f, p), NEW valid \in p.validValues, NEW n \in ToSet(valid)
  PROVE  Fits(f, p, n)
<1>1. valid \in Seq(Int) /\ p.validValues = {valid}
  BY DEF PropsTyped, Optional
<1>2. n \in Int
  BY <1>1, ElementOfSeq DEF ToSet
<1>3. Contains(valid, n)
  BY <1>1 DEF Contains, ToSet
<1>4. OnGrid(f, p, n)
  BY DEF SoundNumber, Aligned
<1>5. /\ n \in NumericMin(f, p) .. NumericMax(f, p)
      /\ \A range \in p.validValueRanges : n \in range[1] .. range[2]
  BY DEF SoundNumber, Consistent
<1> QED
  BY <1>1, <1>2, <1>3, <1>4, <1>5 DEF Fits, NumberAccepted

\* The ends of a range lie on the grid, and the range meets the bounds.
LEMMA RangeEnds ==
  ASSUME NEW f, NEW p, PropsTyped(p), SoundNumber(f, p), NEW range \in p.validValueRanges
  PROVE  /\ range[1] \in Int /\ range[2] \in Int /\ range[1] <= range[2]
         /\ range[1] <= NumericMax(f, p) /\ range[2] >= NumericMin(f, p)
         /\ OnGrid(f, p, range[1]) /\ OnGrid(f, p, range[2])
         /\ p.validValueRanges = {range}
<1>1. range \in Seq(Int) /\ Len(range) = 2 /\ p.validValueRanges = {range}
  BY DEF PropsTyped, Optional
<1>2. 1 \in DOMAIN range /\ 2 \in DOMAIN range
  BY <1>1
<1>3. range[1] \in Int /\ range[2] \in Int
  BY <1>1, <1>2, ElementOfSeq
<1>4. range[1] \in ToSet(range) /\ range[2] \in ToSet(range)
  BY <1>2 DEF ToSet
<1>5. OnGrid(f, p, range[1]) /\ OnGrid(f, p, range[2])
  BY <1>4 DEF SoundNumber, Aligned
<1> QED
  BY <1>1, <1>3, <1>5 DEF SoundNumber, Consistent

\* Without listed values, a number between the bounds is moved into the range and fits then.
LEMMA IntoRangeFits ==
  ASSUME NEW f, NEW p, PropsTyped(p), SoundNumber(f, p), p.validValues = {},
         NEW n \in Int, n \in NumericMin(f, p) .. NumericMax(f, p), OnGrid(f, p, n)
  PROVE  Fits(f, p, IntoRange(p, n))
<1>1. PICK lo \in Int, hi \in Int : lo = NumericMin(f, p) /\ hi = NumericMax(f, p)
  BY BoundTypes
<1>2. CASE p.validValueRanges = {}
  BY <1>2 DEF IntoRange, Fits, NumberAccepted
<1>3. CASE p.validValueRanges # {}
  <2>1. PICK range \in p.validValueRanges : range = The(p.validValueRanges)
    BY <1>3, TheOption DEF PropsTyped, Optional
  <2>2. PICK a \in Int, b \in Int :
          /\ a = range[1] /\ b = range[2] /\ a <= b /\ a <= hi /\ b >= lo
          /\ OnGrid(f, p, a) /\ OnGrid(f, p, b)
    BY <1>1, RangeEnds
  <2>3. p.validValueRanges = {range}
    BY RangeEnds
  <2>4. PICK m : m = IntoRange(p, n)
    OBVIOUS
  <2>5. m = IF n < a THEN a ELSE IF n > b THEN b ELSE n
    BY <1>3, <2>1, <2>2, <2>4 DEF IntoRange
  <2>6. m \in Int /\ m \in lo .. hi /\ m \in a .. b
    BY <1>1, <2>2, <2>5
  <2>7. OnGrid(f, p, m)
    BY <2>2, <2>5
  <2>8. NumberAccepted(f, p, m)
    BY <1>1, <2>2, <2>3, <2>6 DEF NumberAccepted
  <2> QED
    BY <2>4, <2>6, <2>7, <2>8 DEF Fits
<1> QED
  BY <1>2, <1>3

\* What is within the range stays.
LEMMA IntoRangeStays ==
  ASSUME NEW f, NEW p, PropsTyped(p), SoundNumber(f, p), NEW n \in Int, NumberAccepted(f, p, n)
  PROVE  IntoRange(p, n) = n
<1>1. CASE p.validValueRanges = {}
  BY <1>1 DEF IntoRange
<1>2. CASE p.validValueRanges # {}
  <2>1. PICK range \in p.validValueRanges : range = The(p.validValueRanges)
    BY <1>2, TheOption DEF PropsTyped, Optional
  <2>2. PICK a \in Int, b \in Int : a = range[1] /\ b = range[2]
    BY RangeEnds
  <2>3. n \in a .. b
    BY <2>2 DEF NumberAccepted
  <2> QED
    BY <1>2, <2>1, <2>2, <2>3 DEF IntoRange
<1> QED
  BY <1>1, <1>2

\* The number a value stands for.
LEMMA NumberOfValue ==
  ASSUME NEW p, PropsTyped(p), NEW last, IsValue(last), NEW v, IsValue(v)
  PROVE  AsNumber(p, last, v) \in Int
<1>1. Base(p) \in Int
  BY BoundTypes
<1>2. One \in Int
  BY PropsAssumption
<1>3. last.n \in Int /\ v.n \in Int
  BY DEF IsValue, Number, Text, Boolean, Null, NotANumber
<1>4. v.n * One \in Int
  BY <1>2, <1>3
<1> QED
  BY <1>1, <1>3, <1>4 DEF AsNumber

\* A number moved into the range is a number.
LEMMA IntoRangeType ==
  ASSUME NEW p, PropsTyped(p), NEW n \in Int
  PROVE  IntoRange(p, n) \in Int
<1>1. CASE p.validValueRanges = {}
  BY <1>1 DEF IntoRange
<1>2. CASE p.validValueRanges # {}
  <2>1. PICK range \in p.validValueRanges : range = The(p.validValueRanges)
    BY <1>2, TheOption DEF PropsTyped, Optional
  <2>2. range \in Seq(Int) /\ Len(range) = 2
    BY DEF PropsTyped, Optional
  <2>3. 1 \in DOMAIN range /\ 2 \in DOMAIN range
    BY <2>2
  <2>4. range[1] \in Int /\ range[2] \in Int
    BY <2>2, <2>3, ElementOfSeq
  <2> QED
    BY <1>2, <2>1, <2>4 DEF IntoRange
<1> QED
  BY <1>1, <1>2

\* A repair yields a number; it fits if the declarations are sound.
LEMMA RepairedFits ==
  ASSUME NEW f, NEW p, PropsTyped(p), NEW last, IsValue(last), NEW v, IsValue(v)
  PROVE  \E n \in Int : /\ RepairedNumber(f, p, last, v) = Number(n)
                        /\ SoundNumber(f, p) => Fits(f, p, n)
<1>1. PICK a \in Int : a = AsNumber(p, last, v)
  BY NumberOfValue
<1>2. PICK n \in Int : n = BetweenBounds(f, p, OntoGrid(f, p, a))
  BY BetweenTheBounds
<1>3. SoundNumber(f, p) => n \in NumericMin(f, p) .. NumericMax(f, p) /\ OnGrid(f, p, n)
  BY <1>2, BetweenTheBounds DEF SoundNumber
<1>4. CASE p.validValues = {}
  <2>1. RepairedNumber(f, p, last, v) = Number(IntoRange(p, n))
    BY <1>1, <1>2, <1>4 DEF RepairedNumber, Else
  <2>2. IntoRange(p, n) \in Int
    BY IntoRangeType
  <2>3. SoundNumber(f, p) => Fits(f, p, IntoRange(p, n))
    BY <1>3, <1>4, IntoRangeFits
  <2> QED
    BY <2>1, <2>2, <2>3
<1>5. CASE p.validValues # {}
  <2>1. PICK valid \in p.validValues : valid = The(p.validValues) /\ valid \in Seq(Int) /\ valid # <<>>
    BY <1>5, TheOption DEF PropsTyped, Optional
  <2>2. Else(p.validValues, <<>>) = valid
    BY <1>5, <2>1 DEF Else
  <2>3. \A x : Contains(valid, x) => x \in ToSet(valid)
    BY <2>1 DEF Contains, ToSet
  <2>4. CASE Contains(valid, n)
    <3>1. RepairedNumber(f, p, last, v) = Number(IntoRange(p, n))
      BY <1>1, <1>2, <2>2, <2>4 DEF RepairedNumber
    <3>2. IntoRange(p, n) \in Int
      BY IntoRangeType
    <3>3. ASSUME SoundNumber(f, p)
          PROVE  Fits(f, p, IntoRange(p, n))
      <4>1. Fits(f, p, n)
        BY <3>3, <2>1, <2>3, <2>4, ListedFits
      <4> QED
        BY <3>3, <4>1, IntoRangeStays DEF Fits
    <3> QED
      BY <3>1, <3>2, <3>3
  <2>5. CASE ~ Contains(valid, n) /\ last.is = "number" /\ Contains(valid, last.n)
    <3>1. RepairedNumber(f, p, last, v) = last
      BY <1>1, <1>2, <2>1, <2>2, <2>5 DEF RepairedNumber
    <3>2. last.n \in Int /\ last = Number(last.n)
      BY <2>5 DEF IsValue, Number, Text, Boolean, Null, NotANumber
    <3>3. SoundNumber(f, p) => Fits(f, p, last.n)
      BY <2>1, <2>3, <2>5, ListedFits
    <3> QED
      BY <3>1, <3>2, <3>3
  <2>6. CASE ~ Contains(valid, n) /\ ~ (last.is = "number" /\ Contains(valid, last.n))
    <3>1. RepairedNumber(f, p, last, v) = Number(valid[1])
      BY <1>1, <1>2, <2>1, <2>2, <2>6 DEF RepairedNumber
    <3>2. 1 \in DOMAIN valid
      BY <2>1
    <3>3. valid[1] \in Int /\ valid[1] \in ToSet(valid)
      BY <2>1, <3>2, ElementOfSeq DEF ToSet
    <3>4. SoundNumber(f, p) => Fits(f, p, valid[1])
      BY <2>1, <3>3, ListedFits
    <3> QED
      BY <3>1, <3>3, <3>4
  <2> QED
    BY <2>4, <2>5, <2>6
<1> QED
  BY <1>4, <1>5

\* What fits is left as it is.
LEMMA FittingStays ==
  ASSUME NEW f, NEW p, PropsTyped(p), SoundNumber(f, p), NEW last, NEW n, Fits(f, p, n)
  PROVE  RepairedNumber(f, p, last, Number(n)) = Number(n)
<1>1. n \in Int /\ AsNumber(p, last, Number(n)) = n
  BY DEF Fits, AsNumber, Number
<1>2. BetweenBounds(f, p, OntoGrid(f, p, n)) = n
  BY <1>1, BetweenTheBounds DEF SoundNumber, Fits, NumberAccepted
<1>3. IntoRange(p, n) = n
  BY <1>1, IntoRangeStays DEF Fits
<1>4. Else(p.validValues, <<>>) = <<>> \/ Contains(Else(p.validValues, <<>>), n)
  <2>1. CASE p.validValues = {}
    BY <2>1 DEF Else
  <2>2. CASE p.validValues # {}
    <3>1. The(p.validValues) \in p.validValues
      BY <2>2, TheOption DEF PropsTyped, Optional
    <3> QED
      BY <2>2, <3>1 DEF Else, Fits, NumberAccepted
  <2> QED
    BY <2>1, <2>2
<1> QED
  BY <1>1, <1>2, <1>3, <1>4 DEF RepairedNumber

\* A number that a controller may write is served as one it may write.
LEMMA ServedFits ==
  ASSUME NEW f, NEW p, IsNumeric(f), PropsTyped(p), SoundNumber(f, p), NEW n \in Int, NumberAccepted(f, p, n)
  PROVE  \E m \in Int : Outgoing(p, Number(n)) = Number(m) /\ NumberAccepted(f, p, m)
<1>1. CASE ~ \E s \in p.minStep : s < One
  BY <1>1 DEF Outgoing, Number
<1>2. CASE \E s \in p.minStep : s < One
  <2>1. PICK s \in Nat : s > 0 /\ s < One /\ One % s = 0 /\ p.minStep = {s} /\ The(p.minStep) = s
    <3>1. PICK s \in p.minStep : s < One
      BY <1>2
    <3>2. s \in Nat /\ s > 0 /\ One % s = 0
      BY <3>1 DEF PropsTyped, Optional
    <3>3. p.minStep = {s}
      BY DEF PropsTyped, Optional
    <3>4. The(p.minStep) = s
      BY <3>3 DEF The
    <3> QED
      BY <3>1, <3>2, <3>3, <3>4
  <2>2. PICK base \in Int, lo \in Int, hi \in Int :
          base = Base(p) /\ lo = NumericMin(f, p) /\ hi = NumericMax(f, p)
    BY BoundTypes
  <2>3. PICK m : m = RoundTo(s, base, n)
    OBVIOUS
  <2>4. m \in Int
    BY <2>1, <2>3, RoundsOntoGrid
  <2>5. Outgoing(p, Number(n)) = Number(m)
    BY <1>2, <2>1, <2>2, <2>3 DEF Outgoing, Number
  <2>6. ASSUME NEW x \in Int, OnGrid(f, p, x)
        PROVE  RoundTo(s, base, x) = x
    <3>1. CASE IsInteger(f)
      <4>1. One \in Nat /\ One > 0
        BY PropsAssumption
      <4>2. Optional(p.minStep, Int)
        BY OptionWithin DEF PropsTyped, Optional
      <4>3. PICK g \in Int : g = Greatest(p.minStep \cup {One}) /\ g >= One /\ g \in p.minStep \cup {One}
        <5>1. PICK one \in Int : one = One
          BY <4>1
        <5>2. /\ Greatest(p.minStep \cup {one}) \in Int /\ Greatest(p.minStep \cup {one}) >= one
              /\ Greatest(p.minStep \cup {one}) \in p.minStep \cup {one}
          BY <4>2, GreatestOfOption
        <5> QED
          BY <5>1, <5>2
      <4>4. g = One
        BY <4>1, <4>3, <2>1
      <4>5. Step(f, p) = {One}
        BY <3>1, <4>3, <4>4 DEF Step
      <4>6. OfGrid(One, base, x)
        BY <2>6, <4>5, <2>2 DEF OnGrid, OfGrid
      <4>7. PICK q \in Int : x - base = One * q
        BY <4>1, <4>6, GridPoint
      <4>8. PICK k \in Int : One = s * k
        BY <2>1, <4>1
      <4>9. PICK r \in Int : r = k * q
        OBVIOUS
      <4>10. x - base = s * r
        BY <4>7, <4>8, <4>9
      <4>11. OfGrid(s, base, x)
        BY <4>10, <2>1, PointOfGrid
      <4> QED
        BY <4>11, <2>1, RoundsOntoGrid
    <3>2. CASE ~ IsInteger(f)
      <4>1. Step(f, p) = {s}
        BY <3>2, <2>1 DEF Step
      <4>2. OfGrid(s, base, x)
        BY <2>6, <4>1, <2>2 DEF OnGrid, OfGrid
      <4> QED
        BY <4>2, <2>1, RoundsOntoGrid
    <3> QED
      BY <3>1, <3>2
  <2>7. ASSUME NEW a \in Int, NEW b \in Int, OnGrid(f, p, a), OnGrid(f, p, b), n \in a .. b
        PROVE  m \in a .. b
    <3>1. RoundTo(s, base, a) = a /\ RoundTo(s, base, b) = b
      BY <2>6, <2>7
    <3>2. RoundTo(s, base, a) <= m /\ m <= RoundTo(s, base, b)
      BY <2>1, <2>3, <2>7, RoundsInOrder
    <3> QED
      BY <3>1, <3>2, <2>4, <2>7
  <2>8. m \in lo .. hi
    <3>1. OnGrid(f, p, lo) /\ OnGrid(f, p, hi)
      BY <2>2 DEF SoundNumber, Aligned
    <3>2. n \in lo .. hi
      BY <2>2 DEF NumberAccepted
    <3> QED
      BY <3>1, <3>2, <2>7
  <2>9. ASSUME NEW valid \in p.validValues
        PROVE  Contains(valid, m)
    <3>1. valid \in Seq(Int) /\ Contains(valid, n)
      BY DEF PropsTyped, Optional, NumberAccepted
    <3>2. n \in ToSet(valid)
      BY <3>1 DEF Contains, ToSet
    <3>3. OnGrid(f, p, n)
      BY <3>2, ListedFits DEF Fits
    <3> QED
      BY <3>1, <3>3, <2>3, <2>6
  <2>10. ASSUME NEW range \in p.validValueRanges
         PROVE  m \in range[1] .. range[2]
    <3>1. PICK a \in Int, b \in Int : a = range[1] /\ b = range[2] /\ OnGrid(f, p, a) /\ OnGrid(f, p, b)
      BY RangeEnds
    <3>2. n \in a .. b
      BY <3>1 DEF NumberAccepted
    <3> QED
      BY <3>1, <3>2, <2>7
  <2>11. NumberAccepted(f, p, m)
    BY <2>2, <2>8, <2>9, <2>10 DEF NumberAccepted
  <2> QED
    BY <2>4, <2>5, <2>11
<1> QED
  BY <1>1, <1>2

\* What is served of a stored value may be written back.
IsServed(f, p, v) == Sound(f, p) => Accepted(f, p, Outgoing(p, v))

\* A number is accepted if it passes the checks.
LEMMA AcceptedNumber ==
  ASSUME NEW f, IsNumeric(f), NEW p, NEW n \in Int
  PROVE  Accepted(f, p, Number(n)) <=> NumberAccepted(f, p, n)
<1>1. AsNumber(p, Null, Number(n)) = n /\ Number(n).is = "number"
  BY DEF AsNumber, Number
<1>2. ClientSupplied(f, p, Number(n)) = {Number(x) : x \in {m \in {n} : NumberAccepted(f, p, m)}}
  BY <1>1 DEF ClientSupplied, IsNumeric
<1> QED
  BY <1>2 DEF Accepted

\* What is served of an accepted number is accepted,
LEMMA NumberServed ==
  ASSUME NEW f, IsNumeric(f), NEW p, PropsTyped(p), NEW n \in Int, Sound(f, p) => NumberAccepted(f, p, n)
  PROVE  IsServed(f, p, Number(n))
<1> SUFFICES ASSUME Sound(f, p) PROVE Accepted(f, p, Outgoing(p, Number(n)))
  BY DEF IsServed
<1>1. SoundNumber(f, p)
  BY DEF Sound, SoundNumber
<1>2. PICK m \in Int : Outgoing(p, Number(n)) = Number(m) /\ NumberAccepted(f, p, m)
  BY <1>1, ServedFits
<1> QED
  BY <1>2, AcceptedNumber

\* of a Boolean too,
LEMMA BooleanServed ==
  ASSUME NEW p, NEW v, v \in {Boolean(0), Boolean(1)}
  PROVE  IsServed("bool", p, v)
<1>1. PICK b \in {0, 1} : v = Boolean(b)
  OBVIOUS
<1>2. One \in Int
  BY PropsAssumption
<1>3. b * One \in {0, One}
  BY <1>2
<1>4. Outgoing(p, v) = Number(b * One)
  BY <1>1 DEF Outgoing, Boolean
<1>5. ClientSupplied("bool", p, Number(b * One)) = {Boolean((b * One) \div One)}
  BY <1>3 DEF ClientSupplied, IsNumeric, Number
<1> QED
  BY <1>4, <1>5 DEF IsServed, Accepted

\* and of a text that is not too long.
LEMMA TextServed ==
  ASSUME NEW f, ~ IsNumeric(f), f # "bool", NEW p, NEW len \in Nat,
         f = "string" => len <= Else(p.maxLen, DefaultLen),
         f # "string" => \A l \in p.maxDataLen : len <= l
  PROVE  IsServed(f, p, Text(len))
<1>1. Outgoing(p, Text(len)) = Text(len)
  BY DEF Outgoing, Text
<1>2. Text(len) \in ClientSupplied(f, p, Text(len))
  <2>1. CASE f = "string"
    BY <2>1 DEF ClientSupplied, Text
  <2>2. CASE f # "string"
    BY <2>2 DEF ClientSupplied, Text
  <2> QED
    BY <2>1, <2>2
<1> QED
  BY <1>1, <1>2 DEF IsServed, Accepted

\* The longest text.
LEMMA LongestText ==
  ASSUME NEW p, PropsTyped(p)
  PROVE  Else(p.maxLen, DefaultLen) \in Nat
<1>1. CASE p.maxLen = {}
  BY <1>1, PropsAssumption DEF Else
<1>2. CASE p.maxLen # {}
  BY <1>2, TheOption DEF Else, PropsTyped
<1> QED
  BY <1>1, <1>2

\* A repaired text.
LEMMA RepairedTextFits ==
  ASSUME NEW p, PropsTyped(p), NEW last, IsValue(last), NEW v, IsValue(v)
  PROVE  \E len \in Nat : RepairedText(p, last, v) = Text(len) /\ len <= Else(p.maxLen, DefaultLen)
<1>1. PICK longest \in Nat : longest = Else(p.maxLen, DefaultLen)
  BY LongestText
<1>2. PICK l : l = CASE v.is = "string" -> v.n
                    [] v.is \notin {"number", "string"} /\ last.is = "string" -> last.n
                    [] v.is = "number" -> 1
                    [] OTHER -> 4
  OBVIOUS
<1>3. v.is = "string" => v.n \in Nat
  BY DEF IsValue, Number, Text, Boolean, Null, NotANumber
<1>4. last.is = "string" => last.n \in Nat
  BY DEF IsValue, Number, Text, Boolean, Null, NotANumber
<1>5. l \in Nat
  BY <1>2, <1>3, <1>4
<1>6. RepairedText(p, last, v) = Text(Least({l, longest}))
  BY <1>1, <1>2 DEF RepairedText
<1>7. Least({l, longest}) = IF l <= longest THEN l ELSE longest
  BY <1>1, <1>5, LeastOfTwo
<1> QED
  BY <1>1, <1>5, <1>6, <1>7

\* A text that is short enough is left as it is.
LEMMA FittingTextStays ==
  ASSUME NEW p, PropsTyped(p), NEW last, NEW len \in Nat, len <= Else(p.maxLen, DefaultLen)
  PROVE  RepairedText(p, last, Text(len)) = Text(len)
<1>1. PICK longest \in Nat : longest = Else(p.maxLen, DefaultLen) /\ len <= longest
  BY LongestText
<1>2. Least({len, longest}) = len
  BY <1>1, LeastOfTwo
<1> QED
  BY <1>1, <1>2 DEF RepairedText, Text

\* A repaired Boolean is one.
LEMMA RepairedBooleanType ==
  ASSUME NEW v, IsValue(v)
  PROVE  RepairedBoolean(v) \in {Boolean(0), Boolean(1)}
<1>1. CASE v.is = "boolean"
  BY <1>1 DEF RepairedBoolean, IsValue, Number, Text, Boolean, Null, NotANumber
<1>2. CASE v.is # "boolean"
  BY <1>2 DEF RepairedBoolean
<1> QED
  BY <1>1, <1>2

\* The kinds of values.
LEMMA ValuesDiffer ==
  /\ \A n : Number(n) # Null /\ Boolean(n) # Null /\ Text(n) # Null
  /\ \A n : Number(n) # NotANumber /\ Boolean(n) # NotANumber /\ Text(n) # NotANumber
  /\ Null # NotANumber
  /\ \A n \in Int : IsValue(Number(n)) /\ Number(n).n = n /\ Number(n).is = "number"
  /\ \A n \in Nat : IsValue(Text(n)) /\ Text(n).n = n /\ Text(n).is = "string"
  /\ IsValue(Boolean(0)) /\ IsValue(Boolean(1)) /\ IsValue(Null)
  /\ Boolean(0).is = "boolean" /\ Boolean(1).is = "boolean"
BY DEF Number, Boolean, Text, Null, NotANumber, IsValue

\* A value of a kind of its own is what its kind says.
LEMMA KindOfValue ==
  ASSUME NEW v, IsValue(v)
  PROVE  /\ v.is = "number" => v.n \in Int /\ v = Number(v.n)
         /\ v.is = "string" => v.n \in Nat /\ v = Text(v.n)
         /\ v.is = "boolean" => v \in {Boolean(0), Boolean(1)}
         /\ v.n \in Int
BY DEF Number, Boolean, Text, Null, NotANumber, IsValue

\* What validateUserInput stores when the plugin supplies something: one kind for each format.
LEMMA StoredKind ==
  ASSUME NEW f, NEW p, PropsTyped(p), NEW last, IsValue(last), NEW v, IsValue(v),
         NEW stored \in UserInput(f, p, last, v),
         v # Null \/ (f # "data" /\ UUIDKind = "apple" /\ last = Null)
  PROVE  /\ IsNumeric(f) => \E n \in Int : stored = Number(n) /\ (Sound(f, p) => Fits(f, p, n))
         /\ f = "bool" => stored \in {Boolean(0), Boolean(1)}
         /\ f = "string" => \E n \in Nat : stored = Text(n) /\ n <= Else(p.maxLen, DefaultLen)
         /\ ~ IsNumeric(f) /\ f # "bool" /\ f # "string" =>
              stored = Null \/ \E n \in Nat : stored = Text(n) /\ stored = v /\ \A l \in p.maxDataLen : n <= l
         /\ v # Null => stored # Null
<1>1. CASE IsNumeric(f)
  <2>1. stored = RepairedNumber(f, p, last, v)
    BY <1>1 DEF UserInput, IsNumeric
  <2>2. PICK n \in Int : stored = Number(n) /\ (SoundNumber(f, p) => Fits(f, p, n))
    BY <2>1, RepairedFits
  <2>3. Sound(f, p) => SoundNumber(f, p)
    BY <1>1 DEF Sound, SoundNumber
  <2> QED
    BY <1>1, <2>2, <2>3, ValuesDiffer DEF IsNumeric
<1>2. CASE f = "bool"
  <2>1. stored = RepairedBoolean(v)
    BY <1>2 DEF UserInput, IsNumeric
  <2> QED
    BY <1>2, <2>1, RepairedBooleanType, ValuesDiffer DEF IsNumeric
<1>3. CASE f = "string"
  <2>1. stored = RepairedText(p, last, v)
    BY <1>3 DEF UserInput, IsNumeric
  <2>2. PICK n \in Nat : stored = Text(n) /\ n <= Else(p.maxLen, DefaultLen)
    BY <2>1, RepairedTextFits
  <2> QED
    BY <1>3, <2>2, ValuesDiffer DEF IsNumeric
<1>4. CASE ~ IsNumeric(f) /\ f # "bool" /\ f # "string"
  <2>1. stored = v /\ (v = Null \/ (v.is = "string" /\ \A len \in p.maxDataLen : v.n <= len))
    BY <1>4 DEF UserInput
  <2> QED
    BY <1>4, <2>1, KindOfValue
<1> QED
  BY <1>1, <1>2, <1>3, <1>4

\* Whatever is stored is a value, and it is null, what was there before, or served.
LEMMA StoredIsServed ==
  ASSUME NEW f, NEW p, PropsTyped(p), NEW last, IsValue(last), last # NotANumber, NEW v, IsValue(v),
         NEW stored \in UserInput(f, p, last, v)
  PROVE  /\ IsValue(stored) /\ stored # NotANumber
         /\ stored = Null \/ stored = last \/ IsServed(f, p, stored)
         /\ v # Null => stored # Null /\ IsServed(f, p, stored)
<1>1. CASE v # Null \/ (f # "data" /\ UUIDKind = "apple" /\ last = Null)
  <2>1. CASE IsNumeric(f)
    <3>1. PICK n \in Int : stored = Number(n) /\ (Sound(f, p) => Fits(f, p, n))
      BY <1>1, <2>1, StoredKind
    <3>2. IsServed(f, p, stored)
      BY <2>1, <3>1, NumberServed DEF Fits
    <3> QED
      BY <3>1, <3>2, ValuesDiffer
  <2>2. CASE f = "bool"
    <3>1. stored \in {Boolean(0), Boolean(1)}
      BY <1>1, <2>2, StoredKind
    <3>2. IsServed(f, p, stored)
      BY <2>2, <3>1, BooleanServed
    <3> QED
      BY <3>1, <3>2, ValuesDiffer
  <2>3. CASE f = "string"
    <3>1. PICK n \in Nat : stored = Text(n) /\ n <= Else(p.maxLen, DefaultLen)
      BY <1>1, <2>3, StoredKind
    <3>2. IsServed(f, p, stored)
      BY <2>3, <3>1, TextServed DEF IsNumeric
    <3> QED
      BY <3>1, <3>2, ValuesDiffer
  <2>4. CASE ~ IsNumeric(f) /\ f # "bool" /\ f # "string"
    <3>1. stored = Null \/ \E n \in Nat : stored = Text(n) /\ stored = v /\ \A l \in p.maxDataLen : n <= l
      BY <1>1, <2>4, StoredKind
    <3>2. CASE stored = Null
      <4>1. ASSUME v # Null
            PROVE  stored # Null
        BY <4>1, StoredKind
      <4>2. v = Null
        BY <3>2, <4>1
      <4> QED
        BY ONLY <3>2, <4>2, ValuesDiffer
    <3>3. CASE stored # Null
      <4>1. PICK n \in Nat : stored = Text(n) /\ \A l \in p.maxDataLen : n <= l
        BY <3>1, <3>3
      <4>2. IsServed(f, p, stored)
        BY <2>4, <4>1, TextServed
      <4> QED
        BY <4>1, <4>2, ValuesDiffer
    <3> QED
      BY <3>2, <3>3
  <2> QED
    BY <2>1, <2>2, <2>3, <2>4
<1>2. CASE v = Null /\ (f = "data" \/ UUIDKind # "apple" \/ last # Null)
  <2>1. CASE f = "data"
    <3>1. stored = v
      BY <2>1, <1>2 DEF UserInput, IsNumeric
    <3> QED
      BY <3>1, <1>2, ValuesDiffer
  <2>2. CASE f # "data"
    <3>1. stored = Null \/ stored = last
      BY <2>2, <1>2 DEF UserInput
    <3> QED
      BY <3>1, <1>2, ValuesDiffer
  <2> QED
    BY <2>1, <2>2
<1> QED
  BY <1>1, <1>2

\* A repair of something is final.
LEMMA RepairIsFinal ==
  ASSUME NEW f, NEW p, PropsTyped(p), Sound(f, p), NEW last, IsValue(last), NEW v, IsValue(v), v # Null,
         NEW stored \in UserInput(f, p, last, v)
  PROVE  UserInput(f, p, stored, stored) = {stored}
<1>1. stored # Null
  BY StoredKind
<1>2. CASE IsNumeric(f)
  <2>1. PICK n \in Int : stored = Number(n) /\ Fits(f, p, n)
    BY <1>2, StoredKind
  <2>2. SoundNumber(f, p)
    BY <1>2 DEF Sound, SoundNumber
  <2>3. RepairedNumber(f, p, stored, stored) = stored
    BY <2>1, <2>2, FittingStays
  <2> QED
    BY <1>1, <1>2, <2>3 DEF UserInput, IsNumeric
<1>3. CASE f = "bool"
  <2>1. stored.is = "boolean"
    BY <1>3, StoredKind, ValuesDiffer
  <2>2. RepairedBoolean(stored) = stored
    BY <2>1 DEF RepairedBoolean
  <2> QED
    BY <1>1, <1>3, <2>2 DEF UserInput, IsNumeric
<1>4. CASE f = "string"
  <2>1. PICK n \in Nat : stored = Text(n) /\ n <= Else(p.maxLen, DefaultLen)
    BY <1>4, StoredKind
  <2>2. RepairedText(p, stored, stored) = stored
    BY <2>1, FittingTextStays
  <2> QED
    BY <1>1, <1>4, <2>2 DEF UserInput, IsNumeric
<1>5. CASE ~ IsNumeric(f) /\ f # "bool" /\ f # "string"
  <2>1. PICK n \in Nat : stored = Text(n) /\ \A l \in p.maxDataLen : n <= l
    BY <1>1, <1>5, StoredKind
  <2>2. stored.is = "string" /\ stored.n = n
    BY <2>1, ValuesDiffer
  <2> QED
    BY <1>1, <1>5, <2>1, <2>2 DEF UserInput
<1> QED
  BY <1>2, <1>3, <1>4, <1>5

\* What a controller supplies and is not refused is served.
LEMMA SuppliedIsServed ==
  ASSUME NEW f, NEW p, PropsTyped(p), NEW v, IsValue(v), NEW w \in ClientSupplied(f, p, v)
  PROVE  IsValue(w) /\ w # Null /\ w # NotANumber /\ IsServed(f, p, w)
<1>0. IsValue(Null)
  BY ValuesDiffer
<1>1. CASE IsNumeric(f)
  <2>1. PICK n : n = AsNumber(p, Null, v) /\ w = Number(n) /\ NumberAccepted(f, p, n)
    BY <1>1 DEF ClientSupplied, IsNumeric
  <2>2. n \in Int
    BY <1>0, <2>1, NumberOfValue
  <2> QED
    BY <1>1, <2>1, <2>2, NumberServed, ValuesDiffer
<1>2. CASE f = "bool"
  <2>1. w \in {Boolean(0), Boolean(1)}
    <3>1. CASE v.is = "boolean"
      BY <1>2, <3>1, KindOfValue DEF ClientSupplied, IsNumeric
    <3>2. CASE v.is # "boolean"
      <4>1. v.n \in {0, One} /\ w = Boolean(v.n \div One)
        BY <1>2, <3>2 DEF ClientSupplied, IsNumeric
      <4>2. One \in Nat /\ One > 0
        BY PropsAssumption
      <4>3. 0 \div One = 0 /\ One \div One = 1
        BY <4>2
      <4> QED
        BY <4>1, <4>3
    <3> QED
      BY <3>1, <3>2
  <2> QED
    BY <1>2, <2>1, BooleanServed, ValuesDiffer
<1>3. CASE f = "string"
  <2>1. w = v /\ v.is = "string" /\ v.n <= Else(p.maxLen, DefaultLen)
    BY <1>3 DEF ClientSupplied, IsNumeric
  <2>2. v.n \in Nat /\ v = Text(v.n)
    BY <2>1, KindOfValue
  <2>3. IsServed(f, p, Text(v.n))
    BY <1>3, <2>1, <2>2, TextServed DEF IsNumeric
  <2> QED
    BY <2>1, <2>2, <2>3, ValuesDiffer
<1>4. CASE ~ IsNumeric(f) /\ f # "bool" /\ f # "string"
  <2>1. w = v /\ v.is = "string" /\ \A len \in p.maxDataLen : v.n <= len
    BY <1>4 DEF ClientSupplied
  <2>2. v.n \in Nat /\ v = Text(v.n)
    BY <2>1, KindOfValue
  <2>3. IsServed(f, p, Text(v.n))
    BY <1>4, <2>1, <2>2, TextServed
  <2> QED
    BY <2>1, <2>2, <2>3, ValuesDiffer
<1> QED
  BY <1>1, <1>2, <1>3, <1>4

(***************************************************************************)
(* setProps keeps the kinds of the fields.                                 *)
(***************************************************************************)
LEMMA BoundStays ==
  ASSUME NEW arg, NEW field \in {"minValue", "maxValue"}, IsArgument(arg), NEW old, Optional(old, Int),
         NEW f, NEW instead \in Int
  PROVE  Optional(BoundAfter(arg, field, old, f, instead), Int)
<1>1. CASE ~ Given(arg, field)
  BY <1>1 DEF BoundAfter
<1>2. CASE Given(arg, field) /\ ~ IsNumeric(f)
  BY <1>2 DEF BoundAfter, Optional
<1>3. CASE Given(arg, field) /\ IsNumeric(f)
  <2>1. Optional(arg[field], Int)
    BY <1>3 DEF IsArgument
  <2>2. BoundAfter(arg, field, old, f, instead)
          = {IF n \in LowerBound(f) .. UpperBound(f) THEN n ELSE instead : n \in arg[field]}
    BY <1>3 DEF BoundAfter
  <2> QED
    BY <2>1, <2>2 DEF Optional
<1> QED
  BY <1>1, <1>2, <1>3

\* and so does another field.
LEMMA FieldStays ==
  ASSUME NEW arg, NEW field, NEW old, NEW S, Optional(old, S), NEW applies \in BOOLEAN,
         Given(arg, field) /\ applies => Optional(arg[field], S)
  PROVE  Optional(FieldAfter(arg, field, old, applies), S)
BY DEF FieldAfter, Optional

\* All of them together.
LEMMA PropsAfterTyped ==
  ASSUME NEW f, NEW p, PropsTyped(p), NEW arg, IsArgument(arg)
  PROVE  PropsTyped(PropsAfter(f, p, arg).props)
<1> DEFINE Steps == {step \in Nat : step > 0 /\ (step < One => One % step = 0)}
           Lists == Seq(Int) \ {<<>>}
           Pairs == {range \in Seq(Int) : Len(range) = 2}
           noValues == IsNumeric(f) /\ Given(arg, "validValues") /\ arg["validValues"] = {<<>>}
           badRange == IsNumeric(f) /\ Given(arg, "validValueRanges")
                         /\ \E range \in arg["validValueRanges"] : Len(range) # 2
           minValue == BoundAfter(arg, "minValue", p.minValue, f, LowerBound(f))
           maxValue == BoundAfter(arg, "maxValue", p.maxValue, f, UpperBound(f))
           crossed == ~noValues /\ ~badRange /\ \E a \in minValue, b \in maxValue : a > b
           maxLen == FieldAfter(arg, "maxLen", p.maxLen, f = "string")
           q == PropsAfter(f, p, arg).props
<1>1. q = [minValue   |-> IF crossed THEN {} ELSE minValue,
           maxValue   |-> IF crossed THEN {} ELSE maxValue,
           minStep    |-> FieldAfter(arg, "minStep", p.minStep, IsNumeric(f)),
           maxLen     |-> {Least({len, LongestLen}) : len \in maxLen},
           maxDataLen |-> FieldAfter(arg, "maxDataLen", p.maxDataLen, f = "data"),
           validValues |-> FieldAfter(arg, "validValues", p.validValues, IsNumeric(f) /\ ~noValues),
           validValueRanges |->
             IF noValues \/ badRange THEN p.validValueRanges
             ELSE FieldAfter(arg, "validValueRanges", p.validValueRanges, IsNumeric(f))]
  BY DEF PropsAfter
<1> HIDE DEF q
<1>2. LowerBound(f) \in Int /\ UpperBound(f) \in Int
  BY BoundTypes
<1>3. Optional(minValue, Int) /\ Optional(maxValue, Int)
  BY <1>2, BoundStays DEF PropsTyped
<1>4. Optional(q.minValue, Int) /\ Optional(q.maxValue, Int)
  BY <1>1, <1>3 DEF Optional
<1>5. Optional(q.minStep, Steps)
  <2>1. Given(arg, "minStep") => Optional(arg["minStep"], Steps)
    BY DEF IsArgument
  <2>2. IsNumeric(f) \in BOOLEAN
    BY DEF IsNumeric
  <2>3. Optional(p.minStep, Steps)
    BY DEF PropsTyped
  <2>4. Optional(FieldAfter(arg, "minStep", p.minStep, IsNumeric(f)), Steps)
    BY ONLY <2>1, <2>2, <2>3, FieldStays
  <2> QED
    BY <1>1, <2>4
<1>6. Optional(q.maxLen, Nat)
  <2>1. Given(arg, "maxLen") => Optional(arg["maxLen"], Nat)
    BY DEF IsArgument
  <2>2. Optional(maxLen, Nat)
    BY <2>1, FieldStays DEF PropsTyped
  <2>3. \A len \in Nat : Least({len, LongestLen}) \in Nat
    BY LeastOfTwo, PropsAssumption
  <2>4. q.maxLen = {Least({len, LongestLen}) : len \in maxLen}
    BY <1>1
  <2> HIDE DEF maxLen
  <2> QED
    BY <2>2, <2>3, <2>4 DEF Optional
<1>7. Optional(q.maxDataLen, Nat)
  <2>1. Given(arg, "maxDataLen") => Optional(arg["maxDataLen"], Nat)
    BY DEF IsArgument
  <2> QED
    BY <1>1, <2>1, FieldStays DEF PropsTyped
<1>8. Optional(q.validValues, Lists)
  <2>1. ASSUME Given(arg, "validValues"), IsNumeric(f) /\ ~noValues
        PROVE  Optional(arg["validValues"], Lists)
    <3>1. Optional(arg["validValues"], Seq(Int))
      BY <2>1 DEF IsArgument
    <3>2. arg["validValues"] # {<<>>}
      BY <2>1
    <3>3. <<>> \notin arg["validValues"]
      BY <3>1, <3>2 DEF Optional
    <3> QED
      BY <3>1, <3>3 DEF Optional
  <2>2. (IsNumeric(f) /\ ~noValues) \in BOOLEAN
    OBVIOUS
  <2>3. Optional(p.validValues, Lists)
    BY DEF PropsTyped
  <2>4. Optional(FieldAfter(arg, "validValues", p.validValues, IsNumeric(f) /\ ~noValues), Lists)
    BY ONLY <2>1, <2>2, <2>3, FieldStays
  <2> QED
    BY <1>1, <2>4
<1>9. Optional(q.validValueRanges, Pairs)
  <2>1. Optional(p.validValueRanges, Pairs)
    BY DEF PropsTyped
  <2>2. CASE noValues \/ badRange
    BY <2>1, <2>2, <1>1
  <2>3. CASE ~ (noValues \/ badRange)
    <3>1. ASSUME Given(arg, "validValueRanges"), IsNumeric(f)
          PROVE  Optional(arg["validValueRanges"], Pairs)
      <4>1. Optional(arg["validValueRanges"], Seq(Int))
        BY <3>1 DEF IsArgument
      <4>2. \A range \in arg["validValueRanges"] : Len(range) = 2
        BY <3>1, <2>3
      <4> QED
        BY <4>1, <4>2 DEF Optional
    <3>2. IsNumeric(f) \in BOOLEAN
      BY DEF IsNumeric
    <3>3. Optional(FieldAfter(arg, "validValueRanges", p.validValueRanges, IsNumeric(f)), Pairs)
      BY ONLY <2>1, <3>1, <3>2, FieldStays
    <3>4. q.validValueRanges = FieldAfter(arg, "validValueRanges", p.validValueRanges, IsNumeric(f))
      BY <2>3, <1>1
    <3> QED
      BY <3>3, <3>4
  <2> QED
    BY <2>2, <2>3
<1>10. q \in [minValue : SUBSET Int, maxValue : SUBSET Int, minStep : SUBSET Int, maxLen : SUBSET Nat,
              maxDataLen : SUBSET Nat, validValues : SUBSET Seq(Int), validValueRanges : SUBSET Seq(Int)]
  <2>1. /\ q.minValue \subseteq Int /\ q.maxValue \subseteq Int /\ q.minStep \subseteq Int
        /\ q.maxLen \subseteq Nat /\ q.maxDataLen \subseteq Nat
        /\ q.validValues \subseteq Seq(Int) /\ q.validValueRanges \subseteq Seq(Int)
    BY <1>4, <1>5, <1>6, <1>7, <1>8, <1>9 DEF Optional
  <2>2. q = [minValue |-> q.minValue, maxValue |-> q.maxValue, minStep |-> q.minStep, maxLen |-> q.maxLen,
             maxDataLen |-> q.maxDataLen, validValues |-> q.validValues,
             validValueRanges |-> q.validValueRanges]
    BY <1>1
  <2> QED
    BY ONLY <2>1, <2>2
<1>11. PropsTyped(q)
  BY <1>4, <1>5, <1>6, <1>7, <1>8, <1>9, <1>10 DEF PropsTyped
<1> QED
  BY <1>11 DEF q

\* The correction in setProps is a repair of the value that was there.
LEMMA CorrectedIsRepaired ==
  ASSUME NEW f, IsNumeric(f) \/ f = "string", NEW p, PropsTyped(p), NEW v, IsValue(v), v # Null, v # NotANumber
  PROVE  \E u : /\ IsValue(u) /\ u # Null /\ u # NotANumber /\ Corrected(f, p, v) \in UserInput(f, p, v, u)
<1>1. \A u : IsValue(u) /\ u # Null => \E w : UserInput(f, p, v, u) = {w}
  <2>1. CASE IsNumeric(f)
    BY <2>1 DEF UserInput, IsNumeric
  <2>2. CASE f = "string"
    BY <2>2 DEF UserInput, IsNumeric
  <2> QED
    BY <2>1, <2>2
<1>2. PICK once : UserInput(f, p, v, v) = {once}
  BY <1>1
<1>3. The(UserInput(f, p, v, v)) = once
  BY <1>2 DEF The
<1>4. IsValue(once) /\ once # Null /\ once # NotANumber
  BY <1>2, StoredIsServed
<1>5. CASE once = v
  BY <1>2, <1>3, <1>5 DEF Corrected
<1>6. CASE once # v
  <2>1. PICK w : UserInput(f, p, v, once) = {w}
    BY <1>1, <1>4
  <2>2. Corrected(f, p, v) = w
    BY <1>3, <1>6, <2>1 DEF Corrected, The
  <2> QED
    BY <1>4, <2>1, <2>2
<1> QED
  BY <1>5, <1>6

(***************************************************************************)
(* The inductive invariant.  Whether the last request failed does not      *)
(* matter for it: what was validated is served as soon as it is served.    *)
(***************************************************************************)
ValidatedIsServed == validated /\ current # Null => IsServed(format, props, current)

PropsIInv ==
  /\ calls \in 0..MaxCalls
  /\ failing \in BOOLEAN /\ validated \in BOOLEAN
  /\ PropsTyped(props)
  /\ IsValue(current) /\ current # NotANumber
  /\ ValidatedIsServed

\* The default value is a value.
LEMMA DefaultIsValue ==
  ASSUME NEW f, NEW p, PropsTyped(p)
  PROVE  IsValue(DefaultValue(f, p)) /\ DefaultValue(f, p) # NotANumber
<1>1. CASE IsNumeric(f)
  <2>1. CASE p.validValues # {}
    <3>1. The(p.validValues) \in Seq(Int) \ {<<>>}
      BY <2>1, TheOption DEF PropsTyped
    <3>2. 1 \in DOMAIN The(p.validValues)
      BY <3>1
    <3>3. The(p.validValues)[1] \in Int
      BY <3>1, <3>2, ElementOfSeq
    <3>4. DefaultValue(f, p) = Number(The(p.validValues)[1])
      BY <1>1, <2>1 DEF DefaultValue, IsNumeric
    <3> QED
      BY <3>3, <3>4, ValuesDiffer
  <2>2. CASE p.validValues = {}
    <3>1. DefaultValue(f, p) = Number(Base(p))
      BY <1>1, <2>2 DEF DefaultValue, IsNumeric
    <3> QED
      BY <3>1, BoundTypes, ValuesDiffer
  <2> QED
    BY <2>1, <2>2
<1>2. CASE ~ IsNumeric(f) /\ f = "bool"
  BY <1>2, ValuesDiffer DEF DefaultValue
<1>3. CASE ~ IsNumeric(f) /\ f # "bool"
  BY <1>3, ValuesDiffer DEF DefaultValue
<1> QED
  BY <1>1, <1>2, <1>3

\* The constructor establishes the invariant.
LEMMA PropsInitIInv == PropsInit => PropsIInv
<1> SUFFICES ASSUME NEW arg \in Declarations, Declared(arg) PROVE PropsIInv
  BY DEF PropsInit
<1>1. IsArgument(arg)
  BY PropsAssumption
<1>2. PropsTyped(NoProps)
  BY DEF PropsTyped, NoProps, Optional
<1>3. PICK f : f = The(arg["format"])
  OBVIOUS
<1>4. /\ format = f /\ props = PropsAfter(f, NoProps, arg).props
      /\ current = DefaultValue(f, props)
      /\ failing = FALSE /\ validated = FALSE /\ calls = 0
  BY <1>3 DEF Declared
<1>5. PropsTyped(props)
  BY <1>1, <1>2, <1>4, PropsAfterTyped
<1>6. IsValue(current) /\ current # NotANumber
  BY <1>4, <1>5, DefaultIsValue
<1>7. 0 \in 0..MaxCalls
  BY PropsAssumption
<1> QED
  BY <1>4, <1>5, <1>6, <1>7 DEF PropsIInv, ValidatedIsServed

\* setProps keeps it,
LEMMA SetPropsStep ==
  ASSUME PropsIInv, NEW arg \in Changes, SetProps(arg)
  PROVE  PropsIInv'
<1>1. IsArgument(arg)
  BY PropsAssumption
<1>2. PICK f : f = IF Given(arg, "format") THEN The(arg["format"]) ELSE format
  OBVIOUS
<1>3. PICK q : q = PropsAfter(f, props, arg).props
  OBVIOUS
<1>4. PICK threw : threw = PropsAfter(f, props, arg).threw
  OBVIOUS
<1> DEFINE corrects == /\ ~threw /\ f = format /\ ~failing /\ current # Null
                       /\ IsNumeric(f) \/ f = "string"
                       /\ UUIDKind # "switchEvent"
<1>5. /\ calls < MaxCalls /\ calls' = calls + 1
      /\ format' = f /\ props' = q
      /\ current' = IF corrects THEN Corrected(f, q, current) ELSE current
      /\ validated' = (corrects \/ (validated /\ f = format /\ q = props))
      /\ failing' = failing
  BY <1>2, <1>3, <1>4 DEF SetProps
<1>6. calls' \in 0..MaxCalls
  BY <1>5, PropsAssumption DEF PropsIInv
<1>7. PropsTyped(q)
  BY <1>1, <1>3, PropsAfterTyped DEF PropsIInv
<1>8. failing' \in BOOLEAN /\ validated' \in BOOLEAN
  BY <1>5 DEF PropsIInv
<1>9. CASE corrects
  <2>1. PICK u : IsValue(u) /\ u # Null /\ Corrected(f, q, current) \in UserInput(f, q, current, u)
    BY <1>7, <1>9, CorrectedIsRepaired DEF PropsIInv
  <2>2. current' \in UserInput(f, q, current, u)
    BY <1>5, <1>9, <2>1
  <2>3. IsValue(current') /\ current' # NotANumber /\ IsServed(f, q, current')
    BY <1>7, <2>1, <2>2, StoredIsServed DEF PropsIInv
  <2>4. IsServed(format', props', current')
    BY <1>5, <2>3
  <2>5. ValidatedIsServed'
    BY <2>4 DEF ValidatedIsServed
  <2> QED
    BY <1>5, <1>6, <1>7, <1>8, <2>3, <2>5 DEF PropsIInv
<1>10. CASE ~ corrects
  <2>1. current' = current /\ (validated' => validated /\ format' = format /\ props' = props)
    BY <1>5, <1>10
  <2>2. ValidatedIsServed'
    BY <2>1 DEF PropsIInv, ValidatedIsServed
  <2> QED
    BY <1>5, <1>6, <1>7, <1>8, <2>1, <2>2 DEF PropsIInv
<1> QED
  BY <1>9, <1>10

\* and so does every step.
LEMMA PropsNextIInv == PropsIInv /\ [PropsNext]_characteristicVars => PropsIInv'
<1> SUFFICES ASSUME PropsIInv, [PropsNext]_characteristicVars PROVE PropsIInv'
  OBVIOUS
<1>1. CASE \E arg \in Changes : SetProps(arg)
  BY <1>1, SetPropsStep
<1>2. ASSUME NEW v \in Supplied, UpdateWithProps(v)
      PROVE  PropsIInv'
  <2>1. IsValue(v)
    BY PropsAssumption
  <2>2. PICK stored \in UserInput(format, props, current, v) :
          /\ current' = stored /\ failing' = FALSE
          /\ validated' = (validated \/ v # Null)
          /\ format' = format /\ props' = props /\ calls' = calls
    BY <1>2 DEF UpdateWithProps
  <2>3. /\ IsValue(stored) /\ stored # NotANumber
        /\ stored = Null \/ stored = current \/ IsServed(format, props, stored)
        /\ v # Null => IsServed(format, props, stored)
    BY <2>1, StoredIsServed DEF PropsIInv
  <2>4. ValidatedIsServed'
    <3>1. CASE v # Null
      BY <3>1, <2>2, <2>3 DEF ValidatedIsServed
    <3>2. CASE v = Null
      BY <3>2, <2>2, <2>3 DEF ValidatedIsServed, PropsIInv
    <3> QED
      BY <3>1, <3>2
  <2>5. validated' \in BOOLEAN /\ failing' \in BOOLEAN
    BY <2>2 DEF PropsIInv
  <2> QED
    BY <2>2, <2>3, <2>4, <2>5 DEF PropsIInv
<1>3. CASE UpdateErrorWithProps
  BY <1>3 DEF UpdateErrorWithProps, PropsIInv, ValidatedIsServed
<1>4. ASSUME NEW v \in Supplied, ClientWrite(v)
      PROVE  PropsIInv'
  <2>1. IsValue(v)
    BY PropsAssumption
  <2>2. format' = format /\ props' = props /\ calls' = calls /\ failing' = FALSE
    BY <1>4 DEF ClientWrite
  <2>3. CASE ClientSupplied(format, props, v) = {}
    <3>1. current' = current /\ validated' = validated
      BY <1>4, <2>3 DEF ClientWrite
    <3> QED
      BY <2>2, <3>1 DEF PropsIInv, ValidatedIsServed
  <2>4. CASE ClientSupplied(format, props, v) # {}
    <3>1. current' = The(ClientSupplied(format, props, v)) /\ validated' = TRUE
      BY <1>4, <2>4 DEF ClientWrite
    <3>2. current' \in ClientSupplied(format, props, v)
      BY <2>4, <3>1 DEF The
    <3>3. IsValue(current') /\ current' # NotANumber /\ IsServed(format, props, current')
      BY <2>1, <3>2, SuppliedIsServed DEF PropsIInv
    <3>4. ValidatedIsServed'
      BY <2>2, <3>3 DEF ValidatedIsServed
    <3> QED
      BY <2>2, <3>1, <3>3, <3>4 DEF PropsIInv
  <2> QED
    BY <2>3, <2>4
<1>5. CASE UNCHANGED characteristicVars
  BY <1>5 DEF PropsIInv, ValidatedIsServed, characteristicVars
<1> QED
  BY <1>1, <1>2, <1>3, <1>4, <1>5 DEF PropsNext

\* It says what is served.
LEMMA ServedFollows == PropsIInv => PropsTypeOK /\ ServedIsAccepted
<1> SUFFICES ASSUME PropsIInv PROVE PropsTypeOK /\ ServedIsAccepted
  OBVIOUS
<1>1. ServedIsAccepted
  BY DEF PropsIInv, ValidatedIsServed, IsServed, ServedIsAccepted
<1>2. current.is \in {"number", "boolean", "string", "null"} /\ current.n \in Int
  BY DEF PropsIInv, IsValue, Number, Boolean, Text, Null, NotANumber
<1>3. /\ props.minValue \cup props.maxValue \cup props.minStep \subseteq Int
      /\ props.maxLen \cup props.maxDataLen \subseteq Nat
  BY DEF PropsIInv, PropsTyped
<1> QED
  BY <1>1, <1>2, <1>3 DEF PropsIInv, PropsTypeOK

\* And what validateUserInput does with what it has repaired.
LEMMA RepairsFinal ==
  ASSUME PropsIInv, NEW v \in Supplied, Sound(format, props), v # Null, UpdateWithProps(v)
  PROVE  /\ UserInput(format, props, current', current') = {current'}
         /\ v.is = "number" /\ IsNumeric(format) /\ Accepted(format, props, v)
              /\ OnGrid(format, props, v.n) => current' = v
<1>1. IsValue(v)
  BY PropsAssumption
<1>2. current' \in UserInput(format, props, current, v)
  BY DEF UpdateWithProps
<1>3. UserInput(format, props, current', current') = {current'}
  BY <1>1, <1>2, RepairIsFinal DEF PropsIInv
<1>4. ASSUME v.is = "number", IsNumeric(format), Accepted(format, props, v), OnGrid(format, props, v.n)
      PROVE  current' = v
  <2>1. v.n \in Int /\ v = Number(v.n)
    BY <1>1, <1>4, KindOfValue
  <2>2. PICK n \in Int : n = v.n /\ v = Number(n)
    BY <2>1
  <2>3. NumberAccepted(format, props, n)
    BY <1>4, <2>2, AcceptedNumber
  <2>4. Fits(format, props, n) /\ SoundNumber(format, props)
    BY <1>4, <2>2, <2>3 DEF Fits, Sound, SoundNumber
  <2>5. RepairedNumber(format, props, current, v) = v
    BY <2>2, <2>4, FittingStays DEF PropsIInv
  <2>6. UserInput(format, props, current, v) = {v}
    BY <1>4, <2>5 DEF UserInput, IsNumeric
  <2> QED
    BY <1>2, <2>6
<1> QED
  BY <1>3, <1>4

\* Whatever the plugin declares, supplies and changes, in sound declarations: a value that is
\* served after it went through validation or setProps may be written back, and a repair is final
\* (setProps, validateUserInput, validateClientSuppliedValue, formatOutgoingCharacteristicValue).
\* It need not lie between the bounds, where valid values lead out of them (PropsClampValue).
THEOREM PropsAlwaysKept == PropsSpec => PropsKept
<1>1. PropsSpec => []PropsIInv
  BY PropsInitIInv, PropsNextIInv, PTL DEF PropsSpec
<1>2. PropsIInv => PropsTypeOK /\ ServedIsAccepted
  BY ServedFollows
<1>3. PropsIInv => \A v \in Supplied : Sound(format, props) /\ v # Null /\ UpdateWithProps(v) =>
        /\ UserInput(format, props, current', current') = {current'}
        /\ v.is = "number" /\ IsNumeric(format) /\ Accepted(format, props, v)
             /\ OnGrid(format, props, v.n) => current' = v
  BY RepairsFinal
<1> QED
  BY <1>1, <1>2, <1>3, PTL DEF PropsKept, RepairsAreFinal
=============================================================================
