------------------------------- MODULE MCValues -------------------------------
(***************************************************************************)
(* What a characteristic stores, whom it tells and what its props let it serve. *)
(* Side by side: a behaviour is one of the component "subject", and the others *)
(* rest.  Nothing relates them here; one instance of TLC checks them all.  *)
(***************************************************************************)
EXTENDS CharacteristicValue, EventSubscriptions, CharacteristicProps, TLC

CONSTANTS
  Subjects,        \* the components this instance looks at
  off, on, listener, alice, bob

VARIABLE subject

ASSUME SubjectsAssumption == Subjects \subseteq {"value", "subscriptions", "props"}

TwoValues == {off, on}
OneListener == {listener}
OneRequester == {alice}
TwoRequesters == {alice, bob}

Fields(field, values) == {field :> x : x \in values}
MinAndMax == {[minValue |-> a, maxValue |-> b] : a \in {{}, {-4}, {1}, {4}}, b \in {{}, {6}, {20}}}
Lists  == {{}, {<<>>}, {<<2, 4>>}, {<<8, 0>>}}
Ranges == {{}, {<<4>>}, {<<0, 4>>}, {<<4, 8>>}}

Numeric == MinAndMax \cup Fields("minStep", {{}, {2}, {8}}) \cup Fields("validValues", Lists)
             \cup Fields("validValueRanges", Ranges)
Others  == Fields("maxLen", {{}, {1}, {5}}) \cup Fields("maxDataLen", {{}, {1}})
FormatFields == Fields("format", {{"int"}, {"float"}, {"uint8"}, {"bool"}, {"string"}, {"data"}})

SomeDeclarations == FormatFields \cup {f @@ ("validValues" :> {<<8, 0>>}) : f \in FormatFields}
SomeChanges == Numeric \cup Others \cup FormatFields
SomeValues == {Number(n) : n \in {-8, 1, 2, 4, 6, 30}} \cup {Boolean(1), Text(0), Text(4), Null, NotANumber}
AnInteger == "format" :> {"int"}

\* One initial state is enough for a component that rests.
GroupInit ==
  /\ subject \in Subjects
  /\ Init
  /\ SubscriptionsInit
  /\ PropsInit
  /\ subject # "props" => Declared(AnInteger)

\* The component under consideration takes a step, the others rest.
GroupNext ==
  \/ subject = "value" /\ Next
       /\ UNCHANGED <<subject, subscriptionVars, characteristicVars>>
  \/ subject = "subscriptions" /\ SubscriptionsNext
       /\ UNCHANGED <<subject, vars, characteristicVars>>
  \/ subject = "props" /\ PropsNext
       /\ UNCHANGED <<subject, vars, subscriptionVars>>

groupVars == <<subject, vars, subscriptionVars, characteristicVars>>

GroupSpec == GroupInit /\ [][GroupNext]_groupVars
=============================================================================
