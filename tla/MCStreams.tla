------------------------------ MODULE MCStreams ------------------------------
(***************************************************************************)
(* A HAP connection and the data streams that are set up over it, with their *)
(* timers.                                                                 *)
(* Side by side: a behaviour is one of the component "subject", and the others *)
(* rest.  Nothing relates them here; one instance of TLC checks them all.  *)
(***************************************************************************)
EXTENDS HAPConnection, DataStream

CONSTANTS
  Subjects,        \* the components this instance looks at
  e1, v1, v2, s1, s2, h1, c1, c2, r1, none

VARIABLE subject

ASSUME SubjectsAssumption == Subjects \subseteq {"connection", "streams"}

OneEvent == {e1}
TwoValues == {v1, v2}
TwoSessions == {s1, s2}
OneHap == {h1}
TwoConnections == {c1, c2}
OneRequest == {r1}

GroupInit ==
  /\ subject \in Subjects
  /\ Init
  /\ DataStreamInit

\* The component under consideration takes a step, the others rest.
GroupNext ==
  \/ subject = "connection" /\ Next
       /\ UNCHANGED <<subject, dataStreamVars>>
  \/ subject = "streams" /\ DataStreamNext
       /\ UNCHANGED <<subject, vars>>

groupVars == <<subject, vars, dataStreamVars>>

GroupSpec == GroupInit /\ [][GroupNext]_groupVars
  /\ (subject = "connection" => Fairness)
  /\ (subject = "streams" => DataStreamFairness)
=============================================================================
