------------------------------ MODULE MCRequests ------------------------------
(***************************************************************************)
(* Requests of controllers for characteristics and for the whole database, *)
(* the connections they come on, and the three encodings: frames of a      *)
(* connection, messages of a data stream, TLV8.                            *)
(* Side by side: a behaviour is one of the component "subject", and the others *)
(* rest.  Nothing relates them here; one instance of TLC checks them all.  *)
(***************************************************************************)
EXTENDS CharacteristicRequests, AccessoriesRead, IdleConnections, LayerFraming, HDSCodec, TLV8

CONSTANTS
  Subjects        \* the components this instance looks at

VARIABLE subject

ASSUME SubjectsAssumption == 
  Subjects \subseteq {"characteristics", "accessories", "registry", "frames", "messages", "structures"}

TwoServices == [info |-> {"name"}, lamp |-> {"on", "identify"}]

Scalar1 ==
  {[type |-> "int", value |-> n] : n \in {-1, 0, 1, 2, -2, 4, -5, 8, 20}}
  \cup {[type |-> "int", value |-> 16], [type |-> "int64", value |-> 2], [type |-> "bool", value |-> 1],
        [type |-> "float", value |-> 2], [type |-> "string", value |-> "a", length |-> 1],
        [type |-> "string", value |-> "long", length |-> 2], [type |-> "data", value |-> "d", length |-> 1],
        [type |-> "data", value |-> "long", length |-> 2], [type |-> "null", value |-> 0]}
Scalar2 ==
  {[type |-> "int", value |-> 1], [type |-> "int", value |-> 4], [type |-> "string", value |-> "a", length |-> 1]}
Key(name, n) == [type |-> "string", value |-> name, length |-> n]
Container1 ==
  {[type |-> "array", elements |-> s] : s \in UNION {[1..n -> Scalar2] : n \in {0, 1, 2}}}
  \cup {[type |-> "dictionary", elements |-> <<Key("a", 1), v>>] : v \in Scalar2}
  \cup {[type |-> "dictionary", elements |-> <<Key("a", 1), v, Key("long", 2), v>>] : v \in Scalar2}
ValueSet == Scalar1 \cup Container1

ItemSet == {<<>>, <<7>>, <<7, 8>>, <<7, 8, 9>>, <<7, 8, 9, 0>>}

GroupInit ==
  /\ subject \in Subjects
  /\ Init
  /\ ReadInit
  /\ IdleInit
  /\ FramesInit
  /\ CodecInit
  /\ TLVInit

\* The component under consideration takes a step, the others rest.
GroupNext ==
  \/ subject = "characteristics" /\ Next
       /\ UNCHANGED <<subject, readVars, idleVars, framesVars, codecVars, tlvVars>>
  \/ subject = "accessories" /\ ReadNext
       /\ UNCHANGED <<subject, vars, idleVars, framesVars, codecVars, tlvVars>>
  \/ subject = "registry" /\ IdleNext
       /\ UNCHANGED <<subject, vars, readVars, framesVars, codecVars, tlvVars>>
  \/ subject = "frames" /\ FramesNext
       /\ UNCHANGED <<subject, vars, readVars, idleVars, codecVars, tlvVars>>
  \/ subject = "messages" /\ CodecNext
       /\ UNCHANGED <<subject, vars, readVars, idleVars, framesVars, tlvVars>>
  \/ subject = "structures" /\ TLVNext
       /\ UNCHANGED <<subject, vars, readVars, idleVars, framesVars, codecVars>>

groupVars == <<subject, vars, readVars, idleVars, framesVars, codecVars, tlvVars>>

GroupSpec == GroupInit /\ [][GroupNext]_groupVars
  /\ (subject = "characteristics" =>
        WF_vars(Tick) /\ \A r \in Requests : WF_vars(Warn(r)) /\ WF_vars(TimeOut(r)))
=============================================================================
