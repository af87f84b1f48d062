-------------------------------- MODULE MCKept --------------------------------
(***************************************************************************)
(* What an accessory keeps from one run of the program to the next: files, ids, *)
(* controller data, services.                                              *)
(* Side by side: a behaviour is one of the component "subject", and the others *)
(* rest.  Nothing relates them here; one instance of TLC checks them all.  *)
(***************************************************************************)
EXTENDS FileStorage, ControllerStorage, AccessoryDatabase, AccessoryServices, TLC

CONSTANTS
  Subjects,        \* the components this instance looks at
  bridge, child, lamp, lock, info, childInfo, shared

VARIABLE subject

ASSUME SubjectsAssumption == Subjects \subseteq {"files", "controllers", "ids", "services"}

TwoProcesses == {bridge, child}
ThreeKeys == {info, childInfo, shared}
OneOwnerEach == info :> {bridge} @@ childInfo :> {child} @@ shared :> {bridge, child}
NoKeys == {}
OneBridged == {lamp}
TwoBridged == {lamp, lock}

Kinds == [s \in {"lamp", "night", "mic", "mic2", "speaker"} |->
            CASE s = "lamp"    -> <<"Lightbulb", "">>
              [] s = "night"   -> <<"Lightbulb", "night">>
              [] s = "mic"     -> <<"Microphone", "">>
              [] s = "mic2"    -> <<"Microphone", "">>
              [] s = "speaker" -> <<"Speaker", "">>]
Maps == [c \in {"camera"} |->
          {[in |-> "mic", out |-> "speaker"], [in |-> "mic2", out |-> "none"], [in |-> "mic", out |-> "none"]}]
Order == <<"in", "out">>

\* One initial state is enough for a component that rests; the bridge starts with all its services.
GroupInit ==
  /\ subject \in Subjects
  /\ Init
  /\ subject # "files" => key = [p \in Processes |-> info] /\ value = [p \in Processes |-> CHOOSE v \in Values : TRUE]
  /\ ControllerStorageInit
  /\ DatabaseInit
  /\ subject # "ids" => bridged = {} /\ services = [a \in Accessories |-> {}]
  /\ subject = "ids" => services[Root] = Services
  /\ ServicesInit

\* The component under consideration takes a step, the others rest.
GroupNext ==
  \/ subject = "files" /\ Next
       /\ UNCHANGED <<subject, storageVars, databaseVars, structureVars>>
  \/ subject = "controllers" /\ ControllerStorageNext
       /\ UNCHANGED <<subject, vars, databaseVars, structureVars>>
  \/ subject = "ids" /\ DatabaseNext
       /\ UNCHANGED <<subject, vars, storageVars, structureVars>>
  \/ subject = "services" /\ ServicesNext
       /\ UNCHANGED <<subject, vars, storageVars, databaseVars>>

groupVars == <<subject, vars, storageVars, databaseVars, structureVars>>

GroupSpec == GroupInit /\ [][GroupNext]_groupVars
=============================================================================
