-------------------------- MODULE AccessoryServices --------------------------
(***************************************************************************)
(* The structure of one accessory: its services, which of them is the      *)
(* primary one, the links between them, the controllers (camera, remote,   *)
(* ...) that own some of them, and what of it Accessory.serialize keeps    *)
(* for a later process.                                                    *)
(*                                                                         *)
(* A service is an object; one constructed anew comes without flag, links, *)
(* listeners and iid.  The accessory hears of the changes of a service     *)
(* through the listeners of setupServiceEventHandlers, and of what it has  *)
(* heard it tells the controllers once the configuration update has run.   *)
(* A method that throws half way leaves what it did.  Left out: the flag   *)
(* for hidden services, which nothing else depends on, and AccessoryInfor- *)
(* mation, which every accessory has.                                      *)
(***************************************************************************)
EXTENDS Naturals, FiniteSets, Sequences, SequencesExt

CONSTANTS
  PluginServices,      \* what the plugin adds and removes itself
  ControllerServices,  \* what controllers construct
  Kind,                \* service -> <<UUID, subtype>>
  NoSubtype, NoService,
  ServiceControllers, Slots,
  ServiceMaps,         \* controller -> the service maps it may construct: slot -> service or NoService
  SlotOrder,           \* the slots, in the order in which maps list them
  Types,               \* characteristic types that come and go
  MaxServices, MaxTypes,
  MaxEdits,            \* bound: changes by the plugin
  MaxRestores          \* bound: restarts of the process

\* The services in a map.
Mapped(map) == {map[slot] : slot \in Slots} \ {NoService}

ASSUME ServicesAssumption ==
  /\ PluginServices \cap ControllerServices = {}
  /\ NoService \notin PluginServices \cup ControllerServices
  /\ SlotOrder \in Seq(Slots) /\ ToSet(SlotOrder) = Slots
  /\ \A i, j \in DOMAIN SlotOrder : SlotOrder[i] = SlotOrder[j] => i = j
  \* A controller constructs a service for one slot of its own map.
  /\ \A c \in ServiceControllers : \A map \in ServiceMaps[c] :
       /\ map \in [Slots -> ControllerServices \cup {NoService}]
       /\ \A a, b \in Slots : map[a] = map[b] => a = b \/ map[a] = NoService
  /\ \A c, d \in ServiceControllers : c # d =>
       \A x \in ServiceMaps[c], y \in ServiceMaps[d] : Mapped(x) \cap Mapped(y) = {}
  /\ {MaxServices, MaxTypes, MaxEdits, MaxRestores} \subseteq Nat

VARIABLES
  structure,    \* the accessory object
  attached,     \* controllers: controller -> {} or {its service map}
  restorable,   \* serializedControllers: likewise
  numbered,     \* services that have an iid
  serialized,   \* {} or what serialize returned last
  announced,    \* the representation that was hashed last
  updating,     \* the configuration update is enqueued
  threw,        \* history: configureController threw
  edits, restores

structureVars ==
  <<structure, attached, restorable, numbered, serialized, announced, updating, threw, edits, restores>>

AllServices == PluginServices \cup ControllerServices
Held(m)   == ToSet(m.services)
OwnedBy(maps) == UNION {UNION {Mapped(map) : map \in maps[c]} : c \in ServiceControllers}

Unattached == [c \in ServiceControllers |-> {}]

(***************************************************************************)
(* What the methods of Accessory do to the structure m.  "updates": a      *)
(* configuration update was enqueued, "threw": the method ended there.     *)
(***************************************************************************)
Fresh(m, S) ==
  [m EXCEPT !.flagged = @ \ S, !.linked = [s \in AllServices |-> IF s \in S THEN {} ELSE @[s]],
            !.heard = @ \ S, !.types = [s \in AllServices |-> IF s \in S THEN {} ELSE @[s]]]

\* The service becomes the primary one, the one before it no longer is.
Promoted(m, s) == [m EXCEPT !.flagged = (@ \ {m.primary}) \cup {s}, !.primary = s]

\* Mutant of ConfigurationChange: the old primary service keeps its flag.
ConfigurationChangeOfOne(m, s) ==
  IF s \notin m.heard THEN m
  ELSE [m EXCEPT !.primary = IF s \in m.flagged THEN s ELSE @, !.updates = TRUE]

\* handleServiceConfigurationChangeEvent, for a service that is listened to.
ConfigurationChange(m, s) ==
  IF s \notin m.heard THEN m
  ELSE [(CASE s \notin m.flagged /\ s = m.primary -> [m EXCEPT !.primary = NoService]
           [] s \in m.flagged /\ s # m.primary    -> Promoted(m, s)
           [] OTHER -> m) EXCEPT !.updates = TRUE]

\* A second service of the same UUID needs a subtype of its own.
Conflicts(m, s) ==
  \E t \in Held(m) : Kind[t][1] = Kind[s][1] /\ Kind[s][2] \in {NoSubtype, Kind[t][2]}

WithService(m, s) ==
  IF m.threw \/ Conflicts(m, s) \/ Len(m.services) >= MaxServices THEN [m EXCEPT !.threw = TRUE]
  ELSE LET added == [m EXCEPT !.services = Append(@, s), !.heard = @ \cup {s}, !.updates = TRUE]
       IN  IF s \in m.flagged THEN Promoted(added, s) ELSE added

\* removeLinkedService tells of a change of every service that stays, linked or not.
Unlink(m, removed) ==
  LET after[i \in 0..Len(m.services)] ==
        IF i = 0 THEN m
        ELSE ConfigurationChange([after[i - 1] EXCEPT !.linked[m.services[i]] = @ \ {removed}], m.services[i])
  IN  after[Len(m.services)]

WithoutService(m, s) ==
  IF m.threw \/ s \notin Held(m) THEN m
  ELSE LET rest == [m EXCEPT !.services = RemoveFirst(@, s), !.primary = IF @ = s THEN NoService ELSE @]
       IN  [Unlink(rest, s) EXCEPT !.heard = @ \ {s}, !.updates = TRUE]

\* Slot by slot, the service that "out" has there is removed and the one that "in" has is added.
Exchanged(m, out, in) ==
  LET after[i \in 0..Len(SlotOrder)] ==
        IF i = 0 THEN m
        ELSE LET rest == WithoutService(after[i - 1], out[SlotOrder[i]])
             IN  IF in[SlotOrder[i]] = NoService THEN rest ELSE WithService(rest, in[SlotOrder[i]])
  IN  after[Len(SlotOrder)]

Only(map, slots) == [slot \in Slots |-> IF slot \in slots THEN map[slot] ELSE NoService]
Nothing == [slot \in Slots |-> NoService]

\* handleUpdatedControllerServiceMap: the slots both maps fill first, then what is gone, then what is new.
Replaced(m, old, new) ==
  LET both    == {slot \in Slots : old[slot] # NoService /\ new[slot] # NoService}
      changed == {slot \in both : old[slot] # new[slot]}
      swapped == Exchanged(m, Only(old, changed), Only(new, changed))
  IN  Exchanged(Exchanged(swapped, Only(old, Slots \ both), Nothing), Nothing, Only(new, Slots \ both))

(***************************************************************************)
(* serialize names services by UUID and subtype, links between them        *)
(* likewise, and keeps the data of controllers that were not configured.   *)
(***************************************************************************)
Named(S) == {Kind[s] : s \in S}

SerializedMaps(c) ==
  {[slot \in {t \in Slots : map[t] # NoService} |-> Kind[map[slot]]] : map \in attached[c] \cup restorable[c]}

Serialization ==
  [services |-> structure.services, flagged |-> structure.flagged, types |-> structure.types,
   linked |-> [s \in AllServices |-> IF s \in Held(structure) THEN Named(structure.linked[s]) ELSE {}],
   controllers |-> [c \in ServiceControllers |-> SerializedMaps(c)]]

\* A service that was saved comes back with its characteristics and its primary flag; links are
\* the accessory's to restore.
RestoredService(json, s) ==
  IF s \in ToSet(json.services) THEN [types |-> json.types[s], primary |-> s \in json.flagged]
  ELSE [types |-> {}, primary |-> FALSE]

\* _sideloadServices listens to the services; nothing sets primaryService.
Deserialized(json) ==
  LET named(kind) == {t \in ToSet(json.services) : Kind[t] = kind} IN
  [services |-> json.services, flagged |-> {s \in AllServices : RestoredService(json, s).primary}, primary |-> NoService,
   linked |-> [s \in AllServices |-> UNION {named(kind) : kind \in json.linked[s]}],
   types |-> [s \in AllServices |-> RestoredService(json, s).types],
   heard |-> ToSet(json.services), updates |-> TRUE, threw |-> FALSE]

DeserializedMaps(json) ==
  LET found(kind) == {t \in ToSet(json.services) : Kind[t] = kind} IN
  [c \in ServiceControllers |->
    {[slot \in Slots |-> IF slot \in DOMAIN named /\ found(named[slot]) # {}
                         THEN CHOOSE t \in found(named[slot]) : TRUE ELSE NoService] :
        named \in json.controllers[c]}]

-----------------------------------------------------------------------------
Empty == [services |-> <<>>, flagged |-> {}, primary |-> NoService,
          linked |-> [s \in AllServices |-> {}], types |-> [s \in AllServices |-> {}],
          heard |-> {}, updates |-> FALSE, threw |-> FALSE]

\* What a controller of the home is shown of structure m: services that have no iid are not linked to.
Shown(m, ids) ==
  [s \in Held(m) |-> [primary |-> s \in m.flagged, linked |-> m.linked[s] \cap ids, types |-> m.types[s]]]

Representation == Shown(structure, numbered)

ServicesInit ==
  /\ structure = Empty
  /\ attached = Unattached /\ restorable = Unattached
  /\ numbered = {} /\ serialized = {}
  /\ announced = Representation
  /\ updating = FALSE /\ threw = FALSE /\ edits = 0 /\ restores = 0

\* The structure becomes m.
Becomes(m) ==
  /\ structure' = [m EXCEPT !.updates = FALSE, !.threw = FALSE]
  /\ updating' = (updating \/ m.updates)

Edit == edits < MaxEdits /\ edits' = edits + 1

\* What the plugin does to services that no controller owns.
Free(s) == s \notin OwnedBy(attached) \cup OwnedBy(restorable)

PlainEdit(m) ==
  /\ Edit
  /\ Becomes(m)
  /\ UNCHANGED <<attached, restorable, numbered, serialized, announced, threw, restores>>

AddServiceTo(s) == ~WithService(structure, s).threw /\ PlainEdit(WithService(structure, s))

RemoveServiceFrom(s) == Free(s) /\ s \in Held(structure) /\ PlainEdit(WithoutService(structure, s))

SetPrimaryService(s, on) ==
  PlainEdit(ConfigurationChange([structure EXCEPT !.flagged = IF on THEN @ \cup {s} ELSE @ \ {s}], s))

\* "The service MUST be already added to the SAME accessory": the plugin keeps to that.
AddLinkedService(s, t) ==
  /\ t \in Held(structure) \ {s}
  /\ PlainEdit(ConfigurationChange([structure EXCEPT !.linked[s] = @ \cup {t}], s))

RemoveLinkedService(s, t) ==
  /\ t \in structure.linked[s]
  /\ PlainEdit(ConfigurationChange([structure EXCEPT !.linked[s] = @ \ {t}], s))

AddCharacteristic(s, type) ==
  /\ type \notin structure.types[s] /\ Cardinality(structure.types[s]) < MaxTypes
  /\ PlainEdit(ConfigurationChange([structure EXCEPT !.types[s] = @ \cup {type}], s))

RemoveCharacteristic(s, type) ==
  /\ type \in structure.types[s]
  /\ PlainEdit(ConfigurationChange([structure EXCEPT !.types[s] = @ \ {type}], s))

\* The objects of S can be those constructed just now: the structure does not know them.
Unknown(S) ==
  S \cap Held(structure) = {} /\ \A s \in AllServices \ S : S \cap structure.linked[s] = {}

\* configureController: with services of an earlier process (initWithServices returns the map it was
\* given or another), or with services constructed anew.
ConfigureRestored(c, old, new) ==
  LET built == Fresh(structure, Mapped(new) \ Mapped(old))
      m     == IF new = old THEN built ELSE Replaced(built, old, new)
  IN  /\ attached[c] = {}
      /\ Unknown(Mapped(new) \ Mapped(old))
      /\ Edit
      /\ Becomes(m)
      /\ threw' = (threw \/ m.threw)
      /\ attached' = IF m.threw THEN attached ELSE [attached EXCEPT ![c] = {new}]
      /\ restorable' = IF m.threw THEN restorable ELSE [restorable EXCEPT ![c] = {}]
      /\ numbered' = numbered \ (Mapped(new) \ Mapped(old))
      /\ UNCHANGED <<serialized, announced, restores>>

ConfigureNew(c, map) ==
  LET m == Exchanged(Fresh(structure, Mapped(map)), Nothing, map)
  IN  /\ attached[c] = {} /\ restorable[c] = {}
      /\ Unknown(Mapped(map))
      /\ Edit
      /\ Becomes(m)
      /\ threw' = (threw \/ m.threw)
      /\ attached' = IF m.threw THEN attached ELSE [attached EXCEPT ![c] = {map}]
      /\ numbered' = numbered \ Mapped(map)
      /\ UNCHANGED <<restorable, serialized, announced, restores>>

RemoveController(c) ==
  \E map \in attached[c] :
    /\ Edit
    /\ Becomes(Exchanged(structure, map, Nothing))
    /\ attached' = [attached EXCEPT ![c] = {}]
    /\ restorable' = [restorable EXCEPT ![c] = {}]
    /\ UNCHANGED <<numbered, serialized, announced, threw, restores>>

\* The debounced configuration update: ids are assigned, the representation is hashed.
UpdateConfiguration ==
  /\ updating
  /\ updating' = FALSE
  /\ numbered' = numbered \cup Held(structure)
  /\ announced' = Shown(structure, numbered')
  /\ UNCHANGED <<structure, attached, restorable, serialized, threw, edits, restores>>

Serialize ==
  /\ serialized # {Serialization}
  /\ serialized' = {Serialization}
  /\ UNCHANGED <<structure, attached, restorable, numbered, announced, updating, threw, edits, restores>>

\* A new process deserializes the accessory and publishes it.
Restore ==
  \E json \in serialized :
    /\ restores < MaxRestores
    /\ restores' = restores + 1
    /\ Becomes(Deserialized(json))
    /\ attached' = Unattached
    /\ restorable' = DeserializedMaps(json)
    /\ numbered' = {}
    /\ UNCHANGED <<serialized, announced, threw, edits>>

ServicesNext ==
  \/ \E s \in PluginServices : AddServiceTo(s) \/ RemoveServiceFrom(s)
  \/ \E s \in AllServices, on \in BOOLEAN : SetPrimaryService(s, on)
  \/ \E s, t \in AllServices : AddLinkedService(s, t) \/ RemoveLinkedService(s, t)
  \/ \E s \in PluginServices, type \in Types : AddCharacteristic(s, type) \/ RemoveCharacteristic(s, type)
  \/ \E c \in ServiceControllers, new \in UNION {ServiceMaps[d] : d \in ServiceControllers} :
       /\ new \in ServiceMaps[c]
       /\ ConfigureNew(c, new) \/ \E old \in restorable[c] : ConfigureRestored(c, old, new)
  \/ \E c \in ServiceControllers : RemoveController(c)
  \/ UpdateConfiguration \/ Serialize \/ Restore

ServicesSpec == ServicesInit /\ [][ServicesNext]_structureVars

ServicesTypeOK ==
  /\ Held(structure) \subseteq AllServices
  /\ structure.primary \in AllServices \cup {NoService}
  /\ structure.linked \in [AllServices -> SUBSET AllServices]
  /\ numbered \subseteq AllServices
  /\ \A c \in ServiceControllers : Cardinality(attached[c]) <= 1 /\ Cardinality(restorable[c]) <= 1
  /\ edits \in 0..MaxEdits /\ restores \in 0..MaxRestores

(***************************************************************************)
(* Properties.                                                             *)
(***************************************************************************)
\* Whatever the controllers of the home were not told of, a configuration update is on its way:
\* through the listeners on every service the accessory has, those of a restored accessory included,
\* and through add, remove and the links that go with a removed service.
ChangesAnnounced == announced # Representation => updating

\* The services of controllers are owned: each one in the accessory belongs to a controller that is
\* configured, or to the data of one that is not yet, and each owned service is in the accessory.
\* Otherwise a controller configured after a restart would construct its services a second time.
\* (A configureController that threw half way leaves its services behind.)
ControllersOwnServices ==
  ~threw => OwnedBy(attached) \cup OwnedBy(restorable) = Held(structure) \cap ControllerServices

\* Within one process the accessory's primaryService and the flags of its services agree; a restored
\* structure may have several services with the flag (OnePrimary).
PrimaryAgrees ==
  restores = 0 => structure.flagged \cap Held(structure) = {structure.primary} \ {NoService}

\* "Any currently active primary service will be reset to be not primary."
OnePrimary == Cardinality(structure.flagged \cap Held(structure)) <= 1

\* A link to a service that is not added to the accessory is not shown.
LinksExist == \A s \in Held(structure) : Representation[s].linked \subseteq Held(structure)

\* Accessory, services and controllers agree about the structure, and its changes are announced.
ServicesAgree == ServicesTypeOK /\ ChangesAnnounced /\ ControllersOwnServices /\ PrimaryAgrees
==============================================================================
