---------------------------- MODULE CameraServices ----------------------------
(***************************************************************************)
(* A camera (CameraController, DoorbellController) on its accessory: the   *)
(* services it constructs or, in a later process with perhaps other        *)
(* options, reconciles with those of the cached accessory; and the         *)
(* snapshots it serves, which the operating mode may forbid and which the  *)
(* plugin's delegate may answer late, twice, or by throwing.               *)
(*                                                                         *)
(* The services are named by the slots of the service map.  A sensor may   *)
(* be constructed by the camera ("own"), supplied by the plugin            *)
(* ("external"), which then adds it to the accessory itself, or absent;    *)
(* the doorbell likewise.  The process caches the accessory at any moment. *)
(* What Accessory does with a service map is the subject of                *)
(* AccessoryServices: here it always succeeds.                             *)
(***************************************************************************)
EXTENDS Naturals, Sequences

CONSTANTS
  CameraOptions,     \* the options of the constructor
  StreamSlots,       \* the slots of stream managements, in order a sequence
  Sensors,           \* slots of sensors: motionService, occupancyService
  MaxProcesses,      \* bound: processes, each with options of its own
  MaxSnapshots       \* bound: snapshot requests

ASSUME CameraAssumption ==
  /\ CameraOptions \subseteq [streams : 1..Len(StreamSlots), audio : {"none", "oneWay", "twoWay"},
                             recording : BOOLEAN, sensors : [Sensors -> {"absent", "own", "external"}],
                             doorbell : {"absent", "own", "external"}]
  /\ MaxProcesses \in Nat \ {0} /\ MaxSnapshots \in Nat

VARIABLES
  camera,           \* the controller: its options, what is left of them, whether it is configured
  cameraMap,        \* slots of its service map
  onAccessory,      \* slots of its services that the accessory has
  sensorLinks,      \* what the recording management service links to: sensor -> "own", "external", "lost"
  cached,           \* the accessory as it was cached last: {} or {record}
  policy,           \* the switches of the home: streaming, camera, event and periodic snapshots
  snapshot,         \* the snapshot request
  processes, snapshots

cameraVars == <<camera, cameraMap, onAccessory, sensorLinks, cached, policy, snapshot, processes, snapshots>>

RecordingSlots == {"cameraEventRecordingManagement", "cameraOperatingMode", "dataStreamTransportManagement"}
AudioSlots(audio) ==
  (IF audio # "none" THEN {"microphone"} ELSE {}) \cup (IF audio = "twoWay" THEN {"speaker"} ELSE {})
OwnSensors(o) == {sensor \in Sensors : o.sensors[sensor] = "own"}

\* The services that options ask for.
Wanted(o) ==
  {StreamSlots[i] : i \in 1..o.streams} \cup AudioSlots(o.audio) \cup OwnSensors(o)
    \cup (IF o.recording THEN RecordingSlots ELSE {})
    \cup (IF o.doorbell = "own" THEN {"doorbell"} ELSE {})

NoLinks == [sensor \in Sensors |-> {}]
(***************************************************************************)
(* The parts of _initWithServices: what becomes of the slots of a map.     *)
(***************************************************************************)
StreamsIn(o) == {StreamSlots[i] : i \in 1..o.streams}

\* Mutant: a microphone that is no longer wanted stays.
AudioKept(map, o) == AudioSlots(o.audio) \cup (map \cap {"microphone", "speaker"})

AudioIn(map, o) == AudioSlots(o.audio)

\* Unless all three are there, all three are made anew.
KeepsRecording(map, o) == o.recording /\ RecordingSlots \subseteq map
RecordingIn(o) == IF o.recording THEN RecordingSlots ELSE {}

\* A sensor that the map lacks is constructed, but never put into the map.
SensorsIn(map, o) == OwnSensors(o) \cap map

DoorbellIn(o) == IF o.doorbell = "own" THEN {"doorbell"} ELSE {}

SlotsAfter(map, o) ==
  StreamsIn(o) \cup AudioIn(map, o) \cup RecordingIn(o) \cup SensorsIn(map, o) \cup DoorbellIn(o)

\* Links are made only when there is recording; a fresh recording management has none yet.
LinksAfter(map, o, links) ==
  LET kept == IF KeepsRecording(map, o) THEN links ELSE NoLinks IN
  [sensor \in Sensors |->
    IF ~o.recording THEN {}
    ELSE CASE o.sensors[sensor] = "own"      -> kept[sensor] \cup {IF sensor \in map THEN "own" ELSE "lost"}
           [] o.sensors[sensor] = "external" -> (IF sensor \in map THEN kept[sensor] \ {"own"} ELSE kept[sensor])
                                                  \cup {"external"}
           [] OTHER -> IF sensor \in map THEN kept[sensor] \ {"own"} ELSE kept[sensor]]

-----------------------------------------------------------------------------
AllOn == [streaming |-> TRUE, active |-> TRUE, event |-> TRUE, periodic |-> TRUE]
NoSnapshot == [stage |-> "none", calls |-> 0, answers |-> 0, verdict |-> "none"]

Constructed(o) == [options |-> o, given |-> o, stage |-> "constructed", again |-> FALSE]

CameraInit ==
  /\ \E o \in CameraOptions : camera = Constructed(o)
  /\ cameraMap = {} /\ onAccessory = {} /\ sensorLinks = NoLinks /\ cached = {}
  /\ policy = AllOn
  /\ snapshot = NoSnapshot
  /\ processes = 1 /\ snapshots = 0

\* After init, the recording and the sensor options are forgotten, the doorbell's as well; the sensors remain.
Forgotten(o) ==
  [o EXCEPT !.recording = FALSE, !.doorbell = IF @ = "external" THEN "lost" ELSE @,
            !.sensors = [sensor \in Sensors |-> IF @[sensor] = "own" THEN "own" ELSE "absent"]]

Configured(map) ==
  /\ camera' = [camera EXCEPT !.stage = "configured", !.options = Forgotten(camera.options)]
  /\ cameraMap' = map

\* deserialize: what recording switched off nobody could switch on again without it.
PolicyAfter(map, o) ==
  IF RecordingSlots \subseteq map /\ ~o.recording THEN [policy EXCEPT !.streaming = TRUE] ELSE policy

\* configureController when nothing of it is cached: constructServices.
ConstructServices ==
  /\ camera.stage = "constructed" /\ cameraMap = {}
  /\ Configured(Wanted(camera.options))
  /\ onAccessory' = onAccessory \cup Wanted(camera.options)
  /\ sensorLinks' = [sensor \in Sensors |->
       IF camera.options.recording /\ camera.options.sensors[sensor] # "absent"
       THEN {camera.options.sensors[sensor]} ELSE {}]
  /\ UNCHANGED <<cached, policy, snapshot, processes, snapshots>>

\* ... and when there is: initWithServices; only a map that changed is acted upon.
InitWithServices ==
  LET map == SlotsAfter(cameraMap, camera.options) IN
  /\ camera.stage = "constructed" /\ cameraMap # {}
  /\ Configured(map)
  /\ onAccessory' = IF map = cameraMap THEN onAccessory ELSE (onAccessory \ cameraMap) \cup map
  /\ sensorLinks' = LinksAfter(cameraMap, camera.options, sensorLinks)
  /\ policy' = PolicyAfter(cameraMap, camera.options)
  /\ UNCHANGED <<cached, snapshot, processes, snapshots>>

\* removeController, after which the plugin may configure the same object again.
RemoveCamera ==
  /\ camera.stage = "configured"
  /\ camera' = [camera EXCEPT !.stage = "constructed", !.again = TRUE]
  /\ cameraMap' = {}
  /\ onAccessory' = onAccessory \ cameraMap
  /\ sensorLinks' = NoLinks
  /\ policy' = AllOn
  /\ snapshot' = NoSnapshot   \* a request of the removed camera is no longer followed
  /\ UNCHANGED <<cached, processes, snapshots>>

CacheAccessory ==
  LET json == [map |-> cameraMap, on |-> onAccessory,
               links |-> [sensor \in Sensors |-> sensorLinks[sensor] \ {"lost"}]] IN
  /\ cached # {json}
  /\ cached' = {json}
  /\ UNCHANGED <<camera, cameraMap, onAccessory, sensorLinks, policy, snapshot, processes, snapshots>>

\* A new process, with other options perhaps, deserializes the accessory.
NewProcess ==
  \E json \in cached, o \in CameraOptions :
    /\ processes < MaxProcesses
    /\ processes' = processes + 1
    /\ camera' = Constructed(o)
    /\ cameraMap' = json.map /\ onAccessory' = json.on /\ sensorLinks' = json.links
    /\ snapshot' = NoSnapshot
    /\ policy' = policy   \* kept by the controller storage
    /\ UNCHANGED <<cached, snapshots>>

(***************************************************************************)
(* Snapshots.                                                              *)
(***************************************************************************)
\* The home writes the switches; those of the operating mode exist only with recording.
SwitchPolicy(switch) ==
  /\ camera.stage = "configured"
  /\ switch # "streaming" => RecordingSlots \subseteq cameraMap
  /\ policy' = [policy EXCEPT ![switch] = ~@]
  /\ UNCHANGED <<camera, cameraMap, onAccessory, sensorLinks, cached, snapshot, processes, snapshots>>

Refused(reason) ==
  \/ ~policy.streaming
  \/ /\ RecordingSlots \subseteq cameraMap
     /\ \/ ~policy.active
        \/ ~policy.event /\ reason \in {"none", "event"}
        \/ ~policy.periodic /\ reason \in {"none", "periodic"}

Answered(s, verdict) == [s EXCEPT !.answers = @ + 1, !.verdict = verdict, !.stage = "over"]

\* The callback of the delegate: only the first call counts, and none after the timeout.
CalledBack(s, verdict) ==
  IF s.stage \in {"waiting", "slow"} THEN [Answered(s, verdict) EXCEPT !.calls = @ + 1]
  ELSE [s EXCEPT !.calls = @ + 1]

Threw(s) == IF s.stage \in {"waiting", "slow"} THEN Answered(s, "error") ELSE s

Verdicts == {"image", "error"}    \* an empty image is an error

\* What the delegate does before it returns.
DelegateCalled(s) ==
  {s, Threw(s)} \cup UNION {{CalledBack(s, v), Threw(CalledBack(s, v))} : v \in Verdicts}

HandleSnapshotRequest(reason) ==
  /\ snapshot.stage \in {"none", "over"} /\ snapshots < MaxSnapshots
  /\ snapshots' = snapshots + 1
  /\ IF camera.stage # "configured" \/ Refused(reason) THEN snapshot' = Answered(NoSnapshot, "error")
     ELSE snapshot' \in DelegateCalled([NoSnapshot EXCEPT !.stage = "waiting"])
  /\ UNCHANGED <<camera, cameraMap, onAccessory, sensorLinks, cached, policy, processes>>

SnapshotMoves(s) ==
  /\ snapshot' = s
  /\ UNCHANGED <<camera, cameraMap, onAccessory, sensorLinks, cached, policy, processes, snapshots>>

DelegateAnswers(verdict) ==
  snapshot.stage # "none" /\ snapshot.calls < 2 /\ SnapshotMoves(CalledBack(snapshot, verdict))
SnapshotWarning == snapshot.stage = "waiting" /\ SnapshotMoves([snapshot EXCEPT !.stage = "slow"])
SnapshotTimeout == snapshot.stage = "slow" /\ SnapshotMoves(Answered(snapshot, "error"))

CameraNext ==
  \/ ConstructServices \/ InitWithServices \/ RemoveCamera \/ CacheAccessory \/ NewProcess
  \/ \E switch \in DOMAIN policy : SwitchPolicy(switch)
  \/ \E reason \in {"none", "event", "periodic"} : HandleSnapshotRequest(reason)
  \/ \E verdict \in Verdicts : DelegateAnswers(verdict)
  \/ SnapshotWarning \/ SnapshotTimeout

CameraSpec == CameraInit /\ [][CameraNext]_cameraVars

CameraTypeOK ==
  /\ camera.stage \in {"constructed", "configured"} /\ camera.given \in CameraOptions
  /\ cameraMap \cup onAccessory \subseteq
       UNION {Wanted(o) : o \in CameraOptions}
  /\ sensorLinks \in [Sensors -> SUBSET {"own", "external", "lost"}]
  /\ snapshot.stage \in {"none", "waiting", "slow", "over"}
  /\ processes \in 1..MaxProcesses /\ snapshots \in 0..MaxSnapshots

(***************************************************************************)
(* Properties.                                                             *)
(***************************************************************************)
\* Whatever options the processes before had and whenever they cached the accessory, a configured
\* camera has the services its options ask for and no other; only a sensor that is new may miss.
\* The sensors that trigger recordings are linked to the recording management.
\* (A camera configured again after its removal has lost options.)
ServicesAsConfigured ==
  camera.stage = "configured" /\ ~camera.again =>
    /\ onAccessory = cameraMap
    /\ onAccessory \ Sensors = Wanted(camera.given) \ Sensors
    /\ onAccessory \cap Sensors \subseteq Wanted(camera.given)
    /\ \A sensor \in Sensors : camera.given.recording /\ camera.given.sensors[sensor] # "absent"
         => sensorLinks[sensor] # {}

\* A snapshot request is answered once, whatever the delegate and the timers do.
SnapshotAnsweredOnce == snapshot.answers = (IF snapshot.stage = "over" THEN 1 ELSE 0)

\* A sensor that the options of this process ask for is on the accessory.
SensorsAsConfigured ==
  camera.stage = "configured" /\ ~camera.again => OwnSensors(camera.given) \subseteq onAccessory

\* "The controller object will be restored to its initial state", so it can be configured again.
CameraRestored ==
  camera.stage = "configured" => onAccessory \ Sensors = Wanted(camera.given) \ Sensors

\* A camera has the services it was configured with, and a snapshot is answered once.
CameraServed == CameraTypeOK /\ ServicesAsConfigured /\ SnapshotAnsweredOnce
===============================================================================
