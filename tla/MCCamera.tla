------------------------------- MODULE MCCamera -------------------------------
(***************************************************************************)
(* A camera: its recordings, streaming sessions, services and snapshots, packets. *)
(* Side by side: a behaviour is one of the component "subject", and the others *)
(* rest.  Nothing relates them here; one instance of TLC checks them all.  *)
(***************************************************************************)
EXTENDS CameraRecording, CameraStreaming, CameraServices, RTPPackets

CONSTANTS
  Subjects,        \* the components this instance looks at
  c1, c2, i1, i2, s1, s2, none

VARIABLE subject

ASSUME SubjectsAssumption == Subjects \subseteq {"recording", "streaming", "services", "packets"}

TwoRecordings == {i1, i2}
TwoConnections == {c1, c2}
TwoSessions == {s1, s2}

OneSensor == {"motionService"}
SomeOptions ==
  {[streams |-> n, audio |-> IF n = 1 THEN "none" ELSE "twoWay", recording |-> r,
    sensors |-> [s \in OneSensor |-> x], doorbell |-> d] :
     n \in 1..2, r \in BOOLEAN, x \in {"absent", "own", "external"},
     d \in {"absent", "own", "external"}}
TwoStreams == <<"stream0", "stream1">>

\* One initial state is enough for a component that rests.
GroupInit ==
  /\ subject \in Subjects
  /\ RecordingInit
  /\ StreamingInit
  /\ subject # "streaming" => requireProxy /\ enabled
  /\ CameraInit
  /\ subject # "services" => camera.options = CHOOSE o \in CameraOptions : TRUE
  /\ PacketsInit
  /\ subject # "packets" => ~disabled /\ source = CHOOSE t \in Types : TRUE

\* The component under consideration takes a step, the others rest.
GroupNext ==
  \/ subject = "recording" /\ RecordingNext
       /\ UNCHANGED <<subject, streamingVars, cameraVars, packetVars>>
  \/ subject = "streaming" /\ StreamingNext
       /\ UNCHANGED <<subject, recordingVars, cameraVars, packetVars>>
  \/ subject = "services" /\ CameraNext
       /\ UNCHANGED <<subject, recordingVars, streamingVars, packetVars>>
  \/ subject = "packets" /\ PacketsNext
       /\ UNCHANGED <<subject, recordingVars, streamingVars, cameraVars>>

groupVars == <<subject, recordingVars, streamingVars, cameraVars, packetVars>>

GroupSpec == GroupInit /\ [][GroupNext]_groupVars /\ RecordingFairness
=============================================================================
