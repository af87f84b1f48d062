----------------------------- MODULE CameraRecording -----------------------------
(***************************************************************************)
(* HomeKit Secure Video of one camera: RecordingManagement, its recording  *)
(* streams (CameraRecordingStream) and the settings it keeps over a        *)
(* restart.                                                                *)
(*                                                                         *)
(* A controller opens a stream on a data stream connection; packets come   *)
(* from an asynchronous generator of the plugin, which may return, throw   *)
(* or hang at any time.  The end of a stream can come from either side,    *)
(* from the connection, from a timer, or from the camera being switched    *)
(* off.  A connection is ready, then closing, then closed, as in           *)
(* DataStream.  Controllers acknowledge the end of a stream before they    *)
(* open another one on the same connection.                                *)
(***************************************************************************)
EXTENDS Naturals

CONSTANTS
  Streams,      \* streams controllers ask for
  Links,        \* data stream connections
  NoStream, NoLink

ASSUME CameraRecordingAssumption == NoStream \notin Streams /\ NoLink \notin Links

VARIABLES
  recordingActive,  \* recordingActive of the RecordingManagement
  activeValue,      \* value of the characteristic Active
  cameraActive,     \* value of HomeKitCameraActive
  configured,       \* a selectedConfiguration is there
  told,             \* what the delegate knows of Active and of the configuration
  disk,             \* what the controller storage has saved
  link,             \* data stream connection -> "ready", "closing", "closed"
  handler,          \* connection -> the stream registered as its DATA_SEND handler
  recordingStream,  \* the current stream
  streamOn,         \* stream -> its connection
  ended,            \* streams whose flag closed is set
  generator,        \* stream -> "none", "running", "returning" once the loop was left, "done"
  closingTimeout,   \* streams whose timer is set
  wire,             \* what the controller was sent of a stream, see Wire
  unacknowledged,   \* streams whose endOfStream was sent and not acknowledged
  endsTold,         \* stream -> number of times the delegate was told of its end
  wasReset          \* history: a factory reset since the process started

settings == <<recordingActive, activeValue, cameraActive, configured, told>>
streams  == <<handler, recordingStream, streamOn, ended, generator, closingTimeout, wire, unacknowledged, endsTold>>
recordingVars == <<settings, disk, link, streams, wasReset>>

\* Opened, at its last packet, closed by the accessory; or something was sent out of this order.
Wire == {"none", "opened", "ended", "closed", "illegal"}

Saved == [active : BOOLEAN, camera : BOOLEAN, configured : BOOLEAN]

RecordingTypeOK ==
  /\ recordingActive \in BOOLEAN /\ activeValue \in BOOLEAN
  /\ cameraActive \in BOOLEAN /\ configured \in BOOLEAN
  /\ told \in [active : BOOLEAN, configured : BOOLEAN]
  /\ disk \in Saved
  /\ link \in [Links -> {"ready", "closing", "closed"}]
  /\ handler \in [Links -> Streams \cup {NoStream}]
  /\ recordingStream \in Streams \cup {NoStream}
  /\ streamOn \in [Streams -> Links \cup {NoLink}]
  /\ ended \subseteq Streams
  /\ generator \in [Streams -> {"none", "running", "returning", "done"}]
  /\ closingTimeout \subseteq Streams
  /\ wire \in [Streams -> Wire]
  /\ unacknowledged \subseteq Streams
  /\ endsTold \in [Streams -> Nat]
  /\ wasReset \in BOOLEAN

NoStreams ==
  /\ link = [c \in Links |-> "ready"]
  /\ handler = [c \in Links |-> NoStream]
  /\ recordingStream = NoStream
  /\ streamOn = [i \in Streams |-> NoLink]
  /\ ended = {}
  /\ generator = [i \in Streams |-> "none"]
  /\ closingTimeout = {}
  /\ wire = [i \in Streams |-> "none"]
  /\ unacknowledged = {}
  /\ endsTold = [i \in Streams |-> 0]

\* The settings of a camera nobody has set up.
Defaults == [active |-> FALSE, camera |-> TRUE, configured |-> FALSE]

RecordingInit ==
  /\ recordingActive = FALSE /\ activeValue = FALSE
  /\ cameraActive = TRUE /\ configured = FALSE
  /\ told = [active |-> FALSE, configured |-> FALSE]
  /\ disk = Defaults
  /\ NoStreams
  /\ wasReset = FALSE

-----------------------------------------------------------------------------
(* Streams.                                                                *)

\* Mutant of Released: the handler of the connection is left in place.
ReleasedKeepsHandler(i) == UNCHANGED handler

\* The connection does not know the stream any more.
Released(i) ==
  handler' = [c \in Links |-> IF handler[c] = i THEN NoStream ELSE handler[c]]

\* A stream ends once, whatever ends it: the delegate is told and its place is free.
HandleClosed(i) ==
  IF i \in ended THEN UNCHANGED <<ended, closingTimeout, handler, endsTold, recordingStream>>
  ELSE /\ ended' = ended \cup {i}
       /\ closingTimeout' = closingTimeout \ {i}
       /\ Released(i)
       /\ endsTold' = [endsTold EXCEPT ![i] = @ + 1]
       /\ recordingStream' = NoStream

\* What the controller has seen of a stream after an event that is sent only on a ready connection.
AfterData(i, last) ==
  CASE link[streamOn[i]] # "ready" -> wire[i]
    [] link[streamOn[i]] = "ready" /\ wire[i] = "opened" -> IF last THEN "ended" ELSE "opened"
    [] OTHER -> "illegal"

AfterClose(i) ==
  CASE link[streamOn[i]] # "ready" -> wire[i]
    [] link[streamOn[i]] = "ready" /\ wire[i] \in {"opened", "ended"} -> "closed"
    [] OTHER -> "illegal"

\* The accessory closes the stream, for whatever reason.
CloseStream(i) ==
  /\ wire' = [wire EXCEPT ![i] = IF i \in ended THEN @ ELSE AfterClose(i)]
  /\ HandleClosed(i)

Free(i) == streamOn[i] = NoLink

Accepts == recordingActive /\ cameraActive /\ recordingStream = NoStream /\ configured

\* OPEN reaches handleDataSendOpen on a connection without a stream: it is accepted, or refused with
\* a reason and nothing else happens.  On a connection with a stream the handler of the stream takes
\* it and has no use for it: no answer is sent.
Open(c, i) ==
  /\ link[c] = "ready" /\ Free(i)
  /\ \A j \in unacknowledged : streamOn[j] # c
  /\ handler[c] = NoStream /\ Accepts
  /\ recordingStream' = i
  /\ streamOn' = [streamOn EXCEPT ![i] = c]
  /\ handler' = [handler EXCEPT ![c] = i]
  /\ generator' = [generator EXCEPT ![i] = "running"]
  /\ wire' = [wire EXCEPT ![i] = "opened"]
  /\ UNCHANGED <<settings, disk, link, wasReset, ended, closingTimeout, unacknowledged, endsTold>>

\* A packet is sent while the stream is open.
Sends(i) == i \notin ended

\* The generator yields a packet; after the last one, or when the stream has ended, the loop is left.
Packet(i, last) ==
  /\ generator[i] = "running"
  /\ IF Sends(i)
     THEN /\ wire' = [wire EXCEPT ![i] = AfterData(i, last)]
          /\ unacknowledged' = IF last /\ link[streamOn[i]] = "ready" THEN unacknowledged \cup {i} ELSE unacknowledged
          /\ generator' = [generator EXCEPT ![i] = IF last THEN "returning" ELSE "running"]
     ELSE /\ generator' = [generator EXCEPT ![i] = "returning"]
          /\ UNCHANGED <<wire, unacknowledged>>
  /\ UNCHANGED <<settings, disk, link, wasReset, handler, recordingStream, streamOn, ended, closingTimeout, endsTold>>

\* Mutant of Finally: nothing ends a stream the controller does not acknowledge.
FinallyNothing(i) == UNCHANGED closingTimeout

\* When the generator is done the controller has twelve seconds to end the stream.
Finally(i) == closingTimeout' = IF i \in ended THEN closingTimeout ELSE closingTimeout \cup {i}

\* The generator returns, by itself or as it was asked to.
Return(i) ==
  /\ generator[i] \in {"running", "returning"}
  /\ generator' = [generator EXCEPT ![i] = "done"]
  /\ Finally(i)
  /\ UNCHANGED <<settings, disk, link, wasReset, handler, recordingStream, streamOn, ended, wire, unacknowledged, endsTold>>

\* The generator throws: the stream is closed if it was open.
Throw(i) ==
  /\ generator[i] \in {"running", "returning"}
  /\ generator' = [generator EXCEPT ![i] = "done"]
  /\ CloseStream(i)
  /\ UNCHANGED <<settings, disk, link, wasReset, streamOn, unacknowledged>>

ClosingTimeout(i) ==
  /\ i \in closingTimeout
  /\ CloseStream(i)
  /\ UNCHANGED <<settings, disk, link, wasReset, streamOn, generator, unacknowledged>>

\* The controller acknowledges the end of stream i; the stream the connection has now, if any, ends.
\* The ids of the acknowledgement are not looked at.
DataSendAck(c, i) ==
  /\ link[c] = "ready" /\ streamOn[i] = c
  /\ i \in unacknowledged
  /\ unacknowledged' = unacknowledged \ {i}
  /\ IF handler[c] = NoStream
     THEN UNCHANGED <<ended, closingTimeout, handler, endsTold, recordingStream>>
     ELSE HandleClosed(handler[c])
  /\ UNCHANGED <<settings, disk, link, wasReset, streamOn, generator, wire>>

\* The controller closes a stream; nothing happens unless it is the one of the connection.
DataSendClose(c, i) ==
  /\ link[c] = "ready" /\ streamOn[i] = c
  /\ handler[c] = i
  /\ HandleClosed(i)
  /\ UNCHANGED <<settings, disk, link, wasReset, streamOn, generator, wire, unacknowledged>>

LinkClosing(c) ==
  /\ link[c] = "ready"
  /\ link' = [link EXCEPT ![c] = "closing"]
  /\ UNCHANGED <<settings, disk, streams, wasReset>>

\* The socket of a connection has closed; only a stream that has not ended listens to it.
LinkClosed(c) ==
  /\ link[c] \in {"ready", "closing"}
  /\ link' = [link EXCEPT ![c] = "closed"]
  /\ IF \E i \in Streams \ ended : streamOn[i] = c
     THEN HandleClosed(CHOOSE i \in Streams \ ended : streamOn[i] = c)
     ELSE UNCHANGED <<ended, closingTimeout, handler, endsTold, recordingStream>>
  /\ UNCHANGED <<settings, disk, wasReset, streamOn, generator, wire, unacknowledged>>

-----------------------------------------------------------------------------
(* Settings.  Those that change are handed to the controller storage, which *)
(* ControllerStorage is about; here they are on disk at once.              *)

\* serialize(): the flag is saved, not the characteristic.
Serialized(active, camera, selected) == [active |-> active, camera |-> camera, configured |-> selected]

\* A write of Active: the delegate is told when recordingActive changes.
SetActive(v) ==
  /\ activeValue' = v
  /\ recordingActive' = v
  /\ told' = [told EXCEPT !.active = IF v = recordingActive THEN @ ELSE v]
  /\ disk' = IF v = activeValue THEN disk ELSE Serialized(recordingActive', cameraActive, configured)
  /\ UNCHANGED <<cameraActive, configured, link, streams, wasReset>>

\* Switching the camera off ends the stream.
CameraSwitched(v) ==
  IF ~v /\ recordingStream # NoStream THEN CloseStream(recordingStream)
  ELSE UNCHANGED <<wire, ended, closingTimeout, handler, endsTold, recordingStream>>

SetCameraActive(v) ==
  /\ v # cameraActive
  /\ cameraActive' = v
  /\ disk' = Serialized(recordingActive, v, configured)
  /\ CameraSwitched(v)
  /\ UNCHANGED <<recordingActive, activeValue, configured, told, link, wasReset, streamOn, generator, unacknowledged>>

\* The controller selects a configuration.
SelectConfiguration ==
  /\ ~configured
  /\ configured' = TRUE
  /\ told' = [told EXCEPT !.configured = TRUE]
  /\ disk' = Serialized(recordingActive, cameraActive, TRUE)
  /\ UNCHANGED <<recordingActive, activeValue, cameraActive, link, streams, wasReset>>

\* The last pairing is gone, and the stored data with it.  Active is set without its set handler:
\* recordingActive stays.
RecordingFactoryReset ==
  /\ wasReset' = TRUE
  /\ configured' = FALSE
  /\ activeValue' = FALSE
  /\ cameraActive' = TRUE
  /\ told' = [active |-> FALSE, configured |-> FALSE]
  /\ disk' = Defaults
  /\ UNCHANGED <<recordingActive, link, streams>>

\* A delegate starts from inactive and is told what was restored.
ToldAtStart(kept) == [active |-> disk.active, configured |-> kept]

\* The process starts anew from what was saved; a configuration is dropped when the options of the
\* plugin have changed.
Restart(changed) ==
  LET kept == disk.configured /\ ~changed
  IN /\ recordingActive' = disk.active
     /\ activeValue' = disk.active
     /\ cameraActive' = disk.camera
     /\ configured' = kept
     /\ told' = ToldAtStart(kept)
     /\ disk' = [disk EXCEPT !.configured = kept]
     /\ link' = [c \in Links |-> "ready"]
     /\ handler' = [c \in Links |-> NoStream]
     /\ recordingStream' = NoStream
     /\ streamOn' = [i \in Streams |-> NoLink]
     /\ ended' = {}
     /\ generator' = [i \in Streams |-> "none"]
     /\ closingTimeout' = {}
     /\ wire' = [i \in Streams |-> "none"]
     /\ unacknowledged' = {}
     /\ endsTold' = [i \in Streams |-> 0]
     /\ wasReset' = FALSE

RecordingNext ==
  \/ \E c \in Links :
       \/ LinkClosing(c) \/ LinkClosed(c)
       \/ \E i \in Streams : Open(c, i) \/ DataSendAck(c, i) \/ DataSendClose(c, i)
  \/ \E i \in Streams :
       \/ Return(i) \/ Throw(i) \/ ClosingTimeout(i)
       \/ \E last \in BOOLEAN : Packet(i, last)
  \/ \E v \in BOOLEAN : SetActive(v) \/ SetCameraActive(v) \/ Restart(v)
  \/ SelectConfiguration \/ RecordingFactoryReset

\* Timers fire, and a connection that is closing closes.  Generators and controllers promise nothing.
RecordingFairness ==
  /\ \A i \in Streams : WF_recordingVars(ClosingTimeout(i))
  /\ \A c \in Links : WF_recordingVars(link[c] = "closing" /\ LinkClosed(c))

RecordingSpec == RecordingInit /\ [][RecordingNext]_recordingVars /\ RecordingFairness

-----------------------------------------------------------------------------
(* Properties.                                                             *)

\* "HAP-NodeJS won't send out any fragments from this point onwards": after its last packet or its
\* close the controller gets nothing more of a stream, but the one close of a stream it left
\* unacknowledged.
WireWellFormed == \A i \in Streams : wire[i] # "illegal"

\* Acknowledgement, close, end of the connection, timer, failure of the generator and the switch of
\* the camera race for the end of a stream: the delegate is told of it exactly once.
EndedOnce == \A i \in Streams : endsTold[i] = (IF i \in ended THEN 1 ELSE 0)

\* "only ever one ongoing recording stream request at a time", and it is the one its connection
\* hands messages to; none while the camera is switched off.
OneStream ==
  /\ \A i \in Streams : streamOn[i] # NoLink /\ i \notin ended <=> recordingStream = i
  /\ \A c \in Links : handler[c] # NoStream => handler[c] = recordingStream /\ streamOn[handler[c]] = c
  /\ recordingStream # NoStream => cameraActive

\* A stream whose generator is done, or whose connection goes, does not block the next recording.
RecordingReleased ==
  \A i \in Streams :
    generator[i] = "done" \/ (\E c \in Links : streamOn[i] = c /\ link[c] = "closing") ~> recordingStream # i

\* "notifies the CameraRecordingDelegate about a change to the CameraRecordingManagement.Active
\* characteristic", over writes and restarts, as long as the camera was not reset.
DelegateToldUntilReset ==
  ~wasReset => told = [active |-> activeValue, configured |-> configured]

\* The same with factory resets.
DelegateTold == told.active = activeValue

\* One recording at a time, sent in a legal order and ended once, with a delegate that knows the
\* settings the controllers chose.
RecordingInOrder ==
  RecordingTypeOK /\ WireWellFormed /\ EndedOnce /\ OneStream /\ DelegateToldUntilReset
=============================================================================
