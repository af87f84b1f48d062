------------------------------- MODULE Camera_proofs -------------------------------
(***************************************************************************)
(* Proofs about a camera, for any number of streams, sessions and          *)
(* connections: CameraRecording, whose streams end once and in a legal     *)
(* order, CameraStreaming, whose sessions end with their connection, and   *)
(* CameraServices, whose services are those of the options.                *)
(***************************************************************************)
EXTENDS CameraRecording, CameraStreaming, CameraServices, RTPPackets, Induction_proofs, TLAPS

-----------------------------------------------------------------------------
(* CameraRecording: the inductive invariant.  That a stream is closed in a *)
(* legal order needs what the wire has seen of it as long as it has not    *)
(* ended, and that it ends once and alone needs that nothing is known of a *)
(* stream before it is opened.                                             *)

\* A stream that was not opened has left no trace.
UnopenedUntouched ==
  \A i \in Streams : streamOn[i] = NoLink =>
    /\ i \notin ended /\ i \notin closingTimeout
    /\ generator[i] = "none"

\* Until it ends a stream can be closed, and sent packets while its generator runs.
OpenUntilEnded ==
  \A i \in Streams : streamOn[i] # NoLink /\ i \notin ended =>
    /\ wire[i] \in {"opened", "ended"}
    /\ generator[i] = "running" => wire[i] = "opened"

\* Until a factory reset the flag and the characteristic are the same.
ActiveFollows == ~wasReset => recordingActive = activeValue

RecordingIInv ==
  /\ RecordingTypeOK
  /\ UnopenedUntouched
  /\ OpenUntilEnded
  /\ WireWellFormed
  /\ EndedOnce
  /\ OneStream
  /\ DelegateToldUntilReset
  /\ ActiveFollows

\* Whatever ends a stream, it has ended, the delegate was told once, and the place is free if it was
\* taken (handleClosed).
LEMMA EndsOnce ==
  ASSUME RecordingIInv, NEW i \in Streams, streamOn[i] # NoLink, HandleClosed(i), UNCHANGED streamOn
  PROVE  /\ ended' = ended \cup {i}
         /\ closingTimeout' \subseteq closingTimeout
         /\ handler' \in [Links -> Streams \cup {NoStream}]
         /\ recordingStream' \in {recordingStream, NoStream}
         /\ endsTold' \in [Streams -> Nat]
         /\ EndedOnce'
         /\ \A j \in Streams : streamOn'[j] # NoLink /\ j \notin ended' <=> recordingStream' = j
         /\ \A c \in Links : handler'[c] # NoStream =>
              handler'[c] = recordingStream' /\ streamOn'[handler'[c]] = c
<1> USE CameraRecordingAssumption
<1>1. CASE i \in ended
  BY <1>1 DEF RecordingIInv, RecordingTypeOK, HandleClosed, EndedOnce, OneStream
<1>2. CASE i \notin ended
  <2>1. recordingStream = i
    BY <1>2 DEF RecordingIInv, OneStream
  <2>2. /\ ended' = ended \cup {i}
        /\ closingTimeout' \subseteq closingTimeout
        /\ recordingStream' = NoStream
        /\ endsTold' = [endsTold EXCEPT ![i] = @ + 1]
        /\ handler' = [c \in Links |-> IF handler[c] = i THEN NoStream ELSE handler[c]]
    BY <1>2 DEF HandleClosed, Released
  <2>3. handler' \in [Links -> Streams \cup {NoStream}]
    BY <2>2 DEF RecordingIInv, RecordingTypeOK
  <2>4. endsTold' \in [Streams -> Nat] /\ EndedOnce'
    BY <1>2, <2>2 DEF RecordingIInv, RecordingTypeOK, EndedOnce
  <2>5. \A j \in Streams : streamOn'[j] # NoLink /\ j \notin ended' <=> recordingStream' = j
    BY <2>1, <2>2 DEF RecordingIInv, OneStream
  <2>6. \A c \in Links : handler'[c] = NoStream
    BY <2>1, <2>2 DEF RecordingIInv, RecordingTypeOK, OneStream
  <2> QED BY <2>2, <2>3, <2>4, <2>5, <2>6
<1> QED BY <1>1, <1>2

\* A stream the accessory closes was open: its close is legal (CameraRecordingStream.close).
LEMMA ClosesLegally ==
  ASSUME RecordingIInv, NEW i \in Streams, streamOn[i] # NoLink,
         wire' = [wire EXCEPT ![i] = IF i \in ended THEN @ ELSE AfterClose(i)]
  PROVE  /\ wire' \in [Streams -> Wire]
         /\ \A j \in Streams : wire'[j] # "illegal"
         /\ \A j \in Streams : j # i => wire'[j] = wire[j]
<1>1. i \notin ended => AfterClose(i) \in {wire[i], "closed"}
  BY DEF RecordingIInv, OpenUntilEnded, AfterClose
<1> QED BY <1>1 DEF RecordingIInv, RecordingTypeOK, WireWellFormed, Wire

\* The stream that is being recorded was opened and has not ended (OneStream, used by name below).
LEMMA CurrentIsOpen ==
  ASSUME RecordingIInv
  PROVE  /\ recordingStream # NoStream =>
              recordingStream \in Streams /\ streamOn[recordingStream] # NoLink /\ recordingStream \notin ended
         /\ \A c \in Links : handler[c] # NoStream => handler[c] = recordingStream
BY DEF RecordingIInv, RecordingTypeOK, OneStream


\* The steps that end a stream: an acknowledgement, a close, the end of its connection, the timer, a
\* failure of the generator, the switch of the camera.
LEMMA EndingPreserves ==
  ASSUME RecordingIInv, NEW i \in Streams, streamOn[i] # NoLink, HandleClosed(i),
         \/ UNCHANGED wire
         \/ wire' = [wire EXCEPT ![i] = IF i \in ended THEN @ ELSE AfterClose(i)],
         generator' \in {generator, [generator EXCEPT ![i] = "done"]},
         unacknowledged' \subseteq unacknowledged,
         link' \in [Links -> {"ready", "closing", "closed"}],
         disk' \in Saved, cameraActive' \in BOOLEAN,
         recordingStream' # NoStream => cameraActive',
         UNCHANGED <<streamOn, recordingActive, activeValue, configured, told, wasReset>>
  PROVE  RecordingIInv'
<1> USE CameraRecordingAssumption
<1>1. /\ ended' = ended \cup {i}
      /\ closingTimeout' \subseteq closingTimeout
      /\ handler' \in [Links -> Streams \cup {NoStream}]
      /\ recordingStream' \in {recordingStream, NoStream}
      /\ endsTold' \in [Streams -> Nat]
      /\ EndedOnce'
      /\ \A j \in Streams : streamOn'[j] # NoLink /\ j \notin ended' <=> recordingStream' = j
      /\ \A c \in Links : handler'[c] # NoStream =>
           handler'[c] = recordingStream' /\ streamOn'[handler'[c]] = c
  BY EndsOnce
<1>2. /\ wire' \in [Streams -> Wire]
      /\ \A j \in Streams : wire'[j] # "illegal"
      /\ \A j \in Streams : j # i => wire'[j] = wire[j]
  <2>1. CASE UNCHANGED wire
    BY <2>1 DEF RecordingIInv, RecordingTypeOK, WireWellFormed
  <2>2. CASE wire' = [wire EXCEPT ![i] = IF i \in ended THEN @ ELSE AfterClose(i)]
    BY <2>2, ClosesLegally
  <2> QED BY <2>1, <2>2
<1>3. /\ generator' \in [Streams -> {"none", "running", "returning", "done"}]
      /\ \A j \in Streams : j # i => generator'[j] = generator[j]
  BY DEF RecordingIInv, RecordingTypeOK
<1>4. RecordingTypeOK'
  BY <1>1, <1>2, <1>3 DEF RecordingIInv, RecordingTypeOK
<1>5. UnopenedUntouched'
  BY <1>1, <1>3 DEF RecordingIInv, UnopenedUntouched
<1>6. OpenUntilEnded'
  BY <1>1, <1>2, <1>3 DEF RecordingIInv, OpenUntilEnded
<1>7. WireWellFormed' /\ OneStream'
  BY <1>1, <1>2 DEF WireWellFormed, OneStream
<1>8. DelegateToldUntilReset' /\ ActiveFollows'
  BY DEF RecordingIInv, DelegateToldUntilReset, ActiveFollows
<1> QED BY <1>1, <1>4, <1>5, <1>6, <1>7, <1>8 DEF RecordingIInv

\* A step that leaves the streams as they are, but for what is not yet known of the end of one.
LEMMA QuietPreserves ==
  ASSUME RecordingIInv, UNCHANGED <<handler, recordingStream, streamOn, ended, wire, endsTold>>,
         closingTimeout' \subseteq Streams,
         \A i \in closingTimeout' : streamOn[i] # NoLink,
         unacknowledged' \subseteq Streams,
         generator' \in [Streams -> {"none", "running", "returning", "done"}],
         \A i \in Streams : generator'[i] # generator[i] =>
           generator'[i] # "running" /\ streamOn[i] # NoLink,
         link' \in [Links -> {"ready", "closing", "closed"}],
         recordingActive' \in BOOLEAN, activeValue' \in BOOLEAN, cameraActive' \in BOOLEAN,
         configured' \in BOOLEAN, told' \in [active : BOOLEAN, configured : BOOLEAN],
         disk' \in Saved, wasReset' \in BOOLEAN,
         recordingStream # NoStream => cameraActive',
         DelegateToldUntilReset', ActiveFollows'
  PROVE  RecordingIInv'
<1>1. RecordingTypeOK'
  BY DEF RecordingIInv, RecordingTypeOK
<1>2. UnopenedUntouched' /\ OpenUntilEnded' /\ WireWellFormed' /\ EndedOnce'
  BY DEF RecordingIInv, RecordingTypeOK, UnopenedUntouched, OpenUntilEnded, WireWellFormed, EndedOnce
<1>3. OneStream'
  BY DEF RecordingIInv, RecordingTypeOK, OneStream
<1> QED BY <1>1, <1>2, <1>3 DEF RecordingIInv


\* Open: its stream was not opened before, and there is no other.
LEMMA OpenPreserves ==
  ASSUME RecordingIInv, NEW c \in Links, NEW i \in Streams, Open(c, i)
  PROVE  RecordingIInv'
<1> USE CameraRecordingAssumption
<1>1. recordingStream = NoStream /\ cameraActive /\ streamOn[i] = NoLink
  BY DEF Open, Accepts, Free
<1>2. i \notin ended /\ i \notin closingTimeout
  BY <1>1 DEF RecordingIInv, UnopenedUntouched
<1>3. /\ recordingStream' = i
      /\ streamOn' = [streamOn EXCEPT ![i] = c]
      /\ handler' = [handler EXCEPT ![c] = i]
      /\ generator' = [generator EXCEPT ![i] = "running"]
      /\ wire' = [wire EXCEPT ![i] = "opened"]
      /\ UNCHANGED <<settings, disk, link, wasReset, ended, closingTimeout, unacknowledged, endsTold>>
  BY DEF Open
<1>4. RecordingTypeOK'
  BY <1>3 DEF RecordingIInv, RecordingTypeOK, Wire, settings
<1>5. UnopenedUntouched'
  BY <1>1, <1>2, <1>3 DEF RecordingIInv, RecordingTypeOK, UnopenedUntouched
<1>6. OpenUntilEnded'
  BY <1>1, <1>2, <1>3 DEF RecordingIInv, RecordingTypeOK, OpenUntilEnded
<1>7. WireWellFormed' /\ EndedOnce'
  BY <1>3 DEF RecordingIInv, RecordingTypeOK, WireWellFormed, EndedOnce
<1>8. \A d \in Links : handler[d] = NoStream
  BY <1>1, CurrentIsOpen
<1>9. OneStream'
  <2>1. \A j \in Streams : streamOn'[j] # NoLink /\ j \notin ended' <=> recordingStream' = j
    <3>1. \A j \in Streams : ~(streamOn[j] # NoLink /\ j \notin ended)
      BY <1>1 DEF RecordingIInv, OneStream
    <3>2. \A j \in Streams : j # i => streamOn'[j] = streamOn[j]
      BY <1>3 DEF RecordingIInv, RecordingTypeOK
    <3>3. streamOn'[i] = c /\ c # NoLink
      BY <1>3 DEF RecordingIInv, RecordingTypeOK
    <3> QED BY <1>2, <1>3, <3>1, <3>2, <3>3
  <2>2. \A d \in Links : handler'[d] # NoStream => handler'[d] = recordingStream' /\ streamOn'[handler'[d]] = d
    BY <1>3, <1>8 DEF RecordingIInv, RecordingTypeOK
  <2> QED BY <1>1, <1>3, <2>1, <2>2 DEF OneStream, settings
<1>10. DelegateToldUntilReset' /\ ActiveFollows'
  BY <1>3 DEF RecordingIInv, DelegateToldUntilReset, ActiveFollows, settings
<1> QED BY <1>4, <1>5, <1>6, <1>7, <1>9, <1>10 DEF RecordingIInv

\* Packet: a packet of an open stream is sent in a legal order; that of one that has ended is not.
LEMMA PacketPreserves ==
  ASSUME RecordingIInv, NEW i \in Streams, NEW last \in BOOLEAN, Packet(i, last)
  PROVE  RecordingIInv'
<1>1. /\ generator[i] = "running"
      /\ UNCHANGED <<settings, disk, link, wasReset, handler, recordingStream, streamOn, ended,
                     closingTimeout, endsTold>>
  BY DEF Packet
<1>2. streamOn[i] # NoLink
  BY <1>1 DEF RecordingIInv, UnopenedUntouched
<1>3. CASE i \in ended
  <2>1. generator' = [generator EXCEPT ![i] = "returning"] /\ UNCHANGED <<wire, unacknowledged>>
    BY <1>3 DEF Packet, Sends
  <2>2. generator' \in [Streams -> {"none", "running", "returning", "done"}]
    BY <2>1 DEF RecordingIInv, RecordingTypeOK
  <2>3. \A j \in Streams : generator'[j] # generator[j] => generator'[j] # "running" /\ streamOn[j] # NoLink
    BY <1>2, <2>1 DEF RecordingIInv, RecordingTypeOK
  <2>4. RecordingTypeOK' /\ DelegateToldUntilReset' /\ ActiveFollows'
    BY <1>1, <2>1, <2>2 DEF RecordingIInv, RecordingTypeOK, DelegateToldUntilReset, ActiveFollows, settings
  <2>5. UnopenedUntouched' /\ OpenUntilEnded'
    BY <1>1, <1>2, <2>1, <2>3 DEF RecordingIInv, UnopenedUntouched, OpenUntilEnded
  <2>6. WireWellFormed' /\ EndedOnce' /\ OneStream'
    BY <1>1, <2>1 DEF RecordingIInv, WireWellFormed, EndedOnce, OneStream, settings
  <2> QED BY <2>4, <2>5, <2>6 DEF RecordingIInv
<1>4. CASE i \notin ended
  <2>1. /\ wire' = [wire EXCEPT ![i] = AfterData(i, last)]
        /\ unacknowledged' \subseteq unacknowledged \cup {i}
        /\ generator' = [generator EXCEPT ![i] = IF last THEN "returning" ELSE "running"]
    BY <1>4 DEF Packet, Sends
  <2>2. wire[i] = "opened"
    BY <1>1, <1>2, <1>4 DEF RecordingIInv, OpenUntilEnded
  <2>3. AfterData(i, last) \in {"opened", "ended"} /\ (~last => AfterData(i, last) = "opened")
    BY <2>2 DEF AfterData
  <2>4. /\ wire' \in [Streams -> Wire]
        /\ wire'[i] \in {"opened", "ended"} /\ (~last => wire'[i] = "opened")
        /\ \A j \in Streams : j # i => wire'[j] = wire[j]
    BY <2>1, <2>3 DEF RecordingIInv, RecordingTypeOK, Wire
  <2>5. /\ generator' \in [Streams -> {"none", "running", "returning", "done"}]
        /\ generator'[i] = (IF last THEN "returning" ELSE "running")
        /\ \A j \in Streams : j # i => generator'[j] = generator[j]
    BY <2>1 DEF RecordingIInv, RecordingTypeOK
  <2>6. RecordingTypeOK' /\ DelegateToldUntilReset' /\ ActiveFollows'
    BY <1>1, <2>1, <2>4, <2>5 DEF RecordingIInv, RecordingTypeOK, DelegateToldUntilReset, ActiveFollows, settings
  <2>7. UnopenedUntouched' /\ OpenUntilEnded'
    BY <1>1, <1>2, <2>4, <2>5 DEF RecordingIInv, UnopenedUntouched, OpenUntilEnded
  <2>8. WireWellFormed' /\ EndedOnce' /\ OneStream'
    BY <1>1, <2>4 DEF RecordingIInv, WireWellFormed, EndedOnce, OneStream, settings
  <2> QED BY <2>6, <2>7, <2>8 DEF RecordingIInv
<1> QED BY <1>3, <1>4

\* The steps of a stream and of its connection.
LEMMA StreamStepsPreserve ==
  ASSUME RecordingIInv, NEW c \in Links, NEW i \in Streams,
         \/ LinkClosing(c) \/ LinkClosed(c)
         \/ DataSendAck(c, i) \/ DataSendClose(c, i)
         \/ Return(i) \/ Throw(i) \/ ClosingTimeout(i)
  PROVE  RecordingIInv'
<1> USE CameraRecordingAssumption
<1>0. /\ RecordingTypeOK /\ DelegateToldUntilReset /\ ActiveFollows
      /\ generator[i] # "none" \/ i \in closingTimeout => streamOn[i] # NoLink
      /\ \A j \in Streams : recordingStream = j => cameraActive
  BY DEF RecordingIInv, UnopenedUntouched, OneStream
<1>1. CASE LinkClosing(c)
  <2>1. link' \in [Links -> {"ready", "closing", "closed"}]
    BY <1>0, <1>1 DEF LinkClosing, RecordingTypeOK
  <2> QED BY <1>0, <1>1, <2>1, QuietPreserves
    DEF LinkClosing, settings, streams, RecordingTypeOK, RecordingIInv, UnopenedUntouched, OneStream,
        DelegateToldUntilReset, ActiveFollows
<1>2. CASE LinkClosed(c)
  <2>1. link' \in [Links -> {"ready", "closing", "closed"}]
    BY <1>0, <1>2 DEF LinkClosed, RecordingTypeOK
  <2>2. CASE \E j \in Streams \ ended : streamOn[j] = c
    <3>1. PICK j \in Streams \ ended : j = (CHOOSE k \in Streams \ ended : streamOn[k] = c) /\ streamOn[j] = c
      BY <2>2
    <3>2. HandleClosed(j)
      BY <1>2, <2>2, <3>1 DEF LinkClosed
    <3>3. recordingStream' # NoStream => cameraActive'
      BY <1>2, <3>1, <3>2 DEF HandleClosed, LinkClosed
    <3> QED BY <1>0, <1>2, <2>1, <3>1, <3>2, <3>3, EndingPreserves DEF LinkClosed, settings, RecordingTypeOK
  <2>3. CASE ~\E j \in Streams \ ended : streamOn[j] = c
    BY <1>0, <1>2, <2>1, <2>3, QuietPreserves
    DEF LinkClosed, settings, RecordingTypeOK, RecordingIInv, UnopenedUntouched, OneStream,
        DelegateToldUntilReset, ActiveFollows
  <2> QED BY <2>2, <2>3
<1>3. CASE DataSendAck(c, i)
  <2>1. unacknowledged' \subseteq unacknowledged
    BY <1>3 DEF DataSendAck
  <2>2. CASE handler[c] = NoStream
    BY <1>0, <1>3, <2>1, <2>2, QuietPreserves
    DEF DataSendAck, settings, RecordingTypeOK, RecordingIInv, UnopenedUntouched, OneStream,
        DelegateToldUntilReset, ActiveFollows
  <2>3. CASE handler[c] # NoStream
    <3>1. handler[c] \in Streams /\ streamOn[handler[c]] # NoLink
      BY <2>3 DEF RecordingIInv, RecordingTypeOK, OneStream
    <3>2. HandleClosed(handler[c])
      BY <1>3, <2>3 DEF DataSendAck
    <3>3. recordingStream' # NoStream => cameraActive'
      BY <1>3, <3>1, <3>2 DEF HandleClosed, DataSendAck, RecordingIInv, OneStream, settings
    <3> QED BY <1>0, <1>3, <2>1, <3>1, <3>2, <3>3, EndingPreserves DEF DataSendAck, settings, RecordingTypeOK
  <2> QED BY <2>2, <2>3
<1>4. CASE DataSendClose(c, i)
  <2>1. streamOn[i] # NoLink /\ HandleClosed(i) /\ UNCHANGED <<settings, disk, link, wasReset, streamOn, generator, wire, unacknowledged>>
    BY <1>4 DEF DataSendClose
  <2>2. recordingStream' # NoStream => cameraActive'
    BY <2>1 DEF HandleClosed, RecordingIInv, OneStream, settings
  <2> QED BY <1>0, <2>1, <2>2, EndingPreserves DEF settings, RecordingTypeOK
<1>5. CASE Return(i)
  <2>1. /\ generator' = [generator EXCEPT ![i] = "done"]
        /\ closingTimeout' \subseteq closingTimeout \cup {i}
        /\ streamOn[i] # NoLink
    BY <1>0, <1>5 DEF Return, Finally
  <2>2. /\ generator' \in [Streams -> {"none", "running", "returning", "done"}]
        /\ \A j \in Streams : generator'[j] # generator[j] => generator'[j] # "running" /\ streamOn[j] # NoLink
    BY <1>0, <2>1 DEF RecordingTypeOK
  <2>3. closingTimeout' \subseteq Streams /\ \A j \in closingTimeout' : streamOn[j] # NoLink
    BY <1>0, <2>1 DEF RecordingTypeOK, RecordingIInv, UnopenedUntouched
  <2> QED BY <1>0, <1>5, <2>2, <2>3, QuietPreserves
    DEF Return, settings, RecordingTypeOK, RecordingIInv, OneStream, DelegateToldUntilReset, ActiveFollows
<1>6. CASE Throw(i)
  <2>1. streamOn[i] # NoLink
    BY <1>0, <1>6 DEF Throw
  <2>2. recordingStream' # NoStream => cameraActive'
    BY <1>6 DEF Throw, CloseStream, HandleClosed, RecordingIInv, OneStream, settings
  <2> QED BY <1>0, <1>6, <2>1, <2>2, EndingPreserves DEF Throw, CloseStream, settings, RecordingTypeOK
<1>7. CASE ClosingTimeout(i)
  <2>1. streamOn[i] # NoLink
    BY <1>0, <1>7 DEF ClosingTimeout
  <2>2. recordingStream' # NoStream => cameraActive'
    BY <1>7 DEF ClosingTimeout, CloseStream, HandleClosed, RecordingIInv, OneStream, settings
  <2> QED BY <1>0, <1>7, <2>1, <2>2, EndingPreserves DEF ClosingTimeout, CloseStream, settings, RecordingTypeOK
<1> QED BY <1>1, <1>2, <1>3, <1>4, <1>5, <1>6, <1>7


\* The settings, a factory reset and a restart: the delegate hears of what the controllers chose.
LEMMA SettingStepsPreserve ==
  ASSUME RecordingIInv, NEW v \in BOOLEAN,
         \/ SetActive(v) \/ SetCameraActive(v) \/ Restart(v)
         \/ SelectConfiguration \/ RecordingFactoryReset
  PROVE  RecordingIInv'
<1> USE CameraRecordingAssumption
<1>0. /\ RecordingTypeOK /\ DelegateToldUntilReset /\ ActiveFollows
      /\ \A j \in closingTimeout : streamOn[j] # NoLink
      /\ recordingStream # NoStream => cameraActive
  BY DEF RecordingIInv, UnopenedUntouched, OneStream, RecordingTypeOK
<1>1. CASE SetActive(v)
  <2>1. disk' \in Saved /\ told' \in [active : BOOLEAN, configured : BOOLEAN]
    BY <1>0, <1>1 DEF SetActive, Serialized, Saved, RecordingTypeOK
  <2>2. DelegateToldUntilReset' /\ ActiveFollows'
    BY <1>0, <1>1 DEF SetActive, DelegateToldUntilReset, ActiveFollows, RecordingTypeOK
  <2> QED BY <1>0, <1>1, <2>1, <2>2, QuietPreserves DEF SetActive, streams, RecordingTypeOK
<1>2. CASE SetCameraActive(v)
  <2>1. disk' \in Saved
    BY <1>0, <1>2 DEF SetCameraActive, Serialized, Saved, RecordingTypeOK
  <2>2. CASE ~v /\ recordingStream # NoStream
    <3>1. recordingStream \in Streams /\ streamOn[recordingStream] # NoLink /\ recordingStream \notin ended
      BY <2>2, CurrentIsOpen
    <3>2. CloseStream(recordingStream)
      BY <1>2, <2>2 DEF SetCameraActive, CameraSwitched
    <3>3. recordingStream' = NoStream
      BY <3>1, <3>2 DEF CloseStream, HandleClosed
    <3> QED BY <1>0, <1>2, <2>1, <3>1, <3>2, <3>3, EndingPreserves DEF SetCameraActive, CloseStream, RecordingTypeOK
  <2>3. CASE v \/ recordingStream = NoStream
    <3>1. UNCHANGED <<wire, ended, closingTimeout, handler, endsTold, recordingStream>>
      BY <1>2, <2>3 DEF SetCameraActive, CameraSwitched
    <3>2. DelegateToldUntilReset' /\ ActiveFollows'
      BY <1>0, <1>2 DEF SetCameraActive, DelegateToldUntilReset, ActiveFollows
    <3> QED BY <1>0, <1>2, <2>1, <2>3, <3>1, <3>2, QuietPreserves DEF SetCameraActive, RecordingTypeOK
  <2> QED BY <2>2, <2>3
<1>3. CASE Restart(v)
  <2>1. disk.active \in BOOLEAN /\ disk.camera \in BOOLEAN /\ disk.configured \in BOOLEAN
    BY <1>0 DEF RecordingTypeOK, Saved
  <2>2. RecordingTypeOK'
    BY <1>0, <1>3, <2>1 DEF Restart, RecordingTypeOK, ToldAtStart, Saved, Wire
  <2>3. UnopenedUntouched' /\ OpenUntilEnded' /\ WireWellFormed' /\ EndedOnce' /\ OneStream'
    BY <1>3 DEF Restart, UnopenedUntouched, OpenUntilEnded, WireWellFormed, EndedOnce, OneStream
  <2>4. DelegateToldUntilReset' /\ ActiveFollows'
    BY <1>3 DEF Restart, ToldAtStart, DelegateToldUntilReset, ActiveFollows
  <2> QED BY <2>2, <2>3, <2>4 DEF RecordingIInv
<1>4. CASE SelectConfiguration
  <2>1. disk' \in Saved /\ told' \in [active : BOOLEAN, configured : BOOLEAN]
    BY <1>0, <1>4 DEF SelectConfiguration, Serialized, Saved, RecordingTypeOK
  <2>2. told' = [active |-> told.active, configured |-> TRUE]
    BY <1>0, <1>4 DEF SelectConfiguration, RecordingTypeOK
  <2>3. ~wasReset => told.active = activeValue
    BY <1>0 DEF DelegateToldUntilReset
  <2>4. DelegateToldUntilReset' /\ ActiveFollows'
    BY <1>0, <1>4, <2>2, <2>3 DEF SelectConfiguration, DelegateToldUntilReset, ActiveFollows
  <2> QED BY <1>0, <1>4, <2>1, <2>4, QuietPreserves DEF SelectConfiguration, streams, RecordingTypeOK
<1>5. CASE RecordingFactoryReset
  <2>1. disk' \in Saved /\ told' \in [active : BOOLEAN, configured : BOOLEAN]
    BY <1>5 DEF RecordingFactoryReset, Defaults, Saved
  <2>2. DelegateToldUntilReset' /\ ActiveFollows'
    BY <1>5 DEF RecordingFactoryReset, DelegateToldUntilReset, ActiveFollows
  <2> QED BY <1>0, <1>5, <2>1, <2>2, QuietPreserves DEF RecordingFactoryReset, streams, RecordingTypeOK
<1> QED BY <1>1, <1>2, <1>3, <1>4, <1>5

\* Init => IInv
LEMMA RecordingInitIInv == RecordingInit => RecordingIInv
<1> USE CameraRecordingAssumption
<1> SUFFICES ASSUME RecordingInit PROVE RecordingIInv
  OBVIOUS
<1>1. RecordingTypeOK
  BY DEF RecordingInit, NoStreams, RecordingTypeOK, Defaults, Saved, Wire
<1>2. UnopenedUntouched /\ OpenUntilEnded /\ WireWellFormed /\ EndedOnce /\ OneStream
  BY DEF RecordingInit, NoStreams, UnopenedUntouched, OpenUntilEnded, WireWellFormed, EndedOnce, OneStream
<1>3. DelegateToldUntilReset /\ ActiveFollows
  BY DEF RecordingInit, DelegateToldUntilReset, ActiveFollows
<1> QED BY <1>1, <1>2, <1>3 DEF RecordingIInv

\* IInv /\ [Next]_vars => IInv'
LEMMA RecordingNextIInv == RecordingIInv /\ [RecordingNext]_recordingVars => RecordingIInv'
<1> SUFFICES ASSUME RecordingIInv, [RecordingNext]_recordingVars PROVE RecordingIInv'
  OBVIOUS
<1>1. CASE \E c \in Links, i \in Streams : Open(c, i)
  BY <1>1, OpenPreserves
<1>2. CASE \E i \in Streams, last \in BOOLEAN : Packet(i, last)
  BY <1>2, PacketPreserves
<1>3. CASE \E c \in Links, i \in Streams : DataSendAck(c, i) \/ DataSendClose(c, i)
  BY <1>3, StreamStepsPreserve
<1>4. CASE \E c \in Links : LinkClosing(c) \/ LinkClosed(c)
  <2>1. PICK c \in Links : LinkClosing(c) \/ LinkClosed(c)
    BY <1>4
  <2>2. CASE Streams # {}
    BY <2>1, <2>2, StreamStepsPreserve
  <2>3. CASE Streams = {}
    <3>1. /\ link' \in [Links -> {"ready", "closing", "closed"}]
          /\ UNCHANGED <<settings, disk, streams, wasReset>>
      BY <2>1, <2>3 DEF LinkClosing, LinkClosed, RecordingIInv, RecordingTypeOK, streams
    <3> QED BY <2>3, <3>1, QuietPreserves
      DEF settings, streams, RecordingIInv, RecordingTypeOK, OneStream, DelegateToldUntilReset, ActiveFollows
  <2> QED BY <2>2, <2>3
<1>5. CASE \E i \in Streams : Return(i) \/ Throw(i) \/ ClosingTimeout(i)
  <2>1. PICK i \in Streams : Return(i) \/ Throw(i) \/ ClosingTimeout(i)
    BY <1>5
  <2>2. PICK c \in Links : streamOn[i] = c
    BY <2>1, CameraRecordingAssumption
    DEF Return, Throw, ClosingTimeout, RecordingIInv, RecordingTypeOK, UnopenedUntouched
  <2> QED BY <2>1, <2>2, StreamStepsPreserve
<1>6. CASE \E v \in BOOLEAN : SetActive(v) \/ SetCameraActive(v) \/ Restart(v)
  BY <1>6, SettingStepsPreserve
<1>7. CASE SelectConfiguration \/ RecordingFactoryReset
  BY <1>7, SettingStepsPreserve
<1>8. CASE UNCHANGED recordingVars
  BY <1>8 DEF recordingVars, settings, streams, RecordingIInv, RecordingTypeOK, UnopenedUntouched,
    OpenUntilEnded, WireWellFormed, EndedOnce, OneStream, DelegateToldUntilReset, ActiveFollows
<1> QED BY <1>1, <1>2, <1>3, <1>4, <1>5, <1>6, <1>7, <1>8 DEF RecordingNext

\* There is one recording at a time, sent in a legal order and ended once, with a delegate that knows
\* the settings the controllers chose, whatever ends it and however often the process restarts
\* (RecordingManagement, CameraRecordingStream).
THEOREM RecordingsInOrder == RecordingSpec => []RecordingInOrder
<1>1. RecordingIInv => RecordingInOrder
  BY DEF RecordingIInv, RecordingInOrder
<1> QED BY <1>1, RecordingInitIInv, RecordingNextIInv, PTL DEF RecordingSpec


-----------------------------------------------------------------------------
(* CameraStreaming: the inductive invariant.  A binding of sockets that    *)
(* fails ends whatever session there is without a word to the plugin; that *)
(* this is never a session the plugin has started needs to know that the   *)
(* sockets of a session that was set up are there.                         *)

\* The proxies that are registered are those of the current session.
ProxyOfSession == videoProxy = IF requireProxy THEN sessionIdentifier ELSE NoSession

\* A setup goes on for the current session, or for one known to have ended meanwhile; that of the
\* current session has begun, and past its first step its sockets are there.
SetupsKnown ==
  /\ \A s \in Sessions : setup[s] = "binding" => requireProxy /\ s \in {sessionIdentifier} \cup endedBinding
  /\ sessionIdentifier # NoSession => setup[sessionIdentifier] # "none"
  /\ videoProxy # NoSession => setup[videoProxy] = "binding" \/ videoProxy \in sockets

\* The plugin is asked to start what was set up.
StartedIsSetUp == \A s \in Sessions : plugin[s] = "started" => setup[s] = "answered"

StreamingIInv ==
  /\ StreamingTypeOK
  /\ HeldByOpenConnection
  /\ SocketsClosed
  /\ ProxyOfSession
  /\ SetupsKnown
  /\ StartedIsSetUp
  /\ PluginTold
  /\ OffersPrepared

\* Ending a session leaves nothing of it behind (handleSessionClosed, RTPProxy.destroy).
LEMMA SessionClosedPreserves ==
  ASSUME StreamingIInv, NEW bound \in SUBSET Sessions, SessionClosed(bound),
         bound \ {videoProxy} \subseteq endedBinding,
         open' \subseteq open, present' \in BOOLEAN, enabled' \in BOOLEAN, asked' \subseteq StreamRequest,
         UNCHANGED requireProxy,
         setup' \in [Sessions -> {"none", "binding", "preparing", "answered"}],
         \A s \in Sessions : setup'[s] # setup[s] => setup'[s] = "answered",
         plugin' \in [Sessions -> {"none", "prepared", "started", "stopped", "failed"}],
         \A s \in Sessions : plugin'[s] = "started" => plugin[s] = "started",
         late' \in SUBSET Sessions, cutShort' \in SUBSET Sessions,
         \A s \in Sessions : plugin'[s] = "started" => s \in cutShort'
  PROVE  StreamingIInv'
<1> USE CameraStreamingAssumption
<1>1. /\ streamStatus' = "available" /\ activeConnection' = NoConnection
      /\ sessionIdentifier' = NoSession /\ selectedConfiguration' = NoSession
      /\ setupEndpointsResponse' = NoResponse
      /\ videoProxy' = NoSession /\ sockets' = bound \ {videoProxy}
      /\ endedBinding' = IF sessionIdentifier # NoSession /\ setup[sessionIdentifier] = "binding"
                         THEN endedBinding \cup {sessionIdentifier} ELSE endedBinding
  BY DEF SessionClosed, ResetSetupEndpointsResponse, DestroyProxies
<1>2. endedBinding \subseteq endedBinding' /\ endedBinding' \subseteq Sessions
  BY <1>1 DEF StreamingIInv, StreamingTypeOK
<1>3. StreamingTypeOK'
  BY <1>1, <1>2 DEF StreamingIInv, StreamingTypeOK
<1>4. HeldByOpenConnection'
  BY <1>1 DEF HeldByOpenConnection
<1>5. SocketsClosed' /\ ProxyOfSession'
  BY <1>1, <1>2 DEF SocketsClosed, ProxyOfSession
<1>6. SetupsKnown'
  <2>1. ASSUME NEW s \in Sessions, setup'[s] = "binding" PROVE requireProxy' /\ s \in endedBinding'
    BY <1>1, <2>1 DEF StreamingIInv, SetupsKnown
  <2> QED BY <1>1, <2>1 DEF SetupsKnown
<1>7. StartedIsSetUp'
  BY DEF StreamingIInv, StartedIsSetUp
<1>8. PluginTold' /\ OffersPrepared'
  BY <1>1 DEF PluginTold, OffersPrepared, NoResponse, Response
<1> QED BY <1>3, <1>4, <1>5, <1>6, <1>7, <1>8 DEF StreamingIInv

\* The sockets that are bound are those of the session that ends, or of one that ended before.
LEMMA OwnSockets ==
  ASSUME StreamingIInv PROVE sockets \in SUBSET Sessions /\ sockets \ {videoProxy} \subseteq endedBinding
BY DEF StreamingIInv, StreamingTypeOK, SocketsClosed

\* StopStream: the plugin is told of the end of the current session.
LEMMA StopStreamPreserves ==
  ASSUME StreamingIInv, StopStream, open' \subseteq open, present' \in BOOLEAN, enabled' \in BOOLEAN,
         asked' \subseteq StreamRequest,
         UNCHANGED <<requireProxy, setup, late, cutShort>>
  PROVE  StreamingIInv'
<1>1. StreamingTypeOK
  BY DEF StreamingIInv
<1>2. SessionClosed(sockets)
  BY DEF StopStream
<1>3. plugin' \in [Sessions -> {"none", "prepared", "started", "stopped", "failed"}]
  BY <1>1 DEF StopStream, StreamingTypeOK
<1>4. \A s \in Sessions : plugin'[s] = "started" => plugin[s] = "started" /\ s # sessionIdentifier
  BY <1>1, CameraStreamingAssumption DEF StopStream, StreamingTypeOK
<1>5. \A s \in Sessions : plugin'[s] = "started" => s \in cutShort'
  BY <1>4 DEF StreamingIInv, PluginTold
<1> QED BY <1>1, <1>2, <1>3, <1>4, <1>5, OwnSockets, SessionClosedPreserves DEF StreamingTypeOK


\* An answer of the plugin for t ends the session there is; if that is another one, it is cut short.
LEMMA EndedByAnswerPreserves ==
  ASSUME StreamingIInv, NEW t \in Sessions, EndedByAnswer(t),
         setup' \in [Sessions -> {"none", "binding", "preparing", "answered"}],
         \A s \in Sessions : setup'[s] # setup[s] => setup'[s] = "answered",
         plugin' \in [Sessions -> {"none", "prepared", "started", "stopped", "failed"}],
         plugin'[t] # "started", \A s \in Sessions : s # t => plugin'[s] = plugin[s],
         asked' \subseteq StreamRequest,
         UNCHANGED <<open, present, requireProxy, enabled, late>>
  PROVE  StreamingIInv'
<1>1. StreamingTypeOK
  BY DEF StreamingIInv
<1>2. SessionClosed(sockets)
  BY DEF EndedByAnswer
<1>3. /\ cutShort' \in SUBSET Sessions /\ cutShort \subseteq cutShort'
      /\ sessionIdentifier \in {NoSession, t} \cup cutShort'
  BY <1>1 DEF EndedByAnswer, StreamingTypeOK
<1>4. \A s \in Sessions : plugin'[s] = "started" => plugin[s] = "started" /\ s # t
  OBVIOUS
<1>5. \A s \in Sessions : plugin'[s] = "started" => s \in cutShort'
  BY <1>3, <1>4, CameraStreamingAssumption DEF StreamingIInv, PluginTold
<1> QED BY <1>1, <1>2, <1>3, <1>4, <1>5, OwnSockets, SessionClosedPreserves DEF StreamingTypeOK

\* Setting a session up: it becomes the current one, its sockets are bound, the plugin is asked.
LEMMA SetupPreserves ==
  ASSUME StreamingIInv, NEW c \in Connections, NEW s \in Sessions,
         SetupBusy(c, s) \/ SetupEndpoints(c, s) \/ ProxyBound(s)
  PROVE  StreamingIInv'
<1> USE CameraStreamingAssumption
<1>0. StreamingTypeOK /\ HeldByOpenConnection /\ SocketsClosed /\ ProxyOfSession /\ SetupsKnown /\ StartedIsSetUp
  BY DEF StreamingIInv
<1>1. CASE SetupBusy(c, s)
  <2>1. setupEndpointsResponse' = Response(s, "busy")
    BY <1>1 DEF SetupBusy
  <2>2. StreamingTypeOK'
    BY <1>0, <1>1 DEF SetupBusy, StreamingTypeOK, session
  <2>3. OffersPrepared'
    BY <2>1 DEF OffersPrepared, Response
  <2>4. PluginTold'
    BY <1>1 DEF SetupBusy, StreamingIInv, PluginTold, session
  <2> QED BY <1>0, <1>1, <2>2, <2>3, <2>4
    DEF SetupBusy, StreamingIInv, HeldByOpenConnection, SocketsClosed, ProxyOfSession, SetupsKnown, StartedIsSetUp, session
<1>2. CASE SetupEndpoints(c, s)
  <2>1. /\ setup[s] = "none" /\ c \in open
        /\ sessionIdentifier = NoSession /\ selectedConfiguration = NoSession /\ videoProxy = NoSession
    BY <1>0, <1>2 DEF SetupEndpoints, Usable, HeldByOpenConnection, ProxyOfSession
  <2>2. /\ activeConnection' = c /\ sessionIdentifier' = s /\ streamStatus' = "in_use"
        /\ videoProxy' = (IF requireProxy THEN s ELSE NoSession)
        /\ UNCHANGED <<open, present, requireProxy, enabled, selectedConfiguration, setupEndpointsResponse,
                       sockets, asked, plugin, endedBinding, late, cutShort>>
    BY <1>2, <2>1 DEF SetupEndpoints
  <2>3. /\ setup' \in [Sessions -> {"none", "binding", "preparing", "answered"}]
        /\ setup'[s] = (IF requireProxy THEN "binding" ELSE "preparing")
        /\ \A t \in Sessions : t # s => setup'[t] = setup[t]
    BY <1>0, <1>2 DEF SetupEndpoints, StreamingTypeOK
  <2>4. StreamingTypeOK'
    BY <1>0, <2>2, <2>3 DEF StreamingTypeOK
  <2>5. HeldByOpenConnection' /\ SocketsClosed' /\ ProxyOfSession'
    BY <1>0, <2>1, <2>2 DEF HeldByOpenConnection, SocketsClosed, ProxyOfSession, StreamingTypeOK
  <2>6. SetupsKnown'
    BY <1>0, <2>1, <2>2, <2>3 DEF SetupsKnown
  <2>7. StartedIsSetUp'
    BY <1>0, <2>1, <2>2, <2>3 DEF StartedIsSetUp
  <2>8. PluginTold'
    BY <1>0, <2>1, <2>2 DEF StreamingIInv, PluginTold
  <2>9. OffersPrepared'
    <3>1. CASE setupEndpointsResponse = NoResponse
      BY <2>2, <3>1 DEF OffersPrepared, NoResponse, Response
    <3>2. CASE setupEndpointsResponse # NoResponse
      <4>1. setupEndpointsResponse.session \in Sessions
        BY <1>0, <3>2 DEF StreamingTypeOK, Response
      <4> QED BY <2>1, <2>2, <4>1 DEF StreamingIInv, OffersPrepared
    <3> QED BY <3>1, <3>2
  <2> QED BY <2>4, <2>5, <2>6, <2>7, <2>8, <2>9 DEF StreamingIInv
<1>3. CASE ProxyBound(s)
  <2>1. /\ setup[s] = "binding" /\ sockets' = sockets \cup {s}
        /\ UNCHANGED <<open, present, requireProxy, enabled, session, setupEndpointsResponse, videoProxy, asked,
                       plugin, endedBinding, late, cutShort>>
    BY <1>3 DEF ProxyBound
  <2>2. /\ setup' \in [Sessions -> {"none", "binding", "preparing", "answered"}]
        /\ setup'[s] = "preparing"
        /\ \A t \in Sessions : t # s => setup'[t] = setup[t]
    BY <1>0, <1>3 DEF ProxyBound, StreamingTypeOK
  <2>3. StreamingTypeOK'
    BY <1>0, <2>1, <2>2 DEF StreamingTypeOK, session
  <2>4. requireProxy /\ s \in {videoProxy} \cup endedBinding
    BY <1>0, <2>1 DEF SetupsKnown, ProxyOfSession
  <2>5. HeldByOpenConnection' /\ SocketsClosed' /\ ProxyOfSession'
    BY <1>0, <2>1, <2>4 DEF HeldByOpenConnection, SocketsClosed, ProxyOfSession, session
  <2>6. SetupsKnown'
    <3>1. sessionIdentifier # NoSession => sessionIdentifier \in Sessions
      BY <1>0 DEF StreamingTypeOK
    <3>2. videoProxy # NoSession => videoProxy \in Sessions
      BY <1>0 DEF StreamingTypeOK
    <3> QED BY <1>0, <2>1, <2>2, <3>1, <3>2 DEF SetupsKnown, session
  <2>7. StartedIsSetUp'
    BY <1>0, <2>1, <2>2 DEF StartedIsSetUp
  <2>8. PluginTold' /\ OffersPrepared'
    BY <2>1 DEF StreamingIInv, PluginTold, OffersPrepared, session
  <2> QED BY <2>3, <2>5, <2>6, <2>7, <2>8 DEF StreamingIInv
<1> QED BY <1>1, <1>2, <1>3

\* ProxyFails: a binding that outlived its session never ends one that the plugin has started.
LEMMA ProxyFailsPreserves ==
  ASSUME StreamingIInv, NEW s \in Sessions, ProxyFails(s)
  PROVE  StreamingIInv'
<1> USE CameraStreamingAssumption
<1>0. StreamingTypeOK /\ SocketsClosed /\ ProxyOfSession /\ SetupsKnown /\ StartedIsSetUp
  BY DEF StreamingIInv
<1>1. /\ setup[s] = "binding"
      /\ videoProxy = NoSession \/ videoProxy \notin sockets \cup {s}
      /\ SessionClosed(sockets \cup {s})
      /\ UNCHANGED <<open, present, requireProxy, enabled, asked, plugin, late, cutShort>>
  BY DEF ProxyFails, PortsReadable
<1>2. s \in endedBinding
  BY <1>0, <1>1 DEF SetupsKnown, ProxyOfSession
<1>3. \A t \in Sessions : plugin'[t] = "started" => t \in cutShort'
  <2>1. SUFFICES ASSUME NEW t \in Sessions, plugin[t] = "started", t \notin cutShort PROVE FALSE
    BY <1>1
  <2>2. t = sessionIdentifier /\ setup[t] = "answered"
    BY <1>0, <2>1 DEF StreamingIInv, PluginTold, StartedIsSetUp
  <2>3. videoProxy = t
    BY <1>0, <1>1, <2>2 DEF SetupsKnown, ProxyOfSession
  <2> QED BY <1>0, <1>1, <2>2, <2>3 DEF SetupsKnown
<1>4. /\ setup' \in [Sessions -> {"none", "binding", "preparing", "answered"}]
      /\ \A t \in Sessions : setup'[t] # setup[t] => setup'[t] = "answered"
  BY <1>0 DEF ProxyFails, StreamingTypeOK
<1>5. /\ sockets \cup {s} \in SUBSET Sessions
      /\ (sockets \cup {s}) \ {videoProxy} \subseteq endedBinding
  BY <1>0, <1>2, OwnSockets
<1> QED BY <1>0, <1>1, <1>3, <1>4, <1>5, SessionClosedPreserves DEF StreamingTypeOK

\* The answer of the plugin to the setup, which offers the session, ends one or does neither.
LEMMA PrepareStreamPreserves ==
  ASSUME StreamingIInv, NEW s \in Sessions, NEW b \in BOOLEAN, PrepareStream(s, b) \/ PrepareUnusable(s, b)
  PROVE  StreamingIInv'
<1> USE CameraStreamingAssumption
<1>0. StreamingTypeOK /\ HeldByOpenConnection /\ SocketsClosed /\ ProxyOfSession /\ SetupsKnown /\ StartedIsSetUp
  BY DEF StreamingIInv
<1>1. setup[s] = "preparing" /\ UNCHANGED <<open, present, requireProxy, enabled, asked>>
  BY DEF PrepareStream, PrepareUnusable
<1>2. /\ setup' \in [Sessions -> {"none", "binding", "preparing", "answered"}]
      /\ setup'[s] = "answered"
      /\ \A t \in Sessions : t # s => setup'[t] = setup[t]
  BY <1>0 DEF PrepareStream, PrepareUnusable, StreamingTypeOK
<1>3. /\ plugin' \in [Sessions -> {"none", "prepared", "started", "stopped", "failed"}]
      /\ plugin'[s] # "started"
      /\ \A t \in Sessions : t # s => plugin'[t] = plugin[t]
  BY <1>0 DEF PrepareStream, PrepareUnusable, Knows, StreamingTypeOK
<1>4. CASE EndedByAnswer(s) /\ UNCHANGED late
  <2>1. \A t \in Sessions : setup'[t] # setup[t] => setup'[t] = "answered"
    BY <1>2
  <2>2. asked' \subseteq StreamRequest
    BY <1>0, <1>1 DEF StreamingTypeOK
  <2> QED BY <1>1, <1>2, <1>3, <1>4, <2>1, <2>2, EndedByAnswerPreserves
<1>5. ASSUME UNCHANGED <<session, videoProxy, sockets, endedBinding, cutShort>>,
             setupEndpointsResponse' \in {setupEndpointsResponse, Response(s, "success")},
             late' \in {late, late \cup {s}},
             setupEndpointsResponse' # setupEndpointsResponse => s \in {sessionIdentifier} \cup late'
      PROVE  StreamingIInv'
  <2>3. StreamingTypeOK'
    BY <1>0, <1>1, <1>2, <1>3, <1>5 DEF StreamingTypeOK, session
  <2>4. HeldByOpenConnection' /\ SocketsClosed' /\ ProxyOfSession'
    BY <1>0, <1>1, <1>5 DEF HeldByOpenConnection, SocketsClosed, ProxyOfSession, session
  <2>5. SetupsKnown'
    <3>1. sessionIdentifier # NoSession => sessionIdentifier \in Sessions
      BY <1>0 DEF StreamingTypeOK
    <3>2. videoProxy # NoSession => videoProxy \in Sessions
      BY <1>0 DEF StreamingTypeOK
    <3> QED BY <1>0, <1>1, <1>2, <1>5, <3>1, <3>2 DEF SetupsKnown, session
  <2>6. StartedIsSetUp'
    BY <1>0, <1>2, <1>3 DEF StartedIsSetUp
  <2>7. PluginTold'
    BY <1>3, <1>5 DEF StreamingIInv, PluginTold, session
  <2>8. OffersPrepared'
    <3>1. Response(s, "success").session = s
      BY DEF Response
    <3> QED BY <1>5, <3>1 DEF StreamingIInv, OffersPrepared, session
  <2> QED BY <2>3, <2>4, <2>5, <2>6, <2>7, <2>8 DEF StreamingIInv
<1>6. CASE PrepareStream(s, b) /\ b
  <2>1. Offer(s) /\ late' = (IF s = sessionIdentifier THEN late ELSE late \cup {s})
    BY <1>6 DEF PrepareStream
  <2> QED BY <1>5, <1>6, <2>1 DEF PrepareStream, Offer
<1>7. CASE PrepareUnusable(s, b) /\ ~b
  BY <1>5, <1>7 DEF PrepareUnusable
<1>8. CASE PrepareStream(s, b) /\ ~b
  BY <1>4, <1>8 DEF PrepareStream
<1>9. CASE PrepareUnusable(s, b) /\ b
  BY <1>4, <1>9 DEF PrepareUnusable
<1> QED BY <1>6, <1>7, <1>8, <1>9


\* The requests of a controller for the session that was set up.
LEMMA RequestPreserves ==
  ASSUME StreamingIInv, NEW c \in Connections, NEW s \in Sessions, NEW type \in {"start", "reconfigure"},
         Request(c, s, type)
  PROVE  StreamingIInv'
<1> USE CameraStreamingAssumption
<1>0. StreamingTypeOK /\ HeldByOpenConnection /\ SocketsClosed /\ ProxyOfSession /\ SetupsKnown /\ StartedIsSetUp
  BY DEF StreamingIInv
<1>1. /\ sessionIdentifier = s /\ setup[s] = "answered"
      /\ type = "reconfigure" => plugin[s] = "started"
      /\ selectedConfiguration' = s
      /\ asked' = asked \cup {[session |-> s, type |-> type]}
      /\ plugin' = [plugin EXCEPT ![s] = IF type = "start" THEN "started" ELSE @]
      /\ UNCHANGED <<open, present, requireProxy, enabled, streamStatus, activeConnection, sessionIdentifier,
                     setupEndpointsResponse, setup, videoProxy, sockets, endedBinding, late, cutShort>>
  BY DEF Request, Selects
<1>2. /\ plugin' \in [Sessions -> {"none", "prepared", "started", "stopped", "failed"}]
      /\ \A t \in Sessions : t # s => plugin'[t] = plugin[t]
  BY <1>0, <1>1 DEF StreamingTypeOK
<1>3. asked' \subseteq StreamRequest
  BY <1>0, <1>1 DEF StreamingTypeOK, StreamRequest
<1>4. StreamingTypeOK'
  BY <1>0, <1>1, <1>2, <1>3 DEF StreamingTypeOK
<1>5. HeldByOpenConnection' /\ SocketsClosed' /\ ProxyOfSession' /\ SetupsKnown'
  BY <1>0, <1>1 DEF HeldByOpenConnection, SocketsClosed, ProxyOfSession, SetupsKnown
<1>6. StartedIsSetUp'
  BY <1>0, <1>1, <1>2 DEF StartedIsSetUp
<1>7. PluginTold' /\ OffersPrepared'
  BY <1>1, <1>2 DEF StreamingIInv, PluginTold, OffersPrepared
<1> QED BY <1>4, <1>5, <1>6, <1>7 DEF StreamingIInv

\* The answers of the plugin to these requests.
LEMMA StreamCallbackPreserves ==
  ASSUME StreamingIInv, NEW r \in StreamRequest, NEW ok \in BOOLEAN, StreamCallback(r, ok)
  PROVE  StreamingIInv'
<1>0. StreamingTypeOK /\ r.session \in Sessions
  BY DEF StreamingIInv, StreamRequest
<1>1. asked' \subseteq asked /\ UNCHANGED <<open, present, requireProxy, enabled, setup, late>>
  BY DEF StreamCallback
<1>2. CASE ok
  <2>1. UNCHANGED <<session, setupEndpointsResponse, videoProxy, sockets, endedBinding, plugin, cutShort>>
    BY <1>2 DEF StreamCallback
  <2> QED BY <1>0, <1>1, <2>1
    DEF StreamingIInv, StreamingTypeOK, HeldByOpenConnection, SocketsClosed, ProxyOfSession, SetupsKnown,
        StartedIsSetUp, PluginTold, OffersPrepared, session
<1>3. CASE ~ok
  <2>1. EndedByAnswer(r.session) /\ plugin' = Knows(r.session, "failed")
    BY <1>3 DEF StreamCallback
  <2>2. /\ plugin' \in [Sessions -> {"none", "prepared", "started", "stopped", "failed"}]
        /\ plugin'[r.session] # "started"
        /\ \A t \in Sessions : t # r.session => plugin'[t] = plugin[t]
    BY <1>0, <2>1 DEF Knows, StreamingTypeOK
  <2>3. asked' \subseteq StreamRequest
    BY <1>0, <1>1 DEF StreamingTypeOK
  <2> QED BY <1>0, <1>1, <2>1, <2>2, <2>3, EndedByAnswerPreserves DEF StreamingTypeOK
<1> QED BY <1>2, <1>3

\* The steps that end a session from outside, or leave it.
LEMMA OutsidePreserves ==
  ASSUME StreamingIInv,
         \/ \E c \in Connections, s \in Sessions : EndSession(c, s)
         \/ ForceStop
         \/ \E c \in Connections : ConnectionClosed(c)
         \/ \E v \in BOOLEAN : SetEnabled(v)
         \/ FactoryReset \/ ControllerRemoved
  PROVE  StreamingIInv'
<1> USE CameraStreamingAssumption
<1>0. StreamingTypeOK /\ HeldByOpenConnection
  BY DEF StreamingIInv
<1>1. CASE \E c \in Connections, s \in Sessions : EndSession(c, s)
  <2>1. PICK c \in Connections, s \in Sessions : EndSession(c, s)
    BY <1>1
  <2>2. asked' \subseteq StreamRequest
    BY <1>0, <2>1 DEF EndSession, StreamingTypeOK, StreamRequest
  <2> QED BY <1>0, <2>1, <2>2, StopStreamPreserves DEF EndSession, StreamingTypeOK
<1>2. CASE ForceStop
  <2>1. /\ sessionIdentifier # NoSession /\ SessionClosed(sockets)
        /\ plugin' = [plugin EXCEPT ![sessionIdentifier] = "failed"]
        /\ UNCHANGED <<open, present, requireProxy, enabled, setup, asked, late, cutShort>>
    BY <1>2 DEF ForceStop
  <2>2. /\ plugin' \in [Sessions -> {"none", "prepared", "started", "stopped", "failed"}]
        /\ \A t \in Sessions : plugin'[t] = "started" => plugin[t] = "started" /\ t # sessionIdentifier
    BY <1>0, <2>1 DEF StreamingTypeOK
  <2>3. \A t \in Sessions : plugin'[t] = "started" => t \in cutShort'
    BY <2>1, <2>2 DEF StreamingIInv, PluginTold
  <2> QED BY <1>0, <2>1, <2>2, <2>3, OwnSockets, SessionClosedPreserves DEF StreamingTypeOK
<1>3. CASE \E c \in Connections : ConnectionClosed(c)
  <2>1. PICK c \in Connections : ConnectionClosed(c)
    BY <1>3
  <2>2. CASE activeConnection = c
    BY <1>0, <2>1, <2>2, StopStreamPreserves DEF ConnectionClosed, ClosedListened, StreamingTypeOK
  <2>3. CASE activeConnection # c
    <3>1. /\ open' = open \ {c}
          /\ UNCHANGED <<session, setupEndpointsResponse, videoProxy, sockets, plugin, endedBinding,
                         present, requireProxy, enabled, setup, asked, late, cutShort>>
      BY <2>1, <2>3 DEF ConnectionClosed, ClosedListened
    <3> QED BY <1>0, <2>3, <3>1
      DEF StreamingIInv, StreamingTypeOK, HeldByOpenConnection, SocketsClosed, ProxyOfSession, SetupsKnown,
          StartedIsSetUp, PluginTold, OffersPrepared, session
  <2> QED BY <2>2, <2>3
<1>4. CASE \E v \in BOOLEAN : SetEnabled(v)
  <2>1. /\ enabled' \in BOOLEAN
        /\ UNCHANGED <<open, present, requireProxy, session, setupEndpointsResponse, setup, videoProxy, sockets,
                       asked, plugin, endedBinding, late, cutShort>>
    BY <1>4 DEF SetEnabled
  <2> QED BY <1>0, <2>1
    DEF StreamingIInv, StreamingTypeOK, HeldByOpenConnection, SocketsClosed, ProxyOfSession, SetupsKnown,
        StartedIsSetUp, PluginTold, OffersPrepared, session
<1>5. CASE FactoryReset \/ (ControllerRemoved /\ activeConnection = NoConnection)
  <2>1. /\ present' \in BOOLEAN /\ enabled' \in BOOLEAN
        /\ selectedConfiguration' = NoSession /\ setupEndpointsResponse' = NoResponse
        /\ UNCHANGED <<open, requireProxy, streamStatus, activeConnection, sessionIdentifier, setup, videoProxy,
                       sockets, asked, plugin, endedBinding, late, cutShort>>
    BY <1>0, <1>5 DEF FactoryReset, ControllerRemoved, ResetSetupEndpointsResponse, StreamingTypeOK
  <2>2. OffersPrepared'
    BY <2>1 DEF OffersPrepared, NoResponse, Response
  <2> QED BY <1>0, <2>1, <2>2
    DEF StreamingIInv, StreamingTypeOK, HeldByOpenConnection, SocketsClosed, ProxyOfSession, SetupsKnown,
        StartedIsSetUp, PluginTold
<1>6. CASE ControllerRemoved /\ activeConnection # NoConnection
  <2>1. /\ StopStream /\ present' = FALSE /\ enabled' = TRUE
        /\ UNCHANGED <<open, requireProxy, setup, asked, late, cutShort>>
    BY <1>6 DEF ControllerRemoved
  <2>2. open' \subseteq open /\ asked' \subseteq StreamRequest
    BY <1>0, <2>1 DEF StreamingTypeOK
  <2> QED BY <2>1, <2>2, StopStreamPreserves
<1> QED BY <1>1, <1>2, <1>3, <1>4, <1>5, <1>6

\* Init => IInv
LEMMA StreamingInitIInv == StreamingInit => StreamingIInv
BY CameraStreamingAssumption
DEF StreamingInit, StreamingIInv, StreamingTypeOK, HeldByOpenConnection, SocketsClosed, ProxyOfSession,
    SetupsKnown, StartedIsSetUp, PluginTold, OffersPrepared, NoResponse, Response

\* IInv /\ [Next]_vars => IInv'
LEMMA StreamingNextIInv == StreamingIInv /\ [StreamingNext]_streamingVars => StreamingIInv'
<1> SUFFICES ASSUME StreamingIInv, [StreamingNext]_streamingVars PROVE StreamingIInv'
  OBVIOUS
<1>1. CASE \E c \in Connections, s \in Sessions : SetupBusy(c, s) \/ SetupEndpoints(c, s)
  BY <1>1, SetupPreserves
<1>2. CASE \E s \in Sessions : ProxyBound(s)
  <2>1. PICK s \in Sessions : ProxyBound(s)
    BY <1>2
  <2>2. CASE Connections # {}
    BY <2>1, <2>2, SetupPreserves
  <2>3. CASE Connections = {}
    <3>1. setup[s] = "binding" /\ s \in endedBinding /\ videoProxy = NoSession
      BY <2>1, <2>3, CameraStreamingAssumption
      DEF ProxyBound, StreamingIInv, StreamingTypeOK, HeldByOpenConnection, SetupsKnown, ProxyOfSession
    <3> QED BY <2>1, <3>1 DEF ProxyBound, PortsReadable
  <2> QED BY <2>2, <2>3
<1>3. CASE \E s \in Sessions : ProxyFails(s)
  BY <1>3, ProxyFailsPreserves
<1>4. CASE \E s \in Sessions, b \in BOOLEAN : PrepareStream(s, b) \/ PrepareUnusable(s, b)
  BY <1>4, PrepareStreamPreserves
<1>5. CASE \E c \in Connections, s \in Sessions, type \in {"start", "reconfigure"} : Request(c, s, type)
  BY <1>5, RequestPreserves
<1>6. CASE \E r \in StreamRequest, ok \in BOOLEAN : StreamCallback(r, ok)
  BY <1>6, StreamCallbackPreserves
<1>7. CASE \/ \E c \in Connections, s \in Sessions : EndSession(c, s)
           \/ ForceStop
           \/ \E c \in Connections : ConnectionClosed(c)
           \/ \E v \in BOOLEAN : SetEnabled(v)
           \/ FactoryReset \/ ControllerRemoved
  BY <1>7, OutsidePreserves
<1>8. CASE UNCHANGED streamingVars
  BY <1>8 DEF streamingVars, session, StreamingIInv, StreamingTypeOK, HeldByOpenConnection, SocketsClosed,
    ProxyOfSession, SetupsKnown, StartedIsSetUp, PluginTold, OffersPrepared
<1> QED BY <1>1, <1>2, <1>3, <1>4, <1>5, <1>6, <1>7, <1>8 DEF StreamingNext

\* A session ends with its connection, whenever the plugin answers: the plugin is told unless an
\* error for another session ended it, sockets are closed unless they were being bound, and an answer
\* offers the current session unless the plugin prepared one that was over
\* (RTPStreamManagement.handleSessionClosed).
THEOREM SessionsAlwaysEnd == StreamingSpec => []SessionsEnd
<1>1. StreamingIInv => SessionsEnd
  BY DEF StreamingIInv, SessionsEnd
<1> QED BY <1>1, StreamingInitIInv, StreamingNextIInv, PTL DEF StreamingSpec

-----------------------------------------------------------------------------
(* CameraServices: the inductive invariant.  That a camera has the         *)
(* services of its options needs what each configuration leaves of the     *)
(* options, that a persisted service map and the accessory agree, and that *)
(* a configuration never adds a slot no options want.                      *)

\* What is left of the options of a camera: all, or what a first configuration does not forget.
LeftOptions ==
  [streams : 1..Len(StreamSlots), audio : {"none", "oneWay", "twoWay"}, recording : BOOLEAN,
   sensors : [Sensors -> {"absent", "own", "external"}], doorbell : {"absent", "own", "external", "lost"}]

\* What options ask for once more is what they asked for, or less.
LeftOf(options, given) ==
  /\ options.streams = given.streams /\ options.audio = given.audio
  /\ options.recording => given.recording
  /\ OwnSensors(options) = OwnSensors(given)
  /\ options.doorbell = "own" => given.doorbell = "own"

EverWanted == UNION {Wanted(o) : o \in CameraOptions}
SensorLinks == [Sensors -> SUBSET {"own", "external", "lost"}]

CameraTypes ==
  /\ camera \in [options : LeftOptions, given : CameraOptions, stage : {"constructed", "configured"}, again : BOOLEAN]
  /\ LeftOf(camera.options, camera.given)
  /\ cameraMap \subseteq EverWanted /\ onAccessory = cameraMap
  /\ sensorLinks \in SensorLinks
  /\ cached \subseteq [map : SUBSET EverWanted, on : SUBSET EverWanted, links : SensorLinks]
  /\ \A json \in cached : json.on = json.map
  /\ processes \in 1..MaxProcesses /\ snapshots \in 0..MaxSnapshots

\* A camera that was not configured yet has its options, and one that was has what they ask for.
AsAsked ==
  ~camera.again =>
    IF camera.stage = "constructed" THEN camera.options = camera.given ELSE ServicesAsConfigured

SnapshotTypes ==
  snapshot \in [stage : {"none", "waiting", "slow", "over"}, calls : Nat, answers : Nat,
                verdict : {"none", "image", "error"}]

CameraIInv == CameraTypes /\ AsAsked /\ SnapshotTypes /\ SnapshotAnsweredOnce

\* The options of a constructor are complete.
LEMMA OptionsAreLeft ==
  ASSUME NEW o \in CameraOptions
  PROVE  o \in LeftOptions /\ LeftOf(o, o)
BY CameraAssumption DEF LeftOptions, LeftOf

\* What is forgotten was asked for, and nothing is added.
LEMMA ForgottenIsLess ==
  ASSUME NEW o \in LeftOptions, NEW given, LeftOf(o, given)
  PROVE  Forgotten(o) \in LeftOptions /\ LeftOf(Forgotten(o), given)
<1> DEFINE f == Forgotten(o)
<1>1. /\ f.streams = o.streams /\ f.audio = o.audio /\ f.recording = FALSE
      /\ f.sensors = [sensor \in Sensors |-> IF o.sensors[sensor] = "own" THEN "own" ELSE "absent"]
      /\ f.doorbell = (IF o.doorbell = "external" THEN "lost" ELSE o.doorbell)
  BY DEF Forgotten, LeftOptions
<1>2. f \in LeftOptions
  BY DEF Forgotten, LeftOptions
<1>3. OwnSensors(f) = OwnSensors(o)
  BY <1>1 DEF OwnSensors
<1> QED
  BY <1>1, <1>2, <1>3 DEF LeftOf

\* What less options ask for is asked for, whether the services are constructed or reconciled.
LEMMA SlotsAreWanted ==
  ASSUME NEW o, NEW given, LeftOf(o, given), NEW map
  PROVE  /\ Wanted(o) \subseteq Wanted(given)
         /\ SlotsAfter(map, o) \subseteq Wanted(given)
         /\ SlotsAfter(map, o) \ Sensors = Wanted(o) \ Sensors
<1>1. /\ StreamsIn(o) = {StreamSlots[i] : i \in 1..o.streams}
      /\ AudioIn(map, o) = AudioSlots(o.audio)
      /\ RecordingIn(o) = (IF o.recording THEN RecordingSlots ELSE {})
      /\ SensorsIn(map, o) \subseteq OwnSensors(o) /\ OwnSensors(o) \subseteq Sensors
      /\ DoorbellIn(o) = (IF o.doorbell = "own" THEN {"doorbell"} ELSE {})
  BY DEF StreamsIn, AudioIn, RecordingIn, SensorsIn, DoorbellIn, OwnSensors
<1>2. SlotsAfter(map, o) = StreamsIn(o) \cup AudioIn(map, o) \cup RecordingIn(o) \cup SensorsIn(map, o) \cup DoorbellIn(o)
  BY DEF SlotsAfter
<1>3. Wanted(o) = StreamsIn(o) \cup AudioIn(map, o) \cup OwnSensors(o) \cup RecordingIn(o) \cup DoorbellIn(o)
  BY <1>1 DEF Wanted
<1>4. StreamsIn(o) \cup AudioIn(map, o) \cup OwnSensors(o) \cup RecordingIn(o) \cup DoorbellIn(o) \subseteq Wanted(given)
  BY <1>1 DEF Wanted, LeftOf
<1> QED
  BY <1>1, <1>2, <1>3, <1>4

\* A new camera, on a new accessory.
LEMMA CameraInitIInv == CameraInit => CameraIInv
<1> SUFFICES ASSUME CameraInit PROVE CameraIInv
  OBVIOUS
<1>1. PICK o \in CameraOptions : camera = Constructed(o)
  BY DEF CameraInit
<1>2. /\ camera.options = o /\ camera.given = o /\ camera.stage = "constructed"
      /\ camera \in [options : LeftOptions, given : CameraOptions, stage : {"constructed", "configured"}, again : BOOLEAN]
  <2>1. PICK p \in BOOLEAN : p = FALSE
    OBVIOUS
  <2>2. camera = [options |-> o, given |-> o, stage |-> "constructed", again |-> p]
    BY <1>1, <2>1 DEF Constructed
  <2> QED
    BY <2>2, OptionsAreLeft
<1>3. CameraTypes
  BY <1>2, OptionsAreLeft, CameraAssumption DEF CameraInit, CameraTypes, NoLinks, SensorLinks
<1>4. AsAsked
  BY <1>2 DEF AsAsked
<1>5. SnapshotTypes /\ SnapshotAnsweredOnce
  BY DEF CameraInit, NoSnapshot, SnapshotTypes, SnapshotAnsweredOnce
<1> QED
  BY <1>3, <1>4, <1>5 DEF CameraIInv

\* The camera is configured, with the services of map.
LEMMA ConfiguredCamera ==
  ASSUME CameraTypes, NEW map, Configured(map)
  PROVE  /\ camera' \in [options : LeftOptions, given : CameraOptions, stage : {"constructed", "configured"}, again : BOOLEAN]
         /\ LeftOf(camera'.options, camera'.given)
         /\ camera'.stage = "configured" /\ camera'.given = camera.given /\ camera'.again = camera.again
         /\ cameraMap' = map
<1>1. PICK f \in LeftOptions : f = Forgotten(camera.options) /\ LeftOf(f, camera.given)
  <2>1. PICK o \in LeftOptions, g \in CameraOptions : o = camera.options /\ g = camera.given /\ LeftOf(o, g)
    BY DEF CameraTypes
  <2> QED
    BY <2>1, ForgottenIsLess
<1>2. camera' = [camera EXCEPT !.stage = "configured", !.options = f] /\ cameraMap' = map
  BY <1>1 DEF Configured
<1>3. camera' \in [options : LeftOptions, given : CameraOptions, stage : {"constructed", "configured"}, again : BOOLEAN]
  BY <1>2 DEF CameraTypes
<1>4. /\ camera'.options = f /\ camera'.stage = "configured"
      /\ camera'.given = camera.given /\ camera'.again = camera.again
  BY <1>2 DEF CameraTypes
<1> QED
  BY <1>1, <1>2, <1>3, <1>4

\* The services are constructed.
LEMMA ConstructedIInv ==
  ASSUME CameraTypes, AsAsked, ConstructServices
  PROVE  CameraTypes' /\ AsAsked'
<1> DEFINE o == camera.options
           map == Wanted(o)
<1>1. /\ camera.stage = "constructed" /\ cameraMap = {} /\ Configured(map)
      /\ onAccessory' = onAccessory \cup map
      /\ sensorLinks' = [sensor \in Sensors |->
           IF o.recording /\ o.sensors[sensor] # "absent" THEN {o.sensors[sensor]} ELSE {}]
      /\ UNCHANGED <<cached, policy, snapshot, processes, snapshots>>
  BY DEF ConstructServices
<1>2. o \in LeftOptions /\ camera.given \in CameraOptions /\ LeftOf(o, camera.given)
  BY DEF CameraTypes
<1>3. map \subseteq Wanted(camera.given) /\ map \subseteq EverWanted
  BY <1>2, SlotsAreWanted DEF EverWanted
<1>4. /\ camera' \in [options : LeftOptions, given : CameraOptions, stage : {"constructed", "configured"}, again : BOOLEAN]
      /\ LeftOf(camera'.options, camera'.given)
      /\ camera'.stage = "configured" /\ camera'.given = camera.given /\ camera'.again = camera.again
      /\ cameraMap' = map
  BY <1>1, ConfiguredCamera
<1>5. sensorLinks' \in SensorLinks
  BY <1>1, <1>2 DEF LeftOptions, SensorLinks
<1>6. onAccessory' = map
  BY <1>1 DEF CameraTypes
<1> HIDE DEF map, o
<1>7. CameraTypes'
  BY <1>1, <1>3, <1>4, <1>5, <1>6 DEF CameraTypes
<1>8. AsAsked'
  <2> SUFFICES ASSUME ~camera.again PROVE ServicesAsConfigured'
    BY <1>4 DEF AsAsked
  <2>1. o = camera.given
    BY <1>1 DEF AsAsked, o
  <2>2. onAccessory' = Wanted(camera'.given)
    BY <1>4, <1>6, <2>1 DEF map
  <2>3. \A sensor \in Sensors : camera'.given.recording /\ camera'.given.sensors[sensor] # "absent"
          => sensorLinks'[sensor] # {}
    BY <1>1, <1>4, <2>1
  <2> QED
    BY <1>4, <1>6, <2>2, <2>3 DEF ServicesAsConfigured
<1> QED
  BY <1>7, <1>8

\* The services of a cached accessory are reconciled with the options.
LEMMA ReconciledIInv ==
  ASSUME CameraTypes, AsAsked, InitWithServices
  PROVE  CameraTypes' /\ AsAsked'
<1> DEFINE o == camera.options
           map == SlotsAfter(cameraMap, o)
<1>1. /\ camera.stage = "constructed" /\ Configured(map)
      /\ onAccessory' = IF map = cameraMap THEN onAccessory ELSE (onAccessory \ cameraMap) \cup map
      /\ sensorLinks' = LinksAfter(cameraMap, o, sensorLinks)
      /\ UNCHANGED <<cached, snapshot, processes, snapshots>>
  BY DEF InitWithServices
<1>2. o \in LeftOptions /\ camera.given \in CameraOptions /\ LeftOf(o, camera.given)
  BY DEF CameraTypes
<1>3. map \subseteq Wanted(camera.given) /\ map \subseteq EverWanted /\ map \ Sensors = Wanted(o) \ Sensors
  BY <1>2, SlotsAreWanted DEF EverWanted
<1>4. /\ camera' \in [options : LeftOptions, given : CameraOptions, stage : {"constructed", "configured"}, again : BOOLEAN]
      /\ LeftOf(camera'.options, camera'.given)
      /\ camera'.stage = "configured" /\ camera'.given = camera.given /\ camera'.again = camera.again
      /\ cameraMap' = map
  BY <1>1, ConfiguredCamera
<1>5. /\ sensorLinks' \in SensorLinks
      /\ \A sensor \in Sensors : o.recording /\ o.sensors[sensor] # "absent" => sensorLinks'[sensor] # {}
  <2>1. sensorLinks \in SensorLinks /\ NoLinks \in SensorLinks
    BY DEF CameraTypes, NoLinks, SensorLinks
  <2>2. PICK kept \in SensorLinks : kept = IF KeepsRecording(cameraMap, o) THEN sensorLinks ELSE NoLinks
    BY <2>1
  <2>3. sensorLinks' =
          [sensor \in Sensors |->
            IF ~o.recording THEN {}
            ELSE CASE o.sensors[sensor] = "own"      -> kept[sensor] \cup {IF sensor \in cameraMap THEN "own" ELSE "lost"}
                   [] o.sensors[sensor] = "external" -> (IF sensor \in cameraMap THEN kept[sensor] \ {"own"} ELSE kept[sensor])
                                                          \cup {"external"}
                   [] OTHER -> IF sensor \in cameraMap THEN kept[sensor] \ {"own"} ELSE kept[sensor]]
    BY <1>1, <2>2 DEF LinksAfter
  <2>4. \A sensor \in Sensors : o.sensors[sensor] \in {"absent", "own", "external"} /\ kept[sensor] \in SUBSET {"own", "external", "lost"}
    BY <1>2, <2>2 DEF LeftOptions, SensorLinks
  <2> HIDE DEF o
  <2>5. \A sensor \in Sensors :
          /\ sensorLinks'[sensor] \in SUBSET {"own", "external", "lost"}
          /\ o.recording /\ o.sensors[sensor] # "absent" => sensorLinks'[sensor] # {}
    BY <2>3, <2>4
  <2>6. sensorLinks' = [sensor \in Sensors |-> sensorLinks'[sensor]]
    BY <2>3
  <2> QED
    BY <2>5, <2>6 DEF SensorLinks
<1>6. onAccessory' = map
  BY <1>1 DEF CameraTypes
<1> HIDE DEF map, o
<1>7. CameraTypes'
  BY <1>1, <1>3, <1>4, <1>5, <1>6 DEF CameraTypes
<1>8. AsAsked'
  <2> SUFFICES ASSUME ~camera.again PROVE ServicesAsConfigured'
    BY <1>4 DEF AsAsked
  <2>1. o = camera.given
    BY <1>1 DEF AsAsked, o
  <2>2. onAccessory' \ Sensors = Wanted(camera'.given) \ Sensors /\ onAccessory' \cap Sensors \subseteq Wanted(camera'.given)
    BY <1>3, <1>4, <1>6, <2>1
  <2>3. \A sensor \in Sensors : camera'.given.recording /\ camera'.given.sensors[sensor] # "absent"
          => sensorLinks'[sensor] # {}
    BY <1>4, <1>5, <2>1
  <2> QED
    BY <1>4, <1>6, <2>2, <2>3 DEF ServicesAsConfigured
<1> QED
  BY <1>7, <1>8

\* A camera that stays as it is stays as it was asked for.
LEMMA CameraStays ==
  ASSUME CameraTypes, AsAsked, UNCHANGED <<camera, cameraMap, onAccessory, sensorLinks, cached, processes>>,
         snapshots' \in 0..MaxSnapshots
  PROVE  CameraTypes' /\ AsAsked'
BY DEF CameraTypes, AsAsked, ServicesAsConfigured

\* The camera is removed, and constructed with what it has not forgotten.
LEMMA RemovedIInv ==
  ASSUME CameraTypes, AsAsked, RemoveCamera
  PROVE  CameraTypes' /\ AsAsked'
<1>1. /\ camera' = [camera EXCEPT !.stage = "constructed", !.again = TRUE]
      /\ cameraMap' = {} /\ onAccessory' = onAccessory \ cameraMap /\ sensorLinks' = NoLinks
      /\ UNCHANGED <<cached, processes, snapshots>>
  BY DEF RemoveCamera
<1>2. PICK t \in BOOLEAN : t = TRUE
  OBVIOUS
<1>3. camera' = [camera EXCEPT !.stage = "constructed", !.again = t]
  BY <1>1, <1>2
<1>4. camera' \in [options : LeftOptions, given : CameraOptions, stage : {"constructed", "configured"}, again : BOOLEAN]
  BY <1>3 DEF CameraTypes
<1>5. camera'.options = camera.options /\ camera'.given = camera.given /\ camera'.again = t
  BY <1>3 DEF CameraTypes
<1>6. CameraTypes'
  BY <1>1, <1>4, <1>5 DEF CameraTypes, NoLinks, SensorLinks
<1>7. AsAsked'
  BY <1>2, <1>5 DEF AsAsked
<1> QED
  BY <1>6, <1>7

\* The accessory is cached as it is.
LEMMA CachedIInv ==
  ASSUME CameraTypes, AsAsked, CacheAccessory
  PROVE  CameraTypes' /\ AsAsked'
<1> DEFINE links == [sensor \in Sensors |-> sensorLinks[sensor] \ {"lost"}]
           json == [map |-> cameraMap, on |-> onAccessory, links |-> links]
<1>1. cached' = {json} /\ UNCHANGED <<camera, cameraMap, onAccessory, sensorLinks, processes, snapshots>>
  BY DEF CacheAccessory
<1>2. links \in SensorLinks
  BY DEF CameraTypes, SensorLinks
<1>3. json \in [map : SUBSET EverWanted, on : SUBSET EverWanted, links : SensorLinks] /\ json.on = json.map
  <2> HIDE DEF links
  <2> QED
    BY <1>2 DEF CameraTypes
<1> HIDE DEF json
<1>4. CameraTypes'
  BY <1>1, <1>3 DEF CameraTypes
<1>5. AsAsked'
  BY <1>1 DEF AsAsked, ServicesAsConfigured
<1> QED
  BY <1>4, <1>5

\* Another process constructs its camera and finds what was cached.
LEMMA NewProcessIInv ==
  ASSUME CameraTypes, AsAsked, NewProcess
  PROVE  CameraTypes' /\ AsAsked'
<1>1. PICK json \in cached, o \in CameraOptions :
        /\ processes < MaxProcesses /\ processes' = processes + 1
        /\ camera' = Constructed(o)
        /\ cameraMap' = json.map /\ onAccessory' = json.on /\ sensorLinks' = json.links
        /\ UNCHANGED <<cached, snapshots>>
  BY DEF NewProcess
<1>2. json \in [map : SUBSET EverWanted, on : SUBSET EverWanted, links : SensorLinks] /\ json.on = json.map
  BY DEF CameraTypes
<1>3. PICK p \in BOOLEAN : p = FALSE
  OBVIOUS
<1>4. camera' = [options |-> o, given |-> o, stage |-> "constructed", again |-> p]
  BY <1>1, <1>3 DEF Constructed
<1>5. /\ camera' \in [options : LeftOptions, given : CameraOptions, stage : {"constructed", "configured"}, again : BOOLEAN]
      /\ camera'.options = o /\ camera'.given = o /\ camera'.stage = "constructed"
  BY <1>4, OptionsAreLeft
<1>6. processes' \in 1..MaxProcesses
  BY <1>1, CameraAssumption DEF CameraTypes
<1>7. CameraTypes'
  BY <1>1, <1>2, <1>5, <1>6, OptionsAreLeft DEF CameraTypes
<1>8. AsAsked'
  BY <1>5 DEF AsAsked
<1> QED
  BY <1>7, <1>8

\* A snapshot request that is over was answered, and only then.
SnapshotHolds(s) ==
  /\ s \in [stage : {"none", "waiting", "slow", "over"}, calls : Nat, answers : Nat,
            verdict : {"none", "image", "error"}]
  /\ s.answers = (IF s.stage = "over" THEN 1 ELSE 0)

\* The delegate answers the request or comes too late, and the timers do.
LEMMA SnapshotAnswers ==
  ASSUME NEW s, SnapshotHolds(s), NEW verdict \in Verdicts
  PROVE  /\ SnapshotHolds(CalledBack(s, verdict)) /\ SnapshotHolds(Threw(s))
         /\ s.stage # "over" => SnapshotHolds(Answered(s, verdict))
         /\ \A stage \in {"waiting", "slow"} : s.stage # "over" => SnapshotHolds([s EXCEPT !.stage = stage])
<1>1. ASSUME s.stage # "over", NEW v \in Verdicts
      PROVE  /\ SnapshotHolds(Answered(s, v))
             /\ SnapshotHolds([Answered(s, v) EXCEPT !.calls = @ + 1])
  <2>1. PICK a : a = Answered(s, v)
    OBVIOUS
  <2>2. s.answers = 0
    BY <1>1 DEF SnapshotHolds
  <2>3. /\ a = [s EXCEPT !.answers = s.answers + 1, !.verdict = v, !.stage = "over"]
        /\ v \in {"none", "image", "error"}
    BY <1>1, <2>1 DEF Answered, Verdicts
  <2>4. s.answers + 1 = 1
    BY <2>2
  <2>5. a = [s EXCEPT !.answers = 1, !.verdict = v, !.stage = "over"]
    BY <2>3, <2>4
  <2>6. /\ s \in [stage : {"none", "waiting", "slow", "over"}, calls : Nat, answers : Nat,
                   verdict : {"none", "image", "error"}]
        /\ 1 \in Nat
    BY DEF SnapshotHolds
  <2>7. a \in [stage : {"none", "waiting", "slow", "over"}, calls : Nat, answers : Nat,
               verdict : {"none", "image", "error"}]
    BY ONLY <2>3, <2>5, <2>6
  <2>8. a.answers = 1 /\ a.stage = "over"
    BY ONLY <2>5, <2>6
  <2>9. SnapshotHolds(a)
    BY <2>7, <2>8 DEF SnapshotHolds
  <2>10. SnapshotHolds([a EXCEPT !.calls = @ + 1])
    BY <2>9, <2>1 DEF SnapshotHolds
  <2> QED
    BY <2>9, <2>1, <2>10
<1>2. SnapshotHolds([s EXCEPT !.calls = @ + 1])
  BY DEF SnapshotHolds
<1>3. SnapshotHolds(CalledBack(s, verdict)) /\ SnapshotHolds(Threw(s))
  <2>1. PICK v \in Verdicts : v = "error"
    BY DEF Verdicts
  <2> QED
    BY <1>1, <1>2, <2>1 DEF CalledBack, Threw
<1>4. \A stage \in {"waiting", "slow"} : s.stage # "over" => SnapshotHolds([s EXCEPT !.stage = stage])
  BY DEF SnapshotHolds
<1> QED
  BY <1>1, <1>3, <1>4

\* Every snapshot step leaves a request answered once, or not yet.
LEMMA SnapshotPreserved ==
  ASSUME SnapshotHolds(snapshot), [CameraNext]_cameraVars
  PROVE  SnapshotHolds(snapshot')
<1>0. SnapshotHolds(NoSnapshot)
  BY DEF SnapshotHolds, NoSnapshot
<1>1. PICK e \in Verdicts : e = "error"
  BY DEF Verdicts
<1>2. ASSUME NEW reason, HandleSnapshotRequest(reason)
      PROVE  SnapshotHolds(snapshot')
  <2>1. CASE snapshot' = Answered(NoSnapshot, "error")
    <3>1. PICK n : n = NoSnapshot
      OBVIOUS
    <3>2. SnapshotHolds(n) /\ n.stage # "over"
      BY <1>0, <3>1 DEF NoSnapshot
    <3> QED
      BY <1>1, <2>1, <3>1, <3>2, SnapshotAnswers
  <2>2. CASE snapshot' \in DelegateCalled([NoSnapshot EXCEPT !.stage = "waiting"])
    <3>1. PICK w : w = [NoSnapshot EXCEPT !.stage = "waiting"]
      OBVIOUS
    <3>2. SnapshotHolds(w)
      BY <3>1 DEF SnapshotHolds, NoSnapshot
    <3>3. ASSUME NEW v \in Verdicts
          PROVE  SnapshotHolds(CalledBack(w, v)) /\ SnapshotHolds(Threw(w)) /\ SnapshotHolds(Threw(CalledBack(w, v)))
      <4>1. SnapshotHolds(CalledBack(w, v)) /\ SnapshotHolds(Threw(w))
        BY <3>2, SnapshotAnswers
      <4>2. PICK c : c = CalledBack(w, v)
        OBVIOUS
      <4>3. SnapshotHolds(Threw(c))
        BY <4>1, <4>2, SnapshotAnswers
      <4> QED
        BY <4>1, <4>2, <4>3
    <3>4. snapshot' \in DelegateCalled(w)
      BY <2>2, <3>1
    <3> QED
      BY <1>1, <3>2, <3>3, <3>4 DEF DelegateCalled
  <2> QED
    BY <1>2, <2>1, <2>2 DEF HandleSnapshotRequest
<1>3. ASSUME NEW verdict \in Verdicts, DelegateAnswers(verdict)
      PROVE  SnapshotHolds(snapshot')
  <2>1. snapshot' = CalledBack(snapshot, verdict)
    BY <1>3 DEF DelegateAnswers, SnapshotMoves
  <2>2. PICK s : s = snapshot
    OBVIOUS
  <2>3. SnapshotHolds(CalledBack(s, verdict))
    BY <2>2, SnapshotAnswers
  <2> QED
    BY <2>1, <2>2, <2>3
<1>4. CASE SnapshotWarning \/ SnapshotTimeout
  <2>1. PICK s : s = snapshot
    OBVIOUS
  <2>2. s.stage # "over" /\ (snapshot' = [s EXCEPT !.stage = "slow"] \/ snapshot' = Answered(s, e))
    BY <1>1, <1>4, <2>1 DEF SnapshotWarning, SnapshotTimeout, SnapshotMoves
  <2>3. SnapshotHolds([s EXCEPT !.stage = "slow"]) /\ SnapshotHolds(Answered(s, e))
    BY <2>1, <2>2, SnapshotAnswers
  <2> QED
    BY <2>2, <2>3
<1>5. CASE RemoveCamera \/ NewProcess
  <2>1. snapshot' = NoSnapshot
    BY <1>5 DEF RemoveCamera, NewProcess
  <2> QED
    BY <1>0, <2>1
<1>6. CASE snapshot' = snapshot
  BY <1>6
<1>7. CASE ConstructServices \/ InitWithServices \/ CacheAccessory \/ \E switch \in DOMAIN policy : SwitchPolicy(switch)
  BY <1>6, <1>7 DEF ConstructServices, InitWithServices, CacheAccessory, SwitchPolicy
<1> QED
  BY <1>2, <1>3, <1>4, <1>5, <1>6, <1>7 DEF CameraNext, cameraVars

\* Every step preserves the invariant.
LEMMA CameraPreserved ==
  ASSUME CameraIInv, [CameraNext]_cameraVars
  PROVE  CameraIInv'
<1>0. CameraTypes /\ AsAsked
  BY DEF CameraIInv
<1>1. SnapshotTypes' /\ SnapshotAnsweredOnce'
  <2>1. SnapshotHolds(snapshot)
    BY DEF CameraIInv, SnapshotTypes, SnapshotAnsweredOnce, SnapshotHolds
  <2>2. SnapshotHolds(snapshot')
    BY <2>1, SnapshotPreserved
  <2> QED
    BY <2>2 DEF SnapshotTypes, SnapshotAnsweredOnce, SnapshotHolds
<1>2. CameraTypes' /\ AsAsked'
  <2>1. CASE ConstructServices
    BY <1>0, <2>1, ConstructedIInv
  <2>2. CASE InitWithServices
    BY <1>0, <2>2, ReconciledIInv
  <2>3. CASE RemoveCamera
    BY <1>0, <2>3, RemovedIInv
  <2>4. CASE CacheAccessory
    BY <1>0, <2>4, CachedIInv
  <2>5. CASE NewProcess
    BY <1>0, <2>5, NewProcessIInv
  <2>6. ASSUME NEW switch, SwitchPolicy(switch)
        PROVE  CameraTypes' /\ AsAsked'
    BY <1>0, <2>6, CameraStays DEF SwitchPolicy, CameraTypes
  <2>7. ASSUME NEW reason, HandleSnapshotRequest(reason)
        PROVE  CameraTypes' /\ AsAsked'
    <3>1. snapshots' \in 0..MaxSnapshots
      BY <1>0, <2>7, CameraAssumption DEF HandleSnapshotRequest, CameraTypes
    <3> QED
      BY <1>0, <2>7, <3>1, CameraStays DEF HandleSnapshotRequest
  <2>8. CASE (\E verdict \in Verdicts : DelegateAnswers(verdict)) \/ SnapshotWarning \/ SnapshotTimeout
    BY <1>0, <2>8, CameraStays DEF DelegateAnswers, SnapshotWarning, SnapshotTimeout, SnapshotMoves, CameraTypes
  <2>9. CASE UNCHANGED cameraVars
    BY <1>0, <2>9, CameraStays DEF cameraVars, CameraTypes
  <2> QED
    BY <2>1, <2>2, <2>3, <2>4, <2>5, <2>6, <2>7, <2>8, <2>9 DEF CameraNext
<1> QED
  BY <1>1, <1>2 DEF CameraIInv

\* CameraController.constructServices, initWithServices, handleSnapshotRequest: over any number of
\* processes with any options a configured camera has the services its options ask for and no other,
\* but for a sensor the processes before did not have, the sensors are linked, and a snapshot is
\* answered once (unless it was removed and is configured again).
THEOREM CameraAlwaysServed == CameraSpec => []CameraServed
<1>1. CameraInit => CameraIInv
  BY CameraInitIInv
<1>2. CameraIInv /\ [CameraNext]_cameraVars => CameraIInv'
  BY CameraPreserved
<1>3. CameraIInv => CameraServed
  <2> SUFFICES ASSUME CameraIInv PROVE CameraServed
    OBVIOUS
  <2>1. CameraTypeOK
    BY DEF CameraIInv, CameraTypes, SnapshotTypes, CameraTypeOK, EverWanted, SensorLinks
  <2>2. ServicesAsConfigured
    <3>1. CASE camera.stage = "configured" /\ ~camera.again
      BY <3>1 DEF CameraIInv, AsAsked
    <3>2. CASE ~(camera.stage = "configured" /\ ~camera.again)
      BY <3>2 DEF ServicesAsConfigured
    <3> QED
      BY <3>1, <3>2
  <2> QED
    BY <2>1, <2>2 DEF CameraServed, CameraIInv
<1> QED
  BY <1>1, <1>2, <1>3, PTL DEF CameraSpec

-----------------------------------------------------------------------------

(***************************************************************************)
(* RTPPackets.  What was sent last is what the last message became, under  *)
(* settings that have not been lost since.                                 *)
(***************************************************************************)
PacketsIInv ==
  /\ source \in Types
  /\ OneSourceOutside

\* What the camera process reports is named by a word.
LEMMA ReportedWords ==
  ASSUME NEW m \in Messages(SourceReports), NEW k \in CompletePackets(m)
  PROVE  m[k] \in SourceReports
<1>1. PICK n \in 1..MaxPackets : m \in [1..n -> SourceReports \cup {Malformed}]
  BY DEF Messages
<1>2. k \in 1..n /\ m[k] # Malformed
  BY <1>1 DEF CompletePackets
<1> QED
  BY <1>1, <1>2

\* The first word that is read is kept.
LEMMA LearnsWord ==
  ASSUME incomingSSRC \in Words, NEW word \in Words, Learn(word)
  PROVE  incomingSSRC' \in Words
BY DEF Learn

\* Every packet keeps the invariant.
LEMMA PacketsNextIInv == PacketsIInv /\ [PacketsNext]_packetVars => PacketsIInv'
<1> SUFFICES ASSUME PacketsIInv, [PacketsNext]_packetVars PROVE PacketsIInv'
  OBVIOUS
<1> USE DEF PacketsIInv, OneSourceOutside, PacketsTypeOK
<1>1. CASE SetServer
  BY <1>1 DEF SetServer
<1>2. ASSUME NEW type \in Types, SetOutgoingPayloadType(type)
      PROVE  PacketsIInv'
  BY <1>2 DEF SetOutgoingPayloadType
<1>3. ASSUME NEW type \in Types, NEW time \in Times, RTPMessage(RTP(type, time, SourceSSRC))
      PROVE  PacketsIInv'
  <2>1. PICK packet : packet = RTP(type, time, SourceSSRC)
    OBVIOUS
  <2>2. packet # Malformed /\ packet.kind = "RTP" /\ packet.word4 = time /\ DOMAIN packet = {"kind", "type", "word4", "word8"}
    BY <2>1 DEF RTP, Malformed
  <2>3. /\ received' = [to |-> "RTP", message |-> <<packet>>]
        /\ Learn(packet.word4) /\ sent' = SendOut(<<RTPRewritten(packet)>>)
        /\ UNCHANGED proxySettings
    BY <1>3, <2>1, <2>2 DEF RTPMessage, Receives
  <2>4. incomingSSRC' \in Words
    BY <2>2, <2>3, LearnsWord DEF Words
  <2>5. RTPRewritten(packet).word8 = OutgoingSSRC
    BY <2>2 DEF RTPRewritten
  <2>6. sent' = [to |-> "controller", message |-> <<RTPRewritten(packet)>>]
    BY <2>3 DEF SendOut, Out
  <2>7. received'.to = "RTP"
    BY <2>3
  <2> QED
    BY <2>3, <2>4, <2>5, <2>6, <2>7 DEF proxySettings
<1>4. CASE RTPMessage(Malformed)
  <2>1. /\ received' = [to |-> "RTP", message |-> <<Malformed>>]
        /\ sent' = SendOut(<<Malformed>>)
        /\ UNCHANGED <<proxySettings, incomingSSRC>>
    BY <1>4 DEF RTPMessage, Receives
  <2>2. sent' = [to |-> "controller", message |-> <<Malformed>>]
    BY <2>1 DEF SendOut, Out
  <2>3. received'.to = "RTP" /\ Malformed.kind = "short"
    BY <2>1 DEF Malformed
  <2> QED
    BY <2>1, <2>2, <2>3 DEF proxySettings
<1>5. ASSUME NEW m \in Messages(SourceReports), RTCPMessage(m)
      PROVE  PacketsIInv'
  <2> DEFINE senders == {k \in CompletePackets(m) : IsSenderReport(m[k])}
             result == [k \in CompletePackets(m) |-> SenderReport(m[k])]
  <2>1. /\ received' = [to |-> "RTCP", message |-> m]
        /\ sent' = SendOut(result)
        /\ IF senders = {} THEN UNCHANGED incomingSSRC ELSE Learn(m[Min(senders)].word4)
        /\ UNCHANGED proxySettings
    BY <1>5 DEF RTCPMessage, Receives
  <2>2. \A k \in CompletePackets(m) : m[k] \in SourceReports
    BY ReportedWords
  <2>3. incomingSSRC' \in Words
    <3>1. CASE senders = {}
      BY <2>1, <3>1
    <3>2. CASE senders # {}
      <4>1. senders \subseteq Nat
        <5>1. PICK n \in 1..MaxPackets : m \in [1..n -> SourceReports \cup {Malformed}]
          BY DEF Messages
        <5> QED
          BY <5>1 DEF CompletePackets
      <4>2. Min(senders) \in senders
        BY <3>2, <4>1, MinIsSmallest
      <4>3. m[Min(senders)] \in SourceReports
        BY <2>2, <4>2
      <4>4. m[Min(senders)].word4 \in Words
        BY <4>3 DEF SourceReports, Report, Words
      <4> QED
        BY <2>1, <3>2, <4>4, LearnsWord
    <3> QED
      BY <3>1, <3>2
  <2>4. ASSUME NEW k \in CompletePackets(m), IsSenderReport(result[k])
        PROVE  result[k].word4 = OutgoingSSRC
    <3>1. PICK packet \in SourceReports : packet = m[k]
      BY <2>2
    <3>2. "word4" \in DOMAIN packet
      BY <3>1 DEF SourceReports, Report
    <3>3. result[k] = SenderReport(packet)
      BY <3>1
    <3>4. CASE IsSenderReport(packet)
      BY <3>2, <3>3, <3>4 DEF SenderReport
    <3>5. CASE ~ IsSenderReport(packet)
      BY <2>4, <3>3, <3>5 DEF SenderReport
    <3> QED
      BY <3>4, <3>5
  <2>5. sent'.to \in {"nobody", "controller"} /\ (sent'.message = result \/ sent'.message = <<>>)
    BY <2>1 DEF SendOut, Nowhere, Out
  <2>6. DOMAIN result = CompletePackets(m)
    OBVIOUS
  <2> HIDE DEF result
  <2>7. \A k \in DOMAIN sent'.message : IsSenderReport(sent'.message[k]) => sent'.message[k].word4 = OutgoingSSRC
    <3>1. CASE sent'.message = result
      BY <3>1, <2>4, <2>6
    <3>2. CASE sent'.message = <<>>
      BY <3>2
    <3> QED
      BY <3>1, <3>2, <2>5
  <2>8. received'.to = "RTCP"
    BY <2>1
  <2> QED
    BY <2>1, <2>3, <2>5, <2>7, <2>8 DEF proxySettings, IsSenderReport
<1>6. ASSUME NEW m \in Messages(ControllerReports), RTCPReply(m)
      PROVE  PacketsIInv'
  <2>1. PICK result : sent' = SendOut(result)
    BY <1>6 DEF RTCPReply
  <2>2. sent'.to \in {"nobody", "controller"}
    BY <2>1 DEF SendOut, Nowhere, Out
  <2>3. received'.to = "controller" /\ UNCHANGED <<proxySettings, incomingSSRC>>
    BY <1>6 DEF RTCPReply, Receives
  <2> QED
    BY <2>2, <2>3 DEF proxySettings
<1>7. CASE UNCHANGED packetVars
  BY <1>7 DEF packetVars, proxySettings, IsSenderReport
<1> QED
  BY <1>1, <1>2, <1>3, <1>4, <1>5, <1>6, <1>7 DEF PacketsNext

\* Whatever the camera process sends, and however it is cut, the controller sees one source
\* (rtpMessage, rtcpMessage).
THEOREM OneSourceAlways == PacketsSpec => []OneSourceOutside
<1>1. PacketsInit => PacketsIInv
  BY DEF PacketsInit, PacketsIInv, OneSourceOutside, PacketsTypeOK, Words, Nowhere
<1>2. PacketsIInv => OneSourceOutside
  BY DEF PacketsIInv
<1> QED
  BY <1>1, <1>2, PacketsNextIInv, PTL DEF PacketsSpec
=============================================================================
