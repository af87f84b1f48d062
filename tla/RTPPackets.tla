-------------------------------- MODULE RTPPackets --------------------------------
(***************************************************************************)
(* The packets an RTPProxy passes between the camera process (the source)  *)
(* and the controller of a stream that is not encrypted: which payload     *)
(* type and which synchronisation source (SSRC) they name, and where they  *)
(* go.  The sockets are those of CameraStreaming.                          *)
(*                                                                         *)
(* A packet is the fields the proxy reads or writes: of an RTP packet the  *)
(* payload type, the word at byte 4 and the word at byte 8; of an RTCP     *)
(* packet its type and those two words.  RTP carries its time stamp at     *)
(* byte 4 and its SSRC at byte 8, a sender report (200) its SSRC at byte   *)
(* 4, a receiver report (201) the SSRC it is about at byte 8.              *)
(***************************************************************************)
EXTENDS Naturals, FiniteSets, Sequences, FiniteSetsExt

CONSTANTS
  Types,        \* payload types
  SourceSSRC,   \* the SSRC the camera process sends under
  OutgoingSSRC, \* the SSRC the controller was told
  Times,        \* time stamps
  Unknown,      \* null
  Strange,      \* whatever else stands in a word
  MaxPackets    \* bound on the packets in an RTCP message

ASSUME PacketsAssumption == Cardinality({SourceSSRC, OutgoingSSRC, Unknown, Strange}) = 4

VARIABLES
  disabled,
  incomingPayloadType, outgoingPayloadType,
  incomingSSRC,
  serverRTCPPort,   \* whether the camera process told where it takes reports
  source,           \* the payload type of the camera process
  received, sent    \* the last message and where its result went

proxySettings == <<disabled, incomingPayloadType, outgoingPayloadType, serverRTCPPort, source>>
packetVars == <<proxySettings, incomingSSRC, received, sent>>

Words == Times \cup {SourceSSRC, OutgoingSSRC, Unknown, Strange}
RTP(type, time, ssrc) == [kind |-> "RTP", type |-> type, word4 |-> time, word8 |-> ssrc]
Malformed == [kind |-> "short", type |-> Strange, word4 |-> Strange, word8 |-> Strange]
Report(type, word4, word8, words) ==
  [kind |-> "RTCP", type |-> type, word4 |-> word4, word8 |-> word8, words |-> words]
Nowhere == [to |-> "nobody", message |-> <<>>]
Out(message) == [to |-> "controller", message |-> message]

PacketsInit ==
  /\ disabled \in BOOLEAN
  /\ source \in Types
  /\ incomingPayloadType = 0
  /\ outgoingPayloadType = Unknown
  /\ incomingSSRC = Unknown
  /\ serverRTCPPort = FALSE
  /\ received = Nowhere
  /\ sent = Nowhere

-----------------------------------------------------------------------------
(* What the stream management tells the proxy.                             *)

\* The plugin's answer: its payload type and where its process listens.
SetServer ==
  /\ incomingPayloadType' = source
  /\ serverRTCPPort' = TRUE
  /\ UNCHANGED <<disabled, outgoingPayloadType, source, incomingSSRC, received, sent>>

\* The controller's start request.
SetOutgoingPayloadType(type) ==
  /\ serverRTCPPort
  /\ outgoingPayloadType' = type
  /\ UNCHANGED <<disabled, incomingPayloadType, serverRTCPPort, source, incomingSSRC, received, sent>>

-----------------------------------------------------------------------------
(* Packets.                                                                *)

\* A null payload type is or-ed in as a zero.
OutgoingType == IF outgoingPayloadType = Unknown THEN 0 ELSE outgoingPayloadType

\* Where a message goes: sendOut.
SendOut(message) == IF message = <<>> THEN Nowhere ELSE Out(message)

\* The listeners are registered when the sockets are bound, unless the proxy is disabled.
Receives(from, message) == ~disabled /\ received' = [to |-> from, message |-> message]

Learn(word) == incomingSSRC' = IF incomingSSRC = Unknown THEN word ELSE incomingSSRC

\* Mutant of RTPRewritten: only packets of the expected type are renamed.
RTPRewrittenIfExpected(packet) ==
  IF packet.type # incomingPayloadType THEN packet
  ELSE [packet EXCEPT !.type = OutgoingType, !.word8 = OutgoingSSRC]

RTPRewritten(packet) ==
  [packet EXCEPT !.type = IF @ = incomingPayloadType THEN OutgoingType ELSE @, !.word8 = OutgoingSSRC]

\* rtpMessage: what is too short to be RTP is passed on as it is.
RTPMessage(packet) ==
  /\ Receives("RTP", <<packet>>)
  /\ IF packet = Malformed
     THEN sent' = SendOut(<<packet>>) /\ UNCHANGED incomingSSRC
     ELSE Learn(packet.word4) /\ sent' = SendOut(<<RTPRewritten(packet)>>)
  /\ UNCHANGED proxySettings

\* processRTCPMessage: the packets of a message up to one that is cut off.  They are transformed one by one.
CompletePackets(message) == {k \in DOMAIN message : \A j \in 1..k : message[j] # Malformed}

IsSenderReport(packet) == packet.type = 200 /\ packet.words >= 2
IsReceiverReport(packet) == packet.type = 201 /\ packet.words >= 3

SenderReport(packet) ==
  IF IsSenderReport(packet) THEN [packet EXCEPT !.word4 = OutgoingSSRC] ELSE packet

\* rtcpMessage
RTCPMessage(message) ==
  LET senders == {k \in CompletePackets(message) : IsSenderReport(message[k])} IN
  /\ Receives("RTCP", message)
  /\ sent' = SendOut([k \in CompletePackets(message) |-> SenderReport(message[k])])
  /\ IF senders = {} THEN UNCHANGED incomingSSRC ELSE Learn(message[Min(senders)].word4)
  /\ UNCHANGED proxySettings

\* A null SSRC is written as a zero.
ReceiverReport(packet) ==
  IF IsReceiverReport(packet)
  THEN [packet EXCEPT !.word8 = IF incomingSSRC = Unknown THEN Strange ELSE incomingSSRC]
  ELSE packet

\* rtcpReply: a report of the controller.
RTCPReply(message) ==
  /\ Receives("controller", message)
  /\ sent' = SendOut([k \in CompletePackets(message) |-> ReceiverReport(message[k])])
  /\ UNCHANGED <<proxySettings, incomingSSRC>>

-----------------------------------------------------------------------------
\* What the camera process and the controller may send.
SourceReports ==
  {Report(200, SourceSSRC, Strange, 7), Report(200, SourceSSRC, Strange, 1), Report(202, SourceSSRC, Strange, 3)}
ControllerReports == {Report(201, Strange, OutgoingSSRC, 8), Report(201, Strange, Strange, 2)}
\* Only the last packet of a message can be cut off.
Messages(S) ==
  {m \in UNION {[1..n -> S \cup {Malformed}] : n \in 1..MaxPackets} :
     \A k \in 1..(Len(m) - 1) : m[k] # Malformed}

PacketsNext ==
  \/ SetServer
  \/ \E type \in Types : SetOutgoingPayloadType(type)
  \/ \E type \in Types, time \in Times : RTPMessage(RTP(type, time, SourceSSRC))
  \/ RTPMessage(Malformed)
  \/ \E m \in Messages(SourceReports) : RTCPMessage(m)
  \/ \E m \in Messages(ControllerReports) : RTCPReply(m)

PacketsSpec == PacketsInit /\ [][PacketsNext]_packetVars

-----------------------------------------------------------------------------
(* Properties.                                                             *)

PacketsTypeOK ==
  /\ incomingPayloadType \in Types \cup {0} /\ outgoingPayloadType \in Types \cup {Unknown}
  /\ incomingSSRC \in Words
  /\ sent.to \in {"nobody", "controller"}

\* The controller sees one source: every packet and every sender report of the stream carries
\* the SSRC it was told, whichever of the two comes first and whatever else stands in the same
\* message, so that sound and picture can be put together (rtpMessage, rtcpMessage).
OneSourceOutside ==
  /\ PacketsTypeOK
  /\ received.to = "RTP" => \A k \in DOMAIN sent.message :
       sent.message[k].kind = "RTP" => sent.message[k].word8 = OutgoingSSRC
  /\ received.to = "RTCP" => \A k \in DOMAIN sent.message :
       IsSenderReport(sent.message[k]) => sent.message[k].word4 = OutgoingSSRC

\* What the proxy rewrites a controller's report to is the name of the source.
ReportNamesSource ==
  received.to = "controller" => \A k \in DOMAIN sent.message :
    sent.message[k].kind = "RTCP" /\ IsReceiverReport(sent.message[k])
      => sent.message[k].word8 \in {SourceSSRC, Strange}

\* "The proxy was created to deal with RTCP and SSRC related stuff from external streams": a
\* report of the controller does not go back to the controller.
ReportReachesSource == received.to = "controller" => sent.to # "controller"
=============================================================================
