----------------------------- MODULE CameraStreaming -----------------------------
(***************************************************************************)
(* Live streams of a camera: one RTPStreamManagement, which serves one     *)
(* session at a time, and the plugin behind it (CameraStreamingDelegate).  *)
(*                                                                         *)
(* A controller writes SetupEndpoints, reads the answer, and starts,       *)
(* reconfigures and ends the session by writing                            *)
(* SelectedRTPStreamConfiguration.  The plugin answers through callbacks,  *)
(* whenever it likes; the session can be gone by then.  With the proxy     *)
(* option sockets are bound first (RTPProxy).                              *)
(***************************************************************************)
EXTENDS Naturals

CONSTANTS
  Sessions,       \* session identifiers of controllers; each sets one session up
  Connections,    \* HAP connections
  ProxyOptions,   \* values of the option proxy
  NoSession, NoConnection

ASSUME CameraStreamingAssumption ==
  /\ NoSession \notin Sessions /\ NoConnection \notin Connections
  /\ ProxyOptions \subseteq BOOLEAN

VARIABLES
  open,                \* open connections
  present,             \* the controller has not been removed from the accessory
  requireProxy,
  enabled,             \* Active and HomeKitCameraActive are both set
  streamStatus,        \* "available" or "in_use"
  activeConnection,
  sessionIdentifier,
  selectedConfiguration,   \* the session that wrote it, or NoSession
  setupEndpointsResponse,  \* what SetupEndpoints reads
  setup,               \* session -> how far its setup is
  videoProxy,          \* the session whose proxies are registered, or NoSession
  sockets,             \* sessions whose proxies hold sockets
  asked,               \* requests the plugin has not answered
  plugin,              \* session -> what the plugin knows of it
  endedBinding,        \* history: sessions that ended while their sockets were being bound
  late,                \* history: sessions the plugin prepared when they had ended
  cutShort             \* history: sessions that ended by an answer of the plugin for another one

session == <<streamStatus, activeConnection, sessionIdentifier, selectedConfiguration>>
streamingVars == <<open, present, requireProxy, enabled, session, setupEndpointsResponse, setup,
                   videoProxy, sockets, asked, plugin, endedBinding, late, cutShort>>

Response(s, status) == [session |-> s, status |-> status]
NoResponse == Response(NoSession, "none")

StreamRequest == [session : Sessions, type : {"start", "reconfigure", "stop"}]

StreamingTypeOK ==
  /\ open \subseteq Connections
  /\ present \in BOOLEAN /\ requireProxy \in BOOLEAN /\ enabled \in BOOLEAN
  /\ streamStatus \in {"available", "in_use"}
  /\ activeConnection \in Connections \cup {NoConnection}
  /\ sessionIdentifier \in Sessions \cup {NoSession}
  /\ selectedConfiguration \in Sessions \cup {NoSession}
  /\ setupEndpointsResponse \in {NoResponse}
       \cup {Response(s, t) : s \in Sessions, t \in {"success", "busy"}}
  /\ setup \in [Sessions -> {"none", "binding", "preparing", "answered"}]
  /\ videoProxy \in Sessions \cup {NoSession}
  /\ sockets \subseteq Sessions
  /\ asked \subseteq StreamRequest
  /\ plugin \in [Sessions -> {"none", "prepared", "started", "stopped", "failed"}]
  /\ endedBinding \subseteq Sessions /\ late \subseteq Sessions /\ cutShort \subseteq Sessions

StreamingInit ==
  /\ open = Connections
  /\ present = TRUE
  /\ requireProxy \in ProxyOptions
  /\ enabled \in BOOLEAN
  /\ streamStatus = "available"
  /\ activeConnection = NoConnection
  /\ sessionIdentifier = NoSession
  /\ selectedConfiguration = NoSession
  /\ setupEndpointsResponse = NoResponse
  /\ setup = [s \in Sessions |-> "none"]
  /\ videoProxy = NoSession
  /\ sockets = {}
  /\ asked = {}
  /\ plugin = [s \in Sessions |-> "none"]
  /\ endedBinding = {} /\ late = {} /\ cutShort = {}

-----------------------------------------------------------------------------
(* The end of a session.                                                   *)

\* Mutant of DestroyProxies: the sockets are left open.
DestroyProxiesNot(bound) ==
  /\ videoProxy' = NoSession
  /\ sockets' = bound

\* The sockets bound by now are closed, those still being bound are not.
DestroyProxies(bound) ==
  /\ videoProxy' = NoSession
  /\ sockets' = bound \ {videoProxy}

ResetSetupEndpointsResponse == setupEndpointsResponse' = NoResponse

\* handleSessionClosed: whichever session there is ends, without a word to the plugin.
SessionClosed(bound) ==
  /\ streamStatus' = "available"
  /\ activeConnection' = NoConnection
  /\ sessionIdentifier' = NoSession
  /\ selectedConfiguration' = NoSession
  /\ ResetSetupEndpointsResponse
  /\ DestroyProxies(bound)
  /\ endedBinding' = IF sessionIdentifier # NoSession /\ setup[sessionIdentifier] = "binding"
                     THEN endedBinding \cup {sessionIdentifier} ELSE endedBinding

\* The session ends and the plugin is told to stop it.
StopStream ==
  /\ SessionClosed(sockets)
  /\ plugin' = IF sessionIdentifier = NoSession THEN plugin
               ELSE [plugin EXCEPT ![sessionIdentifier] = "stopped"]

-----------------------------------------------------------------------------
(* Setting a session up.                                                   *)

Usable(c) == c \in open /\ present

\* A write of SetupEndpoints while another session is there: the answer replaces whatever answer there
\* was.
SetupBusy(c, s) ==
  /\ Usable(c) /\ enabled
  /\ setup[s] = "none"
  /\ streamStatus # "available"
  /\ setupEndpointsResponse' = Response(s, "busy")
  /\ UNCHANGED <<open, present, requireProxy, enabled, session, setup, videoProxy, sockets, asked, plugin,
                 endedBinding, late, cutShort>>

\* The stream is taken, and the sockets are bound or the plugin is asked.
SetupEndpoints(c, s) ==
  /\ Usable(c) /\ enabled
  /\ setup[s] = "none"
  /\ streamStatus = "available"
  /\ activeConnection' = c
  /\ sessionIdentifier' = s
  /\ streamStatus' = "in_use"
  /\ setup' = [setup EXCEPT ![s] = IF requireProxy THEN "binding" ELSE "preparing"]
  /\ videoProxy' = IF requireProxy THEN s ELSE videoProxy
  /\ UNCHANGED <<open, present, requireProxy, enabled, selectedConfiguration, setupEndpointsResponse,
                 sockets, asked, plugin, endedBinding, late, cutShort>>

\* The ports of the proxy that is registered now can be read.
PortsReadable(s) == videoProxy # NoSession /\ videoProxy \in sockets \cup {s}

\* The sockets of s are bound; the plugin is asked to prepare the stream.
ProxyBound(s) ==
  /\ setup[s] = "binding"
  /\ PortsReadable(s)
  /\ setup' = [setup EXCEPT ![s] = "preparing"]
  /\ sockets' = sockets \cup {s}
  /\ UNCHANGED <<open, present, requireProxy, enabled, session, setupEndpointsResponse, videoProxy, asked,
                 plugin, endedBinding, late, cutShort>>

\* They are bound after the session ended: the promise fails, and ends the session there is now.
ProxyFails(s) ==
  /\ setup[s] = "binding"
  /\ ~PortsReadable(s)
  /\ setup' = [setup EXCEPT ![s] = "answered"]
  /\ SessionClosed(sockets \cup {s})
  /\ UNCHANGED <<open, present, requireProxy, enabled, asked, plugin, late, cutShort>>

\* An answer for s ends whichever session there is.
EndedByAnswer(s) ==
  /\ SessionClosed(sockets)
  /\ cutShort' = IF sessionIdentifier \in {NoSession, s} THEN cutShort ELSE cutShort \cup {sessionIdentifier}

\* What the plugin knows of a session it answers for.
Knows(s, what) == IF plugin[s] = "stopped" THEN plugin ELSE [plugin EXCEPT ![s] = what]

\* The answer to SetupEndpoints is made up from the proxies there are, whosever they are; without any
\* that throws.
Offer(s) ==
  setupEndpointsResponse' = IF requireProxy /\ videoProxy = NoSession THEN setupEndpointsResponse
                            ELSE Response(s, "success")

\* The plugin has prepared the stream or could not; in both cases nobody looks whether the session is
\* still the current one.  The answer "error" is written and reset in the same step.
PrepareStream(s, prepared) ==
  /\ setup[s] = "preparing"
  /\ setup' = [setup EXCEPT ![s] = "answered"]
  /\ plugin' = Knows(s, IF prepared THEN "prepared" ELSE "failed")
  /\ IF prepared
     THEN /\ Offer(s)
          /\ late' = IF s = sessionIdentifier THEN late ELSE late \cup {s}
          /\ UNCHANGED <<session, videoProxy, sockets, endedBinding, cutShort>>
     ELSE EndedByAnswer(s) /\ UNCHANGED late
  /\ UNCHANGED <<open, present, requireProxy, enabled, asked>>

\* What the plugin prepared cannot be used: audio, a key or the address version is missing.  That
\* throws, into the plugin if it answers later, and into the promise, which ends the session there is,
\* if it answers while it is asked: for the current session, or for one that ended during the binding.
PrepareUnusable(s, atOnce) ==
  /\ setup[s] = "preparing"
  /\ atOnce => s \in {sessionIdentifier} \cup endedBinding
  /\ setup' = [setup EXCEPT ![s] = "answered"]
  /\ plugin' = Knows(s, "prepared")
  /\ IF atOnce THEN EndedByAnswer(s)
     ELSE UNCHANGED <<session, setupEndpointsResponse, videoProxy, sockets, endedBinding, cutShort>>
  /\ UNCHANGED <<open, present, requireProxy, enabled, asked, late>>

-----------------------------------------------------------------------------
(* A session.                                                              *)

\* A write of SelectedRTPStreamConfiguration for the current session reaches the plugin.
Selects(c, s) ==
  /\ Usable(c) /\ enabled
  /\ sessionIdentifier = s
  /\ setup[s] = "answered"

Request(c, s, type) ==
  /\ Selects(c, s)
  /\ type = "reconfigure" => plugin[s] = "started"
  /\ selectedConfiguration' = s
  /\ asked' = asked \cup {[session |-> s, type |-> type]}
  /\ plugin' = [plugin EXCEPT ![s] = IF type = "start" THEN "started" ELSE @]
  /\ UNCHANGED <<open, present, requireProxy, enabled, streamStatus, activeConnection, sessionIdentifier,
                 setupEndpointsResponse, setup, videoProxy, sockets, endedBinding, late, cutShort>>

\* The plugin has done what was asked, or answers with an error, which ends the session there is.
StreamCallback(r, ok) ==
  /\ r \in asked
  /\ asked' = asked \ {r}
  /\ IF ok THEN UNCHANGED <<session, setupEndpointsResponse, videoProxy, sockets, endedBinding, plugin,
                            cutShort>>
     ELSE EndedByAnswer(r.session) /\ plugin' = Knows(r.session, "failed")
  /\ UNCHANGED <<open, present, requireProxy, enabled, setup, late>>

\* The controller ends the session; only here does anybody listen to what the plugin answers to that.
EndSession(c, s) ==
  /\ Selects(c, s)
  /\ StopStream
  /\ asked' = asked \cup {[session |-> s, type |-> "stop"]}
  /\ UNCHANGED <<open, present, requireProxy, enabled, setup, late, cutShort>>

\* The plugin gives the current session up.
ForceStop ==
  /\ sessionIdentifier # NoSession
  /\ SessionClosed(sockets)
  /\ plugin' = [plugin EXCEPT ![sessionIdentifier] = "failed"]
  /\ UNCHANGED <<open, present, requireProxy, enabled, setup, asked, late, cutShort>>

\* The listener on the connection is there as long as the session.
ClosedListened(c) == activeConnection = c

ConnectionClosed(c) ==
  /\ c \in open
  /\ open' = open \ {c}
  /\ IF ClosedListened(c) THEN StopStream
     ELSE UNCHANGED <<session, setupEndpointsResponse, videoProxy, sockets, plugin, endedBinding>>
  /\ UNCHANGED <<present, requireProxy, enabled, setup, asked, late, cutShort>>

\* Active or HomeKitCameraActive changes: a session goes on, but can no longer be ended by a write.
SetEnabled(v) ==
  /\ present
  /\ enabled' = v
  /\ UNCHANGED <<open, present, requireProxy, session, setupEndpointsResponse, setup, videoProxy, sockets,
                 asked, plugin, endedBinding, late, cutShort>>

\* The last pairing is gone; the connections close later.
FactoryReset ==
  /\ present
  /\ enabled' = TRUE
  /\ selectedConfiguration' = NoSession
  /\ ResetSetupEndpointsResponse
  /\ UNCHANGED <<open, present, requireProxy, streamStatus, activeConnection, sessionIdentifier, setup,
                 videoProxy, sockets, asked, plugin, endedBinding, late, cutShort>>

\* The camera controller is removed from the accessory.
ControllerRemoved ==
  /\ present
  /\ present' = FALSE
  /\ enabled' = TRUE
  /\ IF activeConnection # NoConnection THEN StopStream
     ELSE /\ selectedConfiguration' = NoSession
          /\ ResetSetupEndpointsResponse
          /\ UNCHANGED <<streamStatus, activeConnection, sessionIdentifier, videoProxy, sockets, plugin,
                         endedBinding>>
  /\ UNCHANGED <<open, requireProxy, setup, asked, late, cutShort>>

StreamingNext ==
  \/ \E c \in Connections, s \in Sessions :
       \/ SetupBusy(c, s) \/ SetupEndpoints(c, s) \/ EndSession(c, s)
       \/ \E type \in {"start", "reconfigure"} : Request(c, s, type)
  \/ \E s \in Sessions :
       \/ ProxyBound(s) \/ ProxyFails(s)
       \/ \E b \in BOOLEAN : PrepareStream(s, b) \/ PrepareUnusable(s, b)
  \/ \E r \in StreamRequest, ok \in BOOLEAN : StreamCallback(r, ok)
  \/ ForceStop
  \/ \E c \in Connections : ConnectionClosed(c)
  \/ \E v \in BOOLEAN : SetEnabled(v)
  \/ FactoryReset \/ ControllerRemoved

StreamingSpec == StreamingInit /\ [][StreamingNext]_streamingVars

-----------------------------------------------------------------------------
(* Properties.                                                             *)

\* A stream is in use exactly while a session and its connection are there ("Found non-nil
\* activeConnection ... even though streamStatus is reported to be AVAILABLE!"), and the connection is
\* open: no session outlives the connection that set it up, however far its setup was.
HeldByOpenConnection ==
  /\ streamStatus = "in_use" <=> activeConnection # NoConnection
  /\ streamStatus = "in_use" <=> sessionIdentifier # NoSession
  /\ activeConnection # NoConnection => activeConnection \in open
  /\ selectedConfiguration \in {NoSession, sessionIdentifier}

\* A session the plugin was asked to start, and has not given up itself, is the current one: when it
\* ends the plugin is told, unless what ended it is an answer of the plugin for another session.
PluginTold == \A s \in Sessions : plugin[s] = "started" => s \in {sessionIdentifier} \cup cutShort

\* The same without the exception: an error for a session that is over ends the one there is.
PluginStops == \A s \in Sessions : plugin[s] = "started" => s = sessionIdentifier

\* The endpoints a controller reads as set up are those of the current session, or of one the plugin
\* prepared when it was over.
OffersPrepared ==
  setupEndpointsResponse.status = "success"
    => setupEndpointsResponse.session \in {sessionIdentifier} \cup late

\* The same without the exception.
OffersCurrentSession ==
  setupEndpointsResponse.status = "success" => setupEndpointsResponse.session = sessionIdentifier

\* The sockets of a proxy are closed with the session, unless it ended while they were being bound.
SocketsClosed == sockets \subseteq {videoProxy} \cup endedBinding

\* The same without the exception: RTPProxy.destroy() knows nothing of sockets being bound.
NoSocketLeft == sockets \subseteq {videoProxy}

\* A controller whose session is prepared reads its endpoints, whoever else asks.
PreparedIsOffered ==
  sessionIdentifier # NoSession /\ setup[sessionIdentifier] = "answered" /\ selectedConfiguration = NoSession
    => setupEndpointsResponse = Response(sessionIdentifier, "success")

\* A session ends with its connection, and whenever the plugin answers: for the plugin, unless an error
\* for another session ended it; for its sockets, unless they were being bound; and for the answer it
\* is offered by, unless the plugin prepared it too late.
SessionsEnd ==
  StreamingTypeOK /\ HeldByOpenConnection /\ PluginTold /\ SocketsClosed /\ OffersPrepared
=============================================================================
