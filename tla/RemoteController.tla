---------------------------- MODULE RemoteController ----------------------------
(***************************************************************************)
(* The remote of a TV: RemoteController and its SiriAudioSessions.         *)
(*                                                                         *)
(* Controllers configure targets and mark the remote active over HAP; the  *)
(* button Siri opens an audio session on the data stream (HDS) over which  *)
(* the active target has identified itself (WHOAMI).  At most two sessions *)
(* are referenced: the active one and, while that one waits for its last   *)
(* acknowledgment, the next one.  What a session sends goes through        *)
(* DataStreamConnection.sendRequest (throws on a closing connection) and   *)
(* sendEvent (drops there).                                                *)
(*                                                                         *)
(* Two facts of the code show in the model.  targetConfigurations is a     *)
(* Map, and Object.keys of a Map is always empty: serialize() gives        *)
(* nothing whenever no target is active.  parseTargetConfigurationTLV      *)
(* always gives a buttonConfiguration: REMOVE never removes a target.      *)
(***************************************************************************)
EXTENDS Naturals, FiniteSets

CONSTANTS
  Targets, Connections, Streams,
  HapOf,        \* the HAP connection each stream was set up over
  PacketSize,   \* audio frames of a packet (5 in the code)
  MaxQueue,     \* frames a session queues (1024 in the code)
  MaxSessions,  \* bound on the audio sessions alive at once
  NoTarget, NoConnection, NoStream

ASSUME RemoteAssumption ==
  /\ HapOf \in [Streams -> Connections]
  /\ PacketSize \in Nat \ {0} /\ MaxQueue \in Nat \ {0} /\ MaxSessions \in Nat
  /\ NoTarget \notin Targets /\ NoConnection \notin Connections /\ NoStream \notin Streams

VARIABLES
  targetConfigurations, activeIdentifier, activeConnection,
  savedState,              \* what the controller storage has of this controller
  restoredIdentifier,      \* history: the active target the last restart brought back
  releaseTimers,           \* pushAndReleaseButton: the buttons still to be released
  removedRemote,           \* handleControllerRemoved was called
  remoteCrashed,           \* an exception nobody catches
  openConnections,         \* HAP connections
  streamStates,            \* of the HDS connections
  dataStreamConnections,   \* target -> the stream that identified itself
  sessions,                \* the audio sessions alive
  activeAudioSession, nextAudioSession   \* indices of sessions, 0 for none

targetVars  == <<targetConfigurations, activeIdentifier, activeConnection, savedState,
                 restoredIdentifier>>
processVars == <<releaseTimers, removedRemote, remoteCrashed>>
linkVars    == <<openConnections, streamStates, dataStreamConnections>>
audioVars   == <<sessions, activeAudioSession, nextAudioSession>>
remoteVars  == <<targetVars, processVars, linkVars, audioVars>>

Buttons == {"siri", "select"}
NothingSaved == [activeIdentifier |-> NoTarget, targetConfigurations |-> {}]
AudioSession ==
  [state : {"STARTING", "SENDING", "CLOSING", "CLOSED"}, target : Targets \cup {NoTarget},
   connection : Streams \cup {NoStream}, producerRunning : BOOLEAN, opening : BOOLEAN,
   unstopped : BOOLEAN, audioFrameQueue : 0..MaxQueue]
NoSession == [state |-> "CLOSED", target |-> NoTarget, connection |-> NoStream,
              producerRunning |-> FALSE, opening |-> FALSE, unstopped |-> FALSE, audioFrameQueue |-> 0]

RemoteTypeOK ==
  /\ targetConfigurations \subseteq Targets
  /\ {activeIdentifier, restoredIdentifier} \subseteq Targets \cup {NoTarget}
  /\ activeConnection \in Connections \cup {NoConnection}
  /\ savedState.activeIdentifier \in Targets \cup {NoTarget}
  /\ savedState.targetConfigurations \subseteq Targets
  /\ releaseTimers \subseteq Buttons /\ removedRemote \in BOOLEAN /\ remoteCrashed \in BOOLEAN
  /\ openConnections \subseteq Connections
  /\ streamStates \in [Streams -> {"NEW", "READY", "CLOSING", "CLOSED"}]
  /\ dataStreamConnections \in [Targets -> Streams \cup {NoStream}]
  /\ sessions \in [1..MaxSessions -> AudioSession]
  /\ {activeAudioSession, nextAudioSession} \subseteq 0..MaxSessions

RemoteInit ==
  /\ savedState = NothingSaved
  /\ targetConfigurations = {} /\ activeIdentifier = NoTarget /\ restoredIdentifier = NoTarget
  /\ activeConnection = NoConnection
  /\ releaseTimers = {} /\ removedRemote = FALSE /\ remoteCrashed = FALSE
  /\ openConnections = {}
  /\ streamStates = [s \in Streams |-> "NEW"]
  /\ dataStreamConnections = [t \in Targets |-> NoStream]
  /\ sessions = [i \in 1..MaxSessions |-> NoSession]
  /\ activeAudioSession = 0 /\ nextAudioSession = 0

-----------------------------------------------------------------------------
(* Audio sessions.                                                         *)

IsClosing(s) == s.state \in {"CLOSING", "CLOSED"}
Rest(count) == IF count > PacketSize THEN count - PacketSize ELSE 0

(* stop: one packet with the end-of-stream mark, however long the queue is *)
Stopped(s) ==
  IF s.state = "SENDING"
    THEN [s EXCEPT !.producerRunning = FALSE, !.state = "CLOSING",
                   !.audioFrameQueue = Rest(s.audioFrameQueue)]
    ELSE [s EXCEPT !.producerRunning = FALSE, !.state = "CLOSED"]

Cancelled(s) == [s EXCEPT !.state = "CLOSED",
                          !.producerRunning = IF IsClosing(s) THEN @ ELSE FALSE]

\* Mutant of Opened: the producer that failed meanwhile is not looked at.
OpenedUnchecked(s) ==
  [s EXCEPT !.opening = FALSE, !.state = IF s.state = "CLOSED" THEN "CLOSED" ELSE "SENDING"]

(* the answer to dataSend.open, and its error (refused or timed out)       *)
Opened(s) ==
  [s EXCEPT !.opening = FALSE,
            !.state = IF s.state = "CLOSED" THEN "CLOSED"
                      ELSE IF s.producerRunning THEN "SENDING" ELSE "CLOSED"]
Refused(s) == [s EXCEPT !.opening = FALSE, !.state = "CLOSED", !.unstopped = ~IsClosing(s)]

(* the acknowledgment of the end of the stream, whether or not it was sent *)
Acknowledged(s) ==
  IF s.state = "SENDING" THEN [s EXCEPT !.state = "CLOSED", !.unstopped = TRUE] ELSE Cancelled(s)

WithFrame(s) ==
  LET queued == IF s.audioFrameQueue < MaxQueue THEN s.audioFrameQueue + 1 ELSE s.audioFrameQueue
  IN  [s EXCEPT !.audioFrameQueue = IF s.state = "SENDING" THEN queued % PacketSize ELSE queued]

ProducerFailed(s) ==
  [s EXCEPT !.producerRunning = FALSE,
            !.state = IF s.state = "SENDING" THEN "CLOSED" ELSE @]

(* handleSiriAudioSessionClosed, for the sessions closed in this step      *)
Promote(closed) ==
  /\ activeAudioSession' = IF activeAudioSession \notin closed THEN activeAudioSession
                           ELSE IF nextAudioSession \in closed THEN 0 ELSE nextAudioSession
  /\ nextAudioSession' = IF {activeAudioSession, nextAudioSession} \cap closed # {} THEN 0
                         ELSE nextAudioSession

(* a closed session nobody will call any more is forgotten *)
Settled(s) ==
  IF s.state # "CLOSED" THEN s
  ELSE IF s.opening \/ s.producerRunning THEN [s EXCEPT !.audioFrameQueue = 0]
  ELSE NoSession

SessionBecomes(i, s) ==
  /\ sessions' = [sessions EXCEPT ![i] = Settled(s)]
  /\ Promote(IF s.state = "CLOSED" THEN {i} ELSE {})

Stoppable ==
  LET open == {i \in {activeAudioSession, nextAudioSession} \ {0} : ~IsClosing(sessions[i])}
  IN  IF activeAudioSession \in open THEN {activeAudioSession} ELSE open

HandleSiriAudioStop ==
  IF Stoppable = {} THEN UNCHANGED audioVars
  ELSE \E i \in Stoppable : SessionBecomes(i, Stopped(sessions[i]))

IgnoresSiriStart ==
  \/ activeAudioSession # 0
     /\ (~IsClosing(sessions[activeAudioSession]) \/ nextAudioSession # 0)
  \/ dataStreamConnections[activeIdentifier] = NoStream

(* on a closing stream sendRequest throws before the producer is started   *)
HandleSiriAudioStart ==
  IF IgnoresSiriStart THEN UNCHANGED audioVars
  ELSE LET stream == dataStreamConnections[activeIdentifier]
           free == {i \in 1..MaxSessions : sessions[i] = NoSession}
       IN  \E i \in free :
             /\ \A j \in free : i <= j
             /\ sessions' = [sessions EXCEPT ![i] =
                  [state |-> "STARTING", target |-> activeIdentifier, connection |-> stream,
                   producerRunning |-> streamStates[stream] = "READY", opening |-> TRUE,
                   unstopped |-> FALSE, audioFrameQueue |-> 0]]
             /\ IF activeAudioSession = 0
                  THEN activeAudioSession' = i /\ UNCHANGED nextAudioSession
                  ELSE nextAudioSession' = i /\ UNCHANGED activeAudioSession

-----------------------------------------------------------------------------
(* Targets: the writes of controllers and the calls of the plugin.         *)

Running == ~remoteCrashed /\ ~removedRemote

Serialized(active, configured) ==
  IF active = NoTarget THEN NothingSaved
  ELSE [activeIdentifier |-> active, targetConfigurations |-> configured]

(* setActiveIdentifier: stops the audio session and sets the remote inactive *)
ActiveIdentifierBecomes(target) ==
  /\ activeIdentifier' = target
  /\ IF target = activeIdentifier THEN UNCHANGED <<activeConnection, audioVars>>
     ELSE activeConnection' = NoConnection /\ HandleSiriAudioStop

SetActiveIdentifier(target) ==
  /\ Running /\ target \in targetConfigurations \cup {NoTarget} /\ target # activeIdentifier
  /\ ActiveIdentifierBecomes(target)
  /\ UNCHANGED <<targetConfigurations, savedState, restoredIdentifier, processVars, linkVars>>

(* saved before the first target becomes the active one *)
AddTarget(target) ==
  /\ Running
  /\ targetConfigurations' = targetConfigurations \cup {target}
  /\ savedState' = Serialized(activeIdentifier, targetConfigurations')
  /\ ActiveIdentifierBecomes(IF activeIdentifier = NoTarget THEN target ELSE activeIdentifier)
  /\ UNCHANGED <<restoredIdentifier, processVars, linkVars>>

(* UPDATE and REMOVE.  Names, categories and buttons are left out; a REMOVE *)
(* never removes a target, whose empty buttonConfiguration counts as given. *)
UpdateTarget(target) ==
  /\ Running /\ target \in targetConfigurations
  /\ savedState' = Serialized(activeIdentifier, targetConfigurations)
  /\ UNCHANGED <<targetConfigurations, activeIdentifier, activeConnection, restoredIdentifier,
                 processVars, linkVars, audioVars>>

ResetTargets(saved) ==
  /\ Running
  /\ targetConfigurations' = {}
  /\ savedState' = saved
  /\ ActiveIdentifierBecomes(NoTarget)
  /\ UNCHANGED <<restoredIdentifier, processVars, linkVars>>

HandleResetTargets == ResetTargets(Serialized(activeIdentifier, {}))

(* the accessory purges what is stored once the controller has reset *)
RemoteFactoryReset == ResetTargets(NothingSaved)

HandleActiveWrite(connection, active) ==
  /\ Running /\ connection \in openConnections
  /\ activeIdentifier # NoTarget
  /\ activeConnection' = IF active THEN connection ELSE NoConnection
  /\ UNCHANGED <<targetConfigurations, activeIdentifier, savedState, restoredIdentifier,
                 processVars, linkVars, audioVars>>

-----------------------------------------------------------------------------
(* Buttons.                                                                *)

CanSendButton == activeIdentifier # NoTarget /\ activeConnection # NoConnection

SendButton(button, down) ==
  CASE button = "siri" /\ down  -> HandleSiriAudioStart
    [] button = "siri" /\ ~down -> HandleSiriAudioStop
    [] OTHER                    -> UNCHANGED audioVars

PushButton(button) ==
  /\ Running /\ CanSendButton
  /\ SendButton(button, TRUE)
  /\ UNCHANGED <<targetVars, processVars, linkVars>>

ReleaseButton(button) ==
  /\ Running /\ CanSendButton
  /\ SendButton(button, FALSE)
  /\ UNCHANGED <<targetVars, processVars, linkVars>>

(* no release is scheduled where the push throws *)
StartThrows(button) ==
  button = "siri" /\ ~IgnoresSiriStart
  /\ streamStates[dataStreamConnections[activeIdentifier]] # "READY"

PushAndReleaseButton(button) ==
  /\ Running /\ CanSendButton /\ releaseTimers = {}   \* bound: one at a time
  /\ ~StartThrows(button)
  /\ SendButton(button, TRUE)
  /\ releaseTimers' = releaseTimers \cup {button}
  /\ UNCHANGED <<removedRemote, remoteCrashed, targetVars, linkVars>>

(* what sendButtonEvent throws in the timer nobody catches *)
ReleaseTimeout(button) ==
  /\ ~remoteCrashed /\ button \in releaseTimers
  /\ releaseTimers' = releaseTimers \ {button}
  /\ IF CanSendButton /\ ~removedRemote
       THEN SendButton(button, FALSE) /\ UNCHANGED remoteCrashed
       ELSE remoteCrashed' = TRUE /\ UNCHANGED audioVars
  /\ UNCHANGED <<removedRemote, targetVars, linkVars>>

-----------------------------------------------------------------------------
(* The audio producer, and the answers and events of the controller.       *)

AudioStep(i, s) ==
  /\ ~remoteCrashed
  /\ SessionBecomes(i, s)
  /\ UNCHANGED <<targetVars, processVars, linkVars>>

HandleSiriAudioFrame(i) ==
  /\ sessions[i].producerRunning /\ ~IsClosing(sessions[i])
  /\ AudioStep(i, WithFrame(sessions[i]))

(* reported by the producer, or three seconds without a frame *)
HandleProducerError(i) ==
  /\ sessions[i].producerRunning /\ ~IsClosing(sessions[i])
  /\ AudioStep(i, ProducerFailed(sessions[i]))

Hears(i) == streamStates[sessions[i].connection] = "READY"

OpenResponse(i) ==
  /\ sessions[i].opening /\ Hears(i)
  /\ \/ AudioStep(i, Opened(sessions[i]))
     \/ AudioStep(i, Refused(sessions[i]))

(* ten seconds without an answer: the stream is closed as well *)
OpenTimeout(i) ==
  /\ ~remoteCrashed /\ sessions[i].opening
  /\ SessionBecomes(i, Refused(sessions[i]))
  /\ streamStates' = [streamStates EXCEPT ![sessions[i].connection] =
                        IF @ = "READY" THEN "CLOSING" ELSE @]
  /\ UNCHANGED <<openConnections, dataStreamConnections, targetVars, processVars>>

HandleDataSendAckEvent(i) ==
  /\ i \in {activeAudioSession, nextAudioSession} /\ Hears(i)
  /\ sessions[i].state \in {"SENDING", "CLOSING"}
  /\ AudioStep(i, Acknowledged(sessions[i]))

HandleDataSendCloseEvent(i) ==
  /\ i \in {activeAudioSession, nextAudioSession} /\ Hears(i)
  /\ sessions[i].state \in {"SENDING", "CLOSING"}
  /\ AudioStep(i, Cancelled(sessions[i]))

-----------------------------------------------------------------------------
(* HAP connections and data streams.                                       *)

HapConnects(connection) ==
  /\ ~remoteCrashed
  /\ connection \notin openConnections
  /\ openConnections' = openConnections \cup {connection}
  /\ UNCHANGED <<streamStates, dataStreamConnections, targetVars, processVars, audioVars>>

EndStreams(ended) ==
  streamStates' = [s \in Streams |-> IF s \in ended /\ streamStates[s] = "READY" THEN "CLOSING"
                                     ELSE streamStates[s]]

(* handleActiveSessionDisconnected; a removed controller has no service to set *)
HapCloses(connection) ==
  /\ ~remoteCrashed /\ connection \in openConnections
  /\ openConnections' = openConnections \ {connection}
  /\ EndStreams({s \in Streams : HapOf[s] = connection})
  /\ activeConnection' = IF activeConnection = connection THEN NoConnection ELSE activeConnection
  /\ remoteCrashed' = (activeConnection = connection /\ removedRemote)
  /\ UNCHANGED <<dataStreamConnections, targetConfigurations, activeIdentifier, savedState,
                 restoredIdentifier, releaseTimers, removedRemote, audioVars>>

HandleTargetControlWhoAmI(stream, target) ==
  /\ Running /\ streamStates[stream] = "NEW" /\ HapOf[stream] \in openConnections
  /\ streamStates' = [streamStates EXCEPT ![stream] = "READY"]
  /\ dataStreamConnections' = [dataStreamConnections EXCEPT ![target] = stream]
  /\ UNCHANGED <<openConnections, targetVars, processVars, audioVars>>

StreamCloses(stream) ==
  /\ ~remoteCrashed /\ streamStates[stream] = "READY"
  /\ EndStreams({stream})
  /\ UNCHANGED <<openConnections, dataStreamConnections, targetVars, processVars, audioVars>>

(* the listeners of the server and of each session on the stream, in one event *)
HandleDataStreamConnectionClosed(stream) ==
  LET closed == {i \in DOMAIN sessions : sessions[i].connection = stream /\ sessions[i].state # "CLOSED"}
  IN  /\ ~remoteCrashed /\ streamStates[stream] \in {"READY", "CLOSING"}
      /\ streamStates' = [streamStates EXCEPT ![stream] = "CLOSED"]
      /\ dataStreamConnections' = [t \in Targets |-> IF dataStreamConnections[t] = stream THEN NoStream
                                                     ELSE dataStreamConnections[t]]
      /\ sessions' = [i \in DOMAIN sessions |-> IF i \in closed THEN Settled(Cancelled(sessions[i]))
                                                ELSE sessions[i]]
      /\ Promote(closed)
      /\ UNCHANGED <<openConnections, targetVars, processVars>>

HandleControllerRemoved ==
  /\ Running
  /\ removedRemote' = TRUE
  /\ EndStreams(Streams)
  /\ UNCHANGED <<openConnections, dataStreamConnections, releaseTimers, remoteCrashed, targetVars,
                 audioVars>>

RemoteRestart ==
  /\ UNCHANGED savedState
  /\ targetConfigurations' = savedState.targetConfigurations
  /\ activeIdentifier' = savedState.activeIdentifier
  /\ restoredIdentifier' = savedState.activeIdentifier
  /\ activeConnection' = NoConnection
  /\ releaseTimers' = {} /\ removedRemote' = FALSE /\ remoteCrashed' = FALSE
  /\ openConnections' = {}
  /\ streamStates' = [s \in Streams |-> "NEW"]
  /\ dataStreamConnections' = [t \in Targets |-> NoStream]
  /\ sessions' = [i \in 1..MaxSessions |-> NoSession]
  /\ activeAudioSession' = 0 /\ nextAudioSession' = 0

-----------------------------------------------------------------------------
RemoteNext ==
  \/ \E t \in Targets \cup {NoTarget} : SetActiveIdentifier(t)
  \/ \E t \in Targets : AddTarget(t) \/ UpdateTarget(t)
  \/ HandleResetTargets \/ RemoteFactoryReset
  \/ \E c \in Connections, a \in BOOLEAN : HandleActiveWrite(c, a)
  \/ \E b \in Buttons : PushButton(b) \/ ReleaseButton(b) \/ PushAndReleaseButton(b) \/ ReleaseTimeout(b)
  \/ \E i \in DOMAIN sessions :
       \/ HandleSiriAudioFrame(i) \/ HandleProducerError(i) \/ OpenResponse(i) \/ OpenTimeout(i)
       \/ HandleDataSendAckEvent(i) \/ HandleDataSendCloseEvent(i)
  \/ \E c \in Connections : HapConnects(c) \/ HapCloses(c)
  \/ \E s \in Streams, t \in Targets : HandleTargetControlWhoAmI(s, t)
  \/ \E s \in Streams : StreamCloses(s) \/ HandleDataStreamConnectionClosed(s)
  \/ HandleControllerRemoved \/ RemoteRestart

RemoteSpec == RemoteInit /\ [][RemoteNext]_remoteVars

-----------------------------------------------------------------------------
(* One microphone: no two audio producers run at once, and one runs        *)
(* exactly as long as its session may still send (start, stop, closed;     *)
(* comment RemoteController.ts:1066) -- but for the sessions closed        *)
(* because dataSend.open failed or the end was acknowledged before it was  *)
(* sent, which leave it running, see ProducerStopped.                      *)
OneProducer ==
  /\ \A i, j \in DOMAIN sessions :
       sessions[i].producerRunning /\ sessions[j].producerRunning =>
         i = j \/ sessions[i].unstopped \/ sessions[j].unstopped
  /\ \A i \in DOMAIN sessions :
       /\ sessions[i].state = "SENDING" => sessions[i].producerRunning
       /\ sessions[i].producerRunning => sessions[i].unstopped \/ ~IsClosing(sessions[i])

(* The voice goes to the selected target only: a session that still sends  *)
(* is one of the active target, and every session that is not closed is    *)
(* referenced, so that it can be stopped (setActiveIdentifier,             *)
(* handleSiriAudioSessionClosed).                                          *)
VoiceOfActiveTarget ==
  \A i \in DOMAIN sessions :
    sessions[i].state # "CLOSED" =>
      /\ i \in {activeAudioSession, nextAudioSession}
      /\ ~IsClosing(sessions[i]) => sessions[i].target = activeIdentifier

(* Buttons reach a configured target over an open connection, but for a    *)
(* target that was reset before the restart that brought it back           *)
(* (setInactive, handleResetTargets, handleActiveSessionDisconnected).     *)
ActiveIsConfigured ==
  activeConnection # NoConnection =>
    /\ activeConnection \in openConnections
    /\ activeIdentifier \in targetConfigurations \cup {restoredIdentifier}

(* The same without the exception.                                         *)
TargetIsConfigured == activeConnection # NoConnection => activeIdentifier \in targetConfigurations

(* A producer stops with its session, also where dataSend.open fails.      *)
ProducerStopped == \A i \in DOMAIN sessions : sessions[i].producerRunning => ~IsClosing(sessions[i])

(* What is stored is what a restart should bring back.                     *)
SavedIsCurrent ==
  savedState = [activeIdentifier |-> activeIdentifier, targetConfigurations |-> targetConfigurations]

(* A session that was stopped has sent all its frames before the mark.     *)
LastFramesSent ==
  \A i \in DOMAIN sessions : sessions[i].state = "CLOSING" => sessions[i].audioFrameQueue = 0

(* No exception in a timer or an event listener ends the process.          *)
RemoteNeverCrashes == ~remoteCrashed

\* One producer records for the target that is active, which is one that is configured.
VoiceInOrder == RemoteTypeOK /\ OneProducer /\ VoiceOfActiveTarget /\ ActiveIsConfigured
=============================================================================
