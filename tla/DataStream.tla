-------------------------------- MODULE DataStream --------------------------------
(***************************************************************************)
(* The HomeKit Data Stream server of an accessory and its connections:     *)
(* DataStreamServer, DataStreamConnection and the handler of the setup     *)
(* write in DataStreamManagement.                                          *)
(*                                                                         *)
(* The TCP server is started for the first session that is prepared and    *)
(* closed when neither sessions nor connections are left; listening and    *)
(* closing take a while.  A connection is matched with its session by the  *)
(* key that decrypts its first frame.  Data comes in chunks of whole       *)
(* frames, which are handled in one turn; fragments are put together as in *)
(* LayerFraming.                                                           *)
(***************************************************************************)
EXTENDS Naturals, Sequences, FiniteSets, SequencesExt

CONSTANTS
  Sessions,        \* the setup writes of the controllers
  HapConnections,
  Connections,     \* TCP connections to the server
  RequestIds,      \* ids of the requests the accessory sends
  MaxFrames,       \* bound: frames in one chunk
  NoSession,       \* of a connection that is not identified; the key of a stranger
  NoOne            \* no connection

ASSUME DataStreamAssumption ==
  /\ MaxFrames \in Nat
  /\ NoSession \notin Sessions
  /\ NoOne \notin Connections \cup HapConnections

VARIABLES
  serverState,   \* ServerState
  tcpServer,     \* the net.Server: "none", "open", "closed" once close() was called
  destroyed,     \* destroy() was called
  crashed,       \* an exception left a timer's callback: the process ends
  setup,         \* progress of the setup write of a session, see SetupStates
  owner,         \* the HAP connection that asked for the session
  prepared,      \* preparedSessions; each has its connectTimeout set
  hapOpen,       \* HAP connections that are open
  linkState,     \* ConnectionState of a connection, "none" before it is accepted
  key,           \* the session the peer of a connection encrypts for
  session,       \* the session it was identified with
  helloTimer,    \* connections whose helloTimer is set
  peerEnded,     \* open connections whose peer has ended its side: nothing more comes in
  requestOn,     \* request -> connection its responseHandlers entry is in
  responseTimer, \* requests whose timer is set
  concluded      \* history: number of calls of the request's response handler

server      == <<serverState, tcpServer, destroyed>>
sessions    == <<setup, owner, prepared>>
connections == <<linkState, key, session, helloTimer, peerEnded>>
requestState == <<requestOn, responseTimer, concluded>>
dataStreamVars == <<server, crashed, sessions, hapOpen, connections, requestState>>

\* Waiting for the listening event, for the close event, for the timer after it; the port was told
\* to the controller; the server was closed before it was bound.
SetupStates == {"new", "listening", "close", "retry", "told", "lost"}
ServerStates == {"UNINITIALIZED", "BINDING", "LISTENING", "CLOSING"}

DataStreamTypeOK ==
  /\ serverState \in ServerStates
  /\ tcpServer \in {"none", "open", "closed"}
  /\ destroyed \in BOOLEAN /\ crashed \in BOOLEAN
  /\ setup \in [Sessions -> SetupStates]
  /\ owner \in [Sessions -> HapConnections \cup {NoOne}]
  /\ prepared \subseteq Sessions
  /\ hapOpen \subseteq HapConnections
  /\ linkState \in [Connections -> {"none", "UNIDENTIFIED", "READY", "CLOSING", "CLOSED"}]
  /\ key \in [Connections -> Sessions \cup {NoSession}]
  /\ session \in [Connections -> Sessions \cup {NoSession}]
  /\ helloTimer \subseteq Connections /\ peerEnded \subseteq Connections
  /\ requestOn \in [RequestIds -> Connections \cup {NoOne}]
  /\ responseTimer \subseteq RequestIds
  /\ concluded \in [RequestIds -> Nat]

DataStreamInit ==
  /\ serverState = "UNINITIALIZED" /\ tcpServer = "none"
  /\ destroyed = FALSE /\ crashed = FALSE
  /\ setup = [s \in Sessions |-> "new"]
  /\ owner = [s \in Sessions |-> NoOne]
  /\ prepared = {}
  /\ hapOpen = HapConnections
  /\ linkState = [c \in Connections |-> "none"]
  /\ key = [c \in Connections |-> NoSession]
  /\ session = [c \in Connections |-> NoSession]
  /\ helloTimer = {}
  /\ peerEnded = {}
  /\ requestOn = [r \in RequestIds |-> NoOne]
  /\ responseTimer = {}
  /\ concluded = [r \in RequestIds |-> 0]

-----------------------------------------------------------------------------
(* The server and its sessions.                                            *)

\* Sockets the server has not seen the end of: the array connections.
Listed(st) == {c \in Connections : st[c] \notin {"none", "CLOSED"}}

\* Mutant of Establish: a server that is closing is taken for one that can be connected to.
EstablishAtOnce(s) ==
  CASE serverState = "UNINITIALIZED" ->
         /\ serverState' = "BINDING" /\ tcpServer' = "open"
         /\ setup' = [setup EXCEPT ![s] = "listening"]
         /\ UNCHANGED crashed
    [] serverState = "BINDING" ->
         /\ setup' = [setup EXCEPT ![s] = "listening"]
         /\ UNCHANGED <<serverState, tcpServer, crashed>>
    [] OTHER ->
         /\ setup' = [setup EXCEPT ![s] = "told"]
         /\ UNCHANGED <<serverState, tcpServer, crashed>>

\* Mutant of Establish: the setup write does not come back after the server closed.
EstablishNoRetry(s) ==
  CASE serverState = "UNINITIALIZED" ->
         /\ serverState' = "BINDING" /\ tcpServer' = "open"
         /\ setup' = [setup EXCEPT ![s] = "listening"]
         /\ UNCHANGED crashed
    [] serverState = "LISTENING" ->
         /\ setup' = [setup EXCEPT ![s] = "told"]
         /\ UNCHANGED <<serverState, tcpServer, crashed>>
    [] OTHER ->
         /\ setup' = [setup EXCEPT ![s] = "listening"]
         /\ UNCHANGED <<serverState, tcpServer, crashed>>

\* The server is started, waited for, or known to listen; one that is closing is waited for and
\* started anew, by way of the variable that may not hold a server any more.
Establish(s) ==
  CASE serverState = "UNINITIALIZED" ->
         /\ serverState' = "BINDING" /\ tcpServer' = "open"
         /\ setup' = [setup EXCEPT ![s] = "listening"]
         /\ UNCHANGED crashed
    [] serverState = "BINDING" ->
         /\ setup' = [setup EXCEPT ![s] = "listening"]
         /\ UNCHANGED <<serverState, tcpServer, crashed>>
    [] serverState = "LISTENING" ->
         /\ setup' = [setup EXCEPT ![s] = "told"]
         /\ UNCHANGED <<serverState, tcpServer, crashed>>
    [] serverState = "CLOSING" ->
         /\ IF tcpServer = "none" THEN crashed' = TRUE /\ UNCHANGED setup
            ELSE setup' = [setup EXCEPT ![s] = "close"] /\ UNCHANGED crashed
         /\ UNCHANGED <<serverState, tcpServer>>

\* prepareSession of the server: the session is kept, with its timer, before the server listens.
PrepareSession(s, h) ==
  /\ owner' = [owner EXCEPT ![s] = h]
  /\ prepared' = prepared \cup {s}
  /\ Establish(s)

\* The handler of the characteristic is gone after destroy().
SetupWrite(s, h) ==
  /\ ~destroyed
  /\ h \in hapOpen
  /\ setup[s] = "new"
  /\ PrepareSession(s, h)
  /\ UNCHANGED <<destroyed, hapOpen, connections, requestState>>

\* The timer after the close event.
RetryEstablish(s) ==
  /\ setup[s] = "retry"
  /\ Establish(s)
  /\ UNCHANGED <<destroyed, owner, prepared, hapOpen, connections, requestState>>

\* The server is bound: every setup write that waits for it is answered.
Listening ==
  /\ serverState = "BINDING" /\ tcpServer = "open"
  /\ serverState' = "LISTENING"
  /\ setup' = [s \in Sessions |-> IF setup[s] = "listening" THEN "told" ELSE setup[s]]
  /\ UNCHANGED <<tcpServer, destroyed, crashed, owner, prepared, hapOpen, connections, requestState>>

\* The net.Server has closed, which it does when its last socket has; retries are set.
ServerClosed ==
  /\ tcpServer = "closed"
  /\ Listed(linkState) = {}
  /\ tcpServer' = "none"
  /\ serverState' = "UNINITIALIZED"
  /\ setup' = [s \in Sessions |-> CASE setup[s] = "close"     -> "retry"
                                    [] setup[s] = "listening" -> "lost"
                                    [] OTHER                  -> setup[s]]
  /\ UNCHANGED <<destroyed, crashed, owner, prepared, hapOpen, connections, requestState>>

\* Nothing needs the server.
Closeable(prep, st) == Listed(st) = {} /\ prep = {} /\ serverState # "CLOSING"

\* checkCloseable(), after the caller's own changes: close() is called on whatever tcpServer is.
CheckCloseable ==
  IF Closeable(prepared', linkState')
  THEN /\ serverState' = "CLOSING"
       /\ IF tcpServer = "none" THEN crashed' = TRUE /\ UNCHANGED tcpServer
          ELSE tcpServer' = "closed" /\ UNCHANGED crashed
  ELSE UNCHANGED <<serverState, tcpServer, crashed>>

\* The connectTimeout of a session: ten seconds, by which its setup write was answered or never will.
TimeoutPrepared(s) ==
  /\ s \in prepared
  /\ setup[s] \in {"told", "lost"}
  /\ prepared' = prepared \ {s}
  /\ UNCHANGED linkState
  /\ CheckCloseable
  /\ UNCHANGED <<destroyed, setup, owner, hapOpen, key, session, helloTimer, peerEnded, requestState>>

-----------------------------------------------------------------------------
(* Connections.                                                            *)

\* Data stream connections after close() was called on those in C.
ClosedIn(st, C) ==
  [c \in Connections |-> IF c \in C /\ st[c] \in {"UNIDENTIFIED", "READY"} THEN "CLOSING" ELSE st[c]]

\* A controller that was told the port connects, or a stranger.
OnConnection(c, k) ==
  /\ linkState[c] = "none"
  /\ serverState = "LISTENING"
  /\ k \in {s \in Sessions : setup[s] = "told"} \cup {NoSession}
  /\ linkState' = [linkState EXCEPT ![c] = "UNIDENTIFIED"]
  /\ key' = [key EXCEPT ![c] = k]
  /\ helloTimer' = helloTimer \cup {c}
  /\ UNCHANGED <<server, crashed, sessions, hapOpen, session, peerEnded, requestState>>

\* What a frame can be: a hello request, another message, the response to a request, or one that
\* does not decrypt.
Frames == {"hello", "message", "corrupt"} \cup RequestIds

\* Mutant of Identified: the session stays prepared.
IdentifiedKept(c, frame) == key[c] \in prepared /\ frame # "corrupt" /\ UNCHANGED prepared

\* The first frame tells the session; nobody else can take it up after that.
Identified(c, frame) ==
  key[c] \in prepared /\ frame # "corrupt" /\ prepared' = prepared \ {key[c]}

\* The first chunk does not fit any prepared session.
NotIdentified(c, frames) ==
  /\ linkState[c] = "UNIDENTIFIED" /\ c \notin peerEnded
  /\ key[c] \notin prepared \/ frames[1] = "corrupt"
  /\ linkState' = ClosedIn(linkState, {c})
  /\ UNCHANGED <<server, crashed, sessions, hapOpen, key, session, helloTimer, peerEnded, requestState>>

\* The responses among the messages call the handlers of their requests; others are ignored.
Answered(c, frames) ==
  LET done == {r \in RequestIds \cap ToSet(frames) : requestOn[r] = c}
  IN /\ requestOn' = [r \in RequestIds |-> IF r \in done THEN NoOne ELSE requestOn[r]]
     /\ responseTimer' = responseTimer \ done
     /\ concluded' = [r \in RequestIds |-> IF r \in done THEN concluded[r] + 1 ELSE concluded[r]]

\* All messages of a chunk are dispatched, once every frame of it was decrypted.
Dispatch(c, frames) ==
  IF "corrupt" \in ToSet(frames)
  THEN linkState' = ClosedIn(linkState, {c}) /\ UNCHANGED <<helloTimer, requestState>>
  ELSE /\ linkState' = [linkState EXCEPT ![c] = "READY"]
       /\ helloTimer' = IF "hello" \in ToSet(frames) THEN helloTimer \ {c} ELSE helloTimer
       /\ Answered(c, frames)

\* The first chunk of a connection with a session that is prepared: it must begin with a hello.
Identification(c, frames) ==
  /\ linkState[c] = "UNIDENTIFIED" /\ c \notin peerEnded
  /\ Identified(c, frames[1])
  /\ session' = [session EXCEPT ![c] = key[c]]
  /\ IF frames[1] = "hello" THEN Dispatch(c, frames)
     ELSE linkState' = ClosedIn(linkState, {c}) /\ UNCHANGED <<helloTimer, requestState>>
  /\ UNCHANGED <<server, crashed, setup, owner, hapOpen, key, peerEnded>>

OnSocketData(c, frames) ==
  /\ linkState[c] = "READY" /\ c \notin peerEnded
  /\ Dispatch(c, frames)
  /\ UNCHANGED <<server, crashed, sessions, hapOpen, key, session, peerEnded>>

\* No hello in ten seconds; the timer is not cleared when the connection closes.
HelloTimeout(c) ==
  /\ c \in helloTimer
  /\ helloTimer' = helloTimer \ {c}
  /\ linkState' = ClosedIn(linkState, {c})
  /\ UNCHANGED <<server, crashed, sessions, hapOpen, key, session, peerEnded, requestState>>

\* A request is sent on a connection that was ready once.  On one that is closing sendHDSFrame
\* throws, after the handler was stored and the timer set.
SendRequest(c, r) ==
  /\ linkState[c] \in {"READY", "CLOSING", "CLOSED"} /\ session[c] # NoSession
  /\ requestOn[r] = NoOne /\ concluded[r] = 0
  /\ requestOn' = [requestOn EXCEPT ![r] = c]
  /\ responseTimer' = responseTimer \cup {r}
  /\ UNCHANGED <<server, crashed, sessions, hapOpen, connections, concluded>>

\* No response in ten seconds: the connection is closed and the handler called with an error.
RequestTimeout(r) ==
  /\ r \in responseTimer
  /\ linkState' = ClosedIn(linkState, {requestOn[r]})
  /\ requestOn' = [requestOn EXCEPT ![r] = NoOne]
  /\ responseTimer' = responseTimer \ {r}
  /\ concluded' = [concluded EXCEPT ![r] = @ + 1]
  /\ UNCHANGED <<server, crashed, sessions, hapOpen, key, session, helloTimer, peerEnded>>

\* The data stream connections that listen for the end of a HAP connection: those it was identified
\* for, until their sockets have closed.
StreamsOf(h) == {c \in Connections : session[c] # NoSession /\ owner[session[c]] = h}

HapClose(h) ==
  /\ h \in hapOpen
  /\ hapOpen' = hapOpen \ {h}
  /\ linkState' = ClosedIn(linkState, StreamsOf(h))
  /\ UNCHANGED <<server, crashed, sessions, key, session, helloTimer, peerEnded, requestState>>

\* The peer ends its side, of its own accord or since we have ended ours: close() only calls
\* socket.end(), and the socket is there until the peer does.
PeerEnds(c) ==
  /\ c \in Listed(linkState) \ peerEnded
  /\ peerEnded' = peerEnded \cup {c}
  /\ UNCHANGED <<server, crashed, sessions, hapOpen, linkState, key, session, helloTimer, requestState>>

\* A socket has closed: both sides were ended, ours at the latest when the peer's was, or the
\* network failed.
OnSocketClose(c) ==
  /\ c \in Listed(linkState)
  /\ linkState' = [linkState EXCEPT ![c] = "CLOSED"]
  /\ peerEnded' = peerEnded \ {c}
  /\ UNCHANGED prepared
  /\ CheckCloseable
  /\ UNCHANGED <<destroyed, setup, owner, hapOpen, key, session, helloTimer, requestState>>

\* The accessory does not offer data streams any more.
Destroy ==
  /\ ~destroyed
  /\ destroyed' = TRUE
  /\ serverState' = "CLOSING"
  /\ IF serverState \in {"BINDING", "LISTENING"}
     THEN tcpServer' = "closed" /\ linkState' = ClosedIn(linkState, Connections)
     ELSE UNCHANGED <<tcpServer, linkState>>
  /\ UNCHANGED <<crashed, sessions, hapOpen, key, session, helloTimer, peerEnded, requestState>>

Chunks == UNION {[1..n -> Frames] : n \in 1..MaxFrames}

DataStreamNext ==
  /\ ~crashed
  /\ \/ Listening \/ ServerClosed \/ Destroy
     \/ \E s \in Sessions : \/ TimeoutPrepared(s) \/ RetryEstablish(s)
                            \/ \E h \in HapConnections : SetupWrite(s, h)
     \/ \E h \in HapConnections : HapClose(h)
     \/ \E c \in Connections :
          \/ HelloTimeout(c) \/ PeerEnds(c) \/ OnSocketClose(c)
          \/ \E k \in Sessions \cup {NoSession} : OnConnection(c, k)
          \/ \E frames \in Chunks :
               NotIdentified(c, frames) \/ Identification(c, frames) \/ OnSocketData(c, frames)
          \/ \E r \in RequestIds : SendRequest(c, r)
     \/ \E r \in RequestIds : RequestTimeout(r)

\* Timers fire, a server that was told to listen or to close does, and a socket closes whose peer
\* has ended its side.  No peer need ever do that, and no network need fail.
DataStreamFairness ==
  /\ WF_dataStreamVars(~crashed /\ Listening) /\ WF_dataStreamVars(~crashed /\ ServerClosed)
  /\ \A s \in Sessions : /\ WF_dataStreamVars(~crashed /\ RetryEstablish(s))
                         /\ WF_dataStreamVars(~crashed /\ TimeoutPrepared(s))
  /\ \A c \in Connections :
       /\ WF_dataStreamVars(~crashed /\ HelloTimeout(c))
       /\ WF_dataStreamVars(~crashed /\ c \in peerEnded /\ OnSocketClose(c))
  /\ \A r \in RequestIds : WF_dataStreamVars(~crashed /\ RequestTimeout(r))

DataStreamSpec == DataStreamInit /\ [][DataStreamNext]_dataStreamVars /\ DataStreamFairness

-----------------------------------------------------------------------------
(* Properties.                                                             *)

\* While the accessory offers data streams, a session whose port the controller was told can be
\* taken up until it times out: the server listens, however sessions, connections and the closing
\* of the server overlap.  A server that listens is there for somebody, and one that is closed exists.
ServerUpWhileNeeded ==
  ~destroyed =>
    /\ ~crashed
    /\ \A s \in prepared : setup[s] = "told" => serverState = "LISTENING" /\ tcpServer = "open"
    /\ serverState \in {"BINDING", "LISTENING"} => prepared # {} \/ Listed(linkState) # {}

\* Each session is offered once and taken up by one connection at most, while it is prepared.
Promise == INSTANCE StreamSessions WITH
  fresh <- {s \in Sessions : owner[s] = NoOne},
  offered <- prepared,
  users <- [s \in Sessions |-> {c \in Connections : session[c] = s}]
ImplementsStreamSessions == Promise!StreamSpec

\* The handler of a request is called once, with the response or with the error of its timer: the
\* two race for it, with the connection closing on either side.
ConcludedOnce == \A r \in RequestIds : concluded[r] <= 1

\* A setup write is answered, also one that comes while the server of earlier sessions closes.
SetupAnswered ==
  \A s \in Sessions : setup[s] # "new" ~> setup[s] = "told" \/ destroyed

\* A connection that does not identify itself is ended by the accessory, and is gone once its peer
\* has ended its side as well.
StrangersLeave ==
  \A c \in Connections :
    linkState[c] = "UNIDENTIFIED" ~>
      \/ linkState[c] \in {"READY", "CLOSED"}
      \/ linkState[c] = "CLOSING" /\ c \notin peerEnded

\* A server that listens closes in the end, unless a peer never ends its side of a connection:
\* whatever has timed out, was taken up or has closed by then, the last of it closes the server.
ServerLeaves ==
  serverState = "LISTENING" ~>
    serverState = "UNINITIALIZED" \/ Listed(linkState) \ peerEnded # {}

\* A stranger's connection, which its helloTimer has ended, does not keep the server up.
StrangersGone ==
  \A c \in Connections : linkState[c] = "UNIDENTIFIED" ~> linkState[c] \in {"READY", "CLOSED"}

\* "this.tcpServer!.close()": whenever a timer calls it there is a server.
NeverCrashes == ~crashed

\* "If the hap connection is closed it is probably also a good idea to close the data stream
\* connection".
StreamEndsWithHap ==
  \A c \in Connections : linkState[c] = "READY" => owner[session[c]] \in hapOpen

\* The server is there for every session that was offered, and a request is concluded once.
StreamsServed == DataStreamTypeOK /\ ServerUpWhileNeeded /\ ConcludedOnce

\* A setup is answered, a connection that never identifies itself is ended, and the server closes
\* when nobody holds it.
NobodyWaits == SetupAnswered /\ StrangersLeave /\ ServerLeaves
=============================================================================
