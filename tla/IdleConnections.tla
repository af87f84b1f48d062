---------------------------- MODULE IdleConnections ----------------------------
(***************************************************************************)
(* The registry of connections of EventedHTTPServer and its idle timer: with *)
(* many connections those that were idle for an hour are closed.  What     *)
(* else closes a connection, and who it belongs to, is the subject of      *)
(* PairingSessions.                                                        *)
(***************************************************************************)
EXTENDS Naturals, FiniteSets, FiniteSetsExt

CONSTANTS
  Clients,         \* the connections
  TimeoutLimit,    \* CONNECTION_TIMEOUT_LIMIT (16)
  MaxIdleTime,     \* MAX_CONNECTION_IDLE_TIME (an hour), in ticks
  Forever          \* bound: idle times are counted up to here

ASSUME IdleAssumption ==
  /\ TimeoutLimit \in Nat \ {0}
  /\ MaxIdleTime \in Nat \ {0}
  /\ Forever \in Nat /\ Forever >= 2 * MaxIdleTime

VARIABLES
  listening,       \* tcpServer.listening
  registry,        \* connections
  ending,          \* those that were closed and whose CLOSED event is due
  idleFor,         \* ticks since lastSocketOperation
  idleTimeout      \* connectionIdleTimeout: the ticks it has left, {} for undefined

idleVars == <<listening, registry, ending, idleFor, idleTimeout>>

IdleInit ==
  /\ listening = TRUE
  /\ registry = {} /\ ending = {}
  /\ idleFor = [c \in Clients |-> 0]
  /\ idleTimeout = {}

Idle(S, idle) == {c \in S : idle[c] >= MaxIdleTime}

\* The next check comes when the last of those that remain would have been idle long enough.  With
\* none of them left it comes at once, until their sockets have ended.
NextTimeout(S, idle) == Max({0} \cup {MaxIdleTime - idle[c] : c \in S \ Idle(S, idle)})

\* Mutant of Watched: one connection more is needed.
WatchedAbove(S) == Cardinality(S) > TimeoutLimit

Watched(S) == Cardinality(S) >= TimeoutLimit

\* scheduleNextConnectionIdleTimeout, with the connections S.
ScheduleNext(S, idle) ==
  /\ ending' = ending \cup Idle(S, idle)
  /\ idleTimeout' = IF Watched(S) THEN {NextTimeout(S, idle)} ELSE {}

\* onConnection.  A timer that runs is left alone.
AcceptClient(c) ==
  /\ listening
  /\ c \notin registry
  /\ registry' = registry \cup {c}
  /\ idleFor' = [idleFor EXCEPT ![c] = 0]
  /\ IF Watched(registry') /\ idleTimeout = {} THEN ScheduleNext(registry', idleFor')
     ELSE UNCHANGED <<ending, idleTimeout>>
  /\ UNCHANGED listening

\* Data came in, or an answer went out.
SocketOperation(c) ==
  /\ c \in registry \ ending
  /\ idleFor[c] > 0
  /\ idleFor' = [idleFor EXCEPT ![c] = 0]
  /\ UNCHANGED <<listening, registry, ending, idleTimeout>>

IdleTimerFires ==
  /\ idleTimeout = {0}
  /\ listening
  /\ ScheduleNext(registry, idleFor)
  /\ UNCHANGED <<listening, registry, idleFor>>

\* The CLOSED event, for whatever reason.
ClientClosed(c) ==
  /\ c \in registry
  /\ registry' = registry \ {c}
  /\ ending' = ending \ {c}
  /\ UNCHANGED <<listening, idleFor, idleTimeout>>

StopListening ==
  /\ listening
  /\ listening' = FALSE
  /\ idleTimeout' = {}
  /\ ending' = registry
  /\ UNCHANGED <<registry, idleFor>>

\* Time passes; a timer that is due fires first.
IdleTick ==
  /\ idleTimeout # {0}
  /\ \E c \in registry : idleFor[c] < Forever
  /\ idleFor' = [c \in Clients |-> IF c \in registry /\ idleFor[c] < Forever THEN idleFor[c] + 1 ELSE idleFor[c]]
  /\ idleTimeout' = {left - 1 : left \in idleTimeout}
  /\ UNCHANGED <<listening, registry, ending>>

IdleNext ==
  \/ \E c \in Clients : AcceptClient(c) \/ SocketOperation(c) \/ ClientClosed(c)
  \/ IdleTimerFires \/ StopListening \/ IdleTick

IdleSpec == IdleInit /\ [][IdleNext]_idleVars

-----------------------------------------------------------------------------
(* Properties.                                                             *)

IdleTypeOK ==
  /\ ending \subseteq registry /\ registry \subseteq Clients
  /\ idleFor \in [Clients -> 0..Forever]
  /\ idleTimeout \in {{}} \cup {{left} : left \in 0..MaxIdleTime}

\* A server with many connections looks after idle ones, however connections came and went since
\* the timer was set (onConnection, scheduleNextConnectionIdleTimeout).
ManyAreWatched ==
  listening /\ Cardinality(registry) >= TimeoutLimit => idleTimeout # {}

\* Then no connection is kept that was idle for twice the time or longer, although the timer waits
\* for the connection that was used last and not for the one that is due next.
IdleAreClosed ==
  idleTimeout # {} => \A c \in registry \ ending : idleFor[c] < 2 * MaxIdleTime

\* MAX_CONNECTION_IDLE_TIME: idle connections are closed after that time.
IdleClosedInTime ==
  idleTimeout # {} => \A c \in registry \ ending : idleFor[c] <= MaxIdleTime

\* With many connections the timer runs, and idle connections are closed in less than twice the time.
IdleConnectionsEnd == IdleTypeOK /\ ManyAreWatched /\ IdleAreClosed
=============================================================================
