---------------------------- MODULE PairingSessions ----------------------------
(***************************************************************************)
(* Who is paired with the accessory, and which connections speak for whom: *)
(* pair-setup, pair-verify and /pairings of src/src/lib/HAPServer.ts, the  *)
(* pairing handlers of Accessory.ts, the paired clients of                 *)
(* model/AccessoryInfo.ts, and the sessions EventedHTTPServer keeps.       *)
(*                                                                         *)
(* Every connection belongs to one controller, which has one key pair and  *)
(* has one request outstanding.  A route handler runs when the body of the *)
(* request is complete, so other connections' handlers, and the end of its *)
(* own connection, may come between the arrival and the handler.           *)
(* allowInsecureRequest, a debugging option, is off.                       *)
(***************************************************************************)
EXTENDS Naturals, FiniteSets

CONSTANTS Controllers, Conns, NoController,
          MaxTries   \* unsuccessful attempts the server tolerates (100)

ASSUME PairingAssumption ==
  /\ IsFiniteSet(Controllers)
  /\ NoController \notin Controllers
  /\ MaxTries \in Nat

VARIABLES
  \* AccessoryInfo, in memory and on disk
  pairedClients,             \* the permission of each client, "none" if it is not paired
  pairedAdminClients,
  saved,
  \* HAPServer
  unsuccessfulPairAttempts,
  \* EventedHTTPServer
  connections,
  connectionsByUsername,
  \* HAPConnection
  owner,                     \* the controller at the other end of the socket
  state,                     \* "open" stands for CONNECTING and FULLY_SET_UP
  destroyed,                 \* connections whose socket was destroyed by close()
  username,
  pairSetupState,
  pairVerifyState,
  pending                    \* the request whose handler has not finished

pairings == <<pairedClients, pairedAdminClients, saved>>
sessions == <<connections, connectionsByUsername, owner, state, destroyed, username>>
protocol == <<pairSetupState, pairVerifyState, pending>>
vars     == <<pairings, unsuccessfulPairAttempts, sessions, protocol>>

Permissions == {"admin", "user"}
Requests == {"setup M1", "setup M3", "setup M5", "verify M1", "verify M3",
             "add pairing", "remove pairing"}

TypeOK ==
  /\ pairedClients \in [Controllers -> Permissions \cup {"none"}]
  /\ pairedAdminClients \in Nat
  /\ saved \in [Controllers -> Permissions \cup {"none"}]
  /\ unsuccessfulPairAttempts \in Nat
  /\ connections \subseteq Conns
  /\ connectionsByUsername \in [Controllers -> SUBSET Conns]
  /\ owner \in [Conns -> Controllers \cup {NoController}]
  /\ state \in [Conns -> {"none", "open", "authenticated", "to be teared down", "closing", "closed"}]
  /\ destroyed \subseteq Conns
  /\ username \in [Conns -> Controllers \cup {NoController}]
  /\ pairSetupState \in [Conns -> {"undefined", "M2", "M4"}]
  /\ pairVerifyState \in [Conns -> {"undefined", "M2"}]
  /\ pending \in [Conns -> Requests \cup {"idle", "generating key"}]

Admins(clients) == {u \in Controllers : clients[u] = "admin"}
Paired(clients) == {u \in Controllers : clients[u] # "none"}

Nobody == [u \in Controllers |-> "none"]

Init ==
  /\ pairedClients = Nobody
  /\ pairedAdminClients = 0
  /\ saved = Nobody
  /\ unsuccessfulPairAttempts = 0
  /\ connections = {}
  /\ connectionsByUsername = [u \in Controllers |-> {}]
  /\ owner = [c \in Conns |-> NoController]
  /\ state = [c \in Conns |-> "none"]
  /\ destroyed = {}
  /\ username = [c \in Conns |-> NoController]
  /\ pairSetupState = [c \in Conns |-> "undefined"]
  /\ pairVerifyState = [c \in Conns |-> "undefined"]
  /\ pending = [c \in Conns |-> "idle"]

-----------------------------------------------------------------------------
(* Connections.                                                            *)

Alive(c) == state[c] \in {"open", "authenticated"}

\* onConnection.  A connection is a new object: one that something still refers to is not reused.
Accept(c, u) ==
  /\ c \notin connections
  /\ pending[c] = "idle"
  /\ \A v \in Controllers : c \notin connectionsByUsername[v]
  /\ connections' = connections \cup {c}
  /\ owner' = [owner EXCEPT ![c] = u]
  /\ state' = [state EXCEPT ![c] = "open"]
  /\ destroyed' = destroyed \ {c}
  /\ username' = [username EXCEPT ![c] = NoController]
  /\ pairSetupState' = [pairSetupState EXCEPT ![c] = "undefined"]
  /\ pairVerifyState' = [pairVerifyState EXCEPT ![c] = "undefined"]
  /\ UNCHANGED <<pairings, unsuccessfulPairAttempts, connectionsByUsername, pending>>

\* The head of a request is parsed; a connection that is not alive ignores it.
Arrive(c, request) ==
  /\ c \in connections \ destroyed
  /\ Alive(c)
  /\ pending[c] = "idle"
  /\ pending' = [pending EXCEPT ![c] = request]
  /\ UNCHANGED <<pairings, unsuccessfulPairAttempts, sessions, pairSetupState, pairVerifyState>>

\* What close() of the connections in S does something to.
ClosedIn(S) == {c \in S : state[c] \notin {"closing", "closed"}}

\* The idle timeout, or the 10ms timer of a connection that answered its own unpairing.
Close(c) ==
  /\ c \in connections
  /\ c \in ClosedIn({c})
  /\ state' = [state EXCEPT ![c] = "closing"]
  /\ destroyed' = destroyed \cup {c}
  /\ UNCHANGED <<pairings, unsuccessfulPairAttempts, connections, connectionsByUsername,
                 owner, username, protocol>>

\* The socket's close event, with handleConnectionClose.
SocketClosed(c) ==
  /\ c \in connections
  /\ state' = [state EXCEPT ![c] = "closed"]
  /\ connections' = connections \ {c}
  /\ connectionsByUsername' =
       [u \in Controllers |-> IF u = username[c] THEN connectionsByUsername[u] \ {c}
                              ELSE connectionsByUsername[u]]
  /\ UNCHANGED <<pairings, unsuccessfulPairAttempts, owner, destroyed, username, protocol>>

\* The process ends at any time and starts again: no connection, no attempt, the clients that
\* were saved (AccessoryInfo.load).
Restart ==
  /\ pairedClients' = saved
  /\ pairedAdminClients' = Cardinality(Admins(saved))
  /\ UNCHANGED saved
  /\ unsuccessfulPairAttempts' = 0
  /\ connections' = {}
  /\ connectionsByUsername' = [u \in Controllers |-> {}]
  /\ owner' = [c \in Conns |-> NoController]
  /\ state' = [c \in Conns |-> "none"]
  /\ destroyed' = {}
  /\ username' = [c \in Conns |-> NoController]
  /\ pairSetupState' = [c \in Conns |-> "undefined"]
  /\ pairVerifyState' = [c \in Conns |-> "undefined"]
  /\ pending' = [c \in Conns |-> "idle"]

-----------------------------------------------------------------------------
(* Pair-setup.                                                             *)

Answer(c) == pending' = [pending EXCEPT ![c] = "idle"]

\* The guards every pair-setup request passes first.
MaySetUp == Paired(pairedClients) = {} /\ unsuccessfulPairAttempts <= MaxTries

\* The step that is due on the connection.
InSequence(c, request) ==
  CASE request = "setup M1" -> pairSetupState[c] = "undefined"
    [] request = "setup M3" -> pairSetupState[c] = "M2"
    [] request = "setup M5" -> pairSetupState[c] = "M4"
    [] OTHER -> FALSE

\* UNAVAILABLE, MAX_TRIES or an invalid sequence number: the setup state stays what it was.
PairSetupRefused(c) ==
  /\ pending[c] \in {"setup M1", "setup M3", "setup M5"}
  /\ ~(MaySetUp /\ InSequence(c, pending[c]))
  /\ Answer(c)
  /\ UNCHANGED <<pairings, unsuccessfulPairAttempts, sessions, pairSetupState, pairVerifyState>>

\* Mutant of PairSetup: only the first request is refused by a paired accessory.
PairSetupCheckedOnce(c, request) ==
  /\ pending[c] = request
  /\ request = "setup M1" => MaySetUp
  /\ InSequence(c, request)

PairSetup(c, request) ==
  /\ pending[c] = request
  /\ MaySetUp
  /\ InSequence(c, request)

\* The SRP key is generated asynchronously.
PairSetupM1(c) ==
  /\ PairSetup(c, "setup M1")
  /\ pending' = [pending EXCEPT ![c] = "generating key"]
  /\ UNCHANGED <<pairings, unsuccessfulPairAttempts, sessions, pairSetupState, pairVerifyState>>

KeyGenerated(c) ==
  /\ pending[c] = "generating key"
  /\ Answer(c)
  /\ \/ pairSetupState' = [pairSetupState EXCEPT ![c] = "M2"]
     \/ UNCHANGED pairSetupState  \* the generation failed
  /\ UNCHANGED <<pairings, unsuccessfulPairAttempts, sessions, pairVerifyState>>

PairSetupM3(c, proven) ==
  /\ PairSetup(c, "setup M3")
  /\ Answer(c)
  /\ pairSetupState' = [pairSetupState EXCEPT ![c] = IF proven THEN "M4" ELSE "undefined"]
  /\ unsuccessfulPairAttempts' = unsuccessfulPairAttempts + (IF proven THEN 0 ELSE 1)
  /\ UNCHANGED <<pairings, sessions, pairVerifyState>>

\* addPairedClient, then save.
AddPairedClient(u, permission) ==
  /\ pairedClients' = [pairedClients EXCEPT ![u] = permission]
  /\ pairedAdminClients' = pairedAdminClients + (IF permission = "admin" THEN 1 ELSE 0)
  /\ saved' = pairedClients'

UpdatePermissionDown(u, permission) ==
  /\ pairedClients' = [pairedClients EXCEPT ![u] = permission]
  /\ pairedAdminClients' =
       pairedAdminClients - (IF pairedClients[u] = "admin" /\ permission # "admin" THEN 1 ELSE 0)
  /\ saved' = pairedClients'

\* updatePermission, then save.
UpdatePermission(u, permission) ==
  /\ pairedClients' = [pairedClients EXCEPT ![u] = permission]
  /\ pairedAdminClients' =
       CASE pairedClients[u] = "admin" /\ permission # "admin" -> pairedAdminClients - 1
         [] pairedClients[u] # "admin" /\ permission = "admin" -> pairedAdminClients + 1
         [] OTHER -> pairedAdminClients
  /\ saved' = pairedClients'

\* handleInitialPairSetupFinished: the first controller is an admin.
InitialPairSetupFinished(u) == AddPairedClient(u, "admin")

PairSetupM5(c, proven) ==
  /\ PairSetup(c, "setup M5")
  /\ Answer(c)
  /\ pairSetupState' = [pairSetupState EXCEPT ![c] = "undefined"]
  /\ IF proven THEN InitialPairSetupFinished(owner[c]) ELSE UNCHANGED pairings
  /\ UNCHANGED <<unsuccessfulPairAttempts, sessions, pairVerifyState>>

-----------------------------------------------------------------------------
(* Pair-verify.                                                            *)

PairVerifyM1(c) ==
  /\ pending[c] = "verify M1"
  /\ Answer(c)
  /\ pairVerifyState' = [pairVerifyState EXCEPT ![c] = "M2"]
  /\ UNCHANGED <<pairings, unsuccessfulPairAttempts, sessions, pairSetupState>>

\* Mutant of Authenticate: a client's second session is not indexed.
AuthenticateFirst(c) ==
  /\ state' = [state EXCEPT ![c] = "authenticated"]
  /\ username' = [username EXCEPT ![c] = owner[c]]
  /\ connectionsByUsername' = [connectionsByUsername EXCEPT ![owner[c]] = IF @ = {} THEN {c} ELSE @]
  /\ UNCHANGED <<connections, owner, destroyed>>

\* connectionAuthenticated and handleConnectionAuthenticated, whatever became of the connection.
Authenticate(c) ==
  /\ state' = [state EXCEPT ![c] = "authenticated"]
  /\ username' = [username EXCEPT ![c] = owner[c]]
  /\ connectionsByUsername' = [connectionsByUsername EXCEPT ![owner[c]] = @ \cup {c}]
  /\ UNCHANGED <<connections, owner, destroyed>>

PairVerifyM3(c, proven) ==
  /\ pending[c] = "verify M3"
  /\ Answer(c)
  /\ pairVerifyState' = [pairVerifyState EXCEPT ![c] = "undefined"]
  /\ IF pairVerifyState[c] = "M2" /\ proven /\ pairedClients[owner[c]] # "none"
     THEN Authenticate(c)
     ELSE UNCHANGED sessions
  /\ UNCHANGED <<pairings, unsuccessfulPairAttempts, pairSetupState>>

-----------------------------------------------------------------------------
(* /pairings.                                                              *)

HasAdminPermissions(u) == u \in Controllers /\ pairedClients[u] = "admin"

MayEditPairings(c) == state[c] = "authenticated" /\ HasAdminPermissions(username[c])

\* Not authenticated, no admin, another key for a known identifier, an incomplete request.
PairingsRefused(c) ==
  /\ pending[c] \in {"add pairing", "remove pairing"}
  /\ Answer(c)
  /\ UNCHANGED <<pairings, unsuccessfulPairAttempts, sessions, pairSetupState, pairVerifyState>>

AddPairing(c, u, permission) ==
  /\ pending[c] = "add pairing"
  /\ MayEditPairings(c)
  /\ Answer(c)
  /\ IF pairedClients[u] # "none"
     THEN UpdatePermission(u, permission)
     ELSE AddPairedClient(u, permission)
  /\ UNCHANGED <<unsuccessfulPairAttempts, sessions, pairSetupState, pairVerifyState>>

\* destroyExistingConnectionsAfterUnpair for every client in the set removed.
DestroyConnections(initiator, removed) ==
  LET affected == UNION {connectionsByUsername[u] : u \in removed}
      closing  == ClosedIn(affected \ {initiator})
  IN /\ state' = [c \in Conns |->
                    CASE c \in closing -> "closing"
                      [] c = initiator /\ c \in affected -> "to be teared down"
                      [] OTHER -> state[c]]
     /\ destroyed' = destroyed \cup closing
     /\ UNCHANGED <<connections, connectionsByUsername, owner, username>>

\* removePairedClient, then save: without an admin left, all normal clients go too.
RemovePairedClient(c, u) ==
  LET admins  == pairedAdminClients - (IF pairedClients[u] = "admin" THEN 1 ELSE 0)
      removed == IF admins = 0 THEN {u} \cup Paired(pairedClients) ELSE {u}
  IN /\ pairedClients' = [v \in Controllers |-> IF v \in removed THEN "none" ELSE pairedClients[v]]
     /\ pairedAdminClients' = admins - Cardinality(Admins(pairedClients) \cap (removed \ {u}))
     /\ saved' = pairedClients'
     /\ DestroyConnections(c, removed)

RemovePairing(c, u) ==
  /\ pending[c] = "remove pairing"
  /\ MayEditPairings(c)
  /\ Answer(c)
  /\ RemovePairedClient(c, u)
  /\ UNCHANGED <<unsuccessfulPairAttempts, pairSetupState, pairVerifyState>>

-----------------------------------------------------------------------------
Handle(c) ==
  \/ PairSetupRefused(c)
  \/ PairSetupM1(c)
  \/ KeyGenerated(c)
  \/ \E proven \in BOOLEAN : PairSetupM3(c, proven) \/ PairSetupM5(c, proven)
  \/ PairVerifyM1(c)
  \/ \E proven \in BOOLEAN : PairVerifyM3(c, proven)
  \/ PairingsRefused(c)
  \/ \E u \in Controllers, permission \in Permissions : AddPairing(c, u, permission)
  \/ \E u \in Controllers : RemovePairing(c, u)

Next ==
  \/ \E c \in Conns :
       \/ \E u \in Controllers : Accept(c, u)
       \/ \E request \in Requests : Arrive(c, request)
       \/ Handle(c)
       \/ Close(c)
       \/ SocketClosed(c)
  \/ Restart

Spec == Init /\ [][Next]_vars

-----------------------------------------------------------------------------
(* Properties.                                                             *)

\* A connection that may use the accessory speaks for a client that is paired now: pair-verify,
\* the removal of a pairing by another connection and the removal of all clients with the last
\* admin never leave a session of a client that is gone (isAuthenticated, removePairedClient).
AuthenticatedIsPaired ==
  \A c \in connections :
    state[c] = "authenticated" => pairedClients[username[c]] # "none"

\* The counter that decides whether the normal clients go with the last admin is the number of
\* admins (pairedAdminClients).
AdminsCounted == pairedAdminClients = Cardinality(Admins(pairedClients))

\* The request in progress on connection c finishes the pair-setup of u, who has proved there that it
\* knows the setup code (M4 is reached by an accepted proof).
HasProved(c, u) == owner[c] = u /\ pending[c] = "setup M5" /\ pairSetupState[c] = "M4"

\* Somebody becomes paired only with an accessory nobody is paired with, by its own connection on which
\* it proved the setup code, or by the request of an admin's verified connection: two pair-setups that
\* run at the same time do not both succeed.
PairedByRight ==
  [][\A u \in Controllers :
       pairedClients[u] = "none" /\ pairedClients'[u] # "none"
         => \/ Paired(pairedClients) = {} /\ \E c \in Conns : HasProved(c, u)
            \/ \E c \in Conns : pending[c] = "add pairing" /\ MayEditPairings(c)]_vars

\* However many connections try at once, the attempts pass the limit by one at most.
TriesLimited == unsuccessfulPairAttempts <= MaxTries + 1

\* "after 100 unsuccessful attempts the server won't accept any further attempts".
NoTryAfterLimit == unsuccessfulPairAttempts <= MaxTries

\* "if we don't have any admin clients left paired it is required to kill all normal clients".
NoClientsWithoutAdmin == Paired(pairedClients) # {} => Admins(pairedClients) # {}

\* The session dictionary holds sessions that are open.
IndexedIsOpen == \A u \in Controllers : connectionsByUsername[u] \subseteq connections

\* A connection that spoke for a client whose pairing is gone is on its way out: its socket was
\* destroyed, or it waits for the end of its own answer, whatever its handlers still do
\* (destroyExistingConnectionsAfterUnpair).
UnpairedSessionsEnding ==
  \A c \in connections :
    username[c] \in Controllers /\ pairedClients[username[c]] = "none"
      => c \in destroyed \/ state[c] = "to be teared down"

\* No verified session outlives the pairing of its client, whichever way the pairing ended.
SessionsArePaired == TypeOK /\ AuthenticatedIsPaired /\ UnpairedSessionsEnding

\* The counters beside the pairings, of admins and of failed attempts, are what they count.
CountersHold == AdminsCounted /\ TriesLimited
=============================================================================
