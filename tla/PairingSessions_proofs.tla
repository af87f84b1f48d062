------------------------- MODULE PairingSessions_proofs -------------------------
(***************************************************************************)
(* Proofs about PairingSessions for any controllers, connections and limit *)
(* of attempts: no verified session outlives the pairing of its client,    *)
(* the counters count, and nobody becomes paired but by right.  And about  *)
(* TLV8, the encoding of what is paired with and configured: whatever is   *)
(* encoded is read back, for any data, lists and length of an entry.       *)
(***************************************************************************)
EXTENDS PairingSessions, TLV8, Induction_proofs, FiniteSetTheorems, SequenceTheorems, TLAPS

(***************************************************************************)
(* The inductive invariant.  A removal closes the sessions it finds in the *)
(* dictionary, so each open session of a client must be there, under the   *)
(* client's name; close() does nothing to a connection that is closing, so *)
(* one that is must have lost its socket; and a handler that still runs    *)
(* must know whom it speaks for, and must not revive a connection that     *)
(* waits for its end.                                                      *)
(***************************************************************************)

\* A connection speaks for the controller at its other end, if for anybody.
SpeaksForOwner ==
  /\ \A c \in Conns : username[c] # NoController => username[c] = owner[c]
  /\ \A c \in Conns : c \in connections \/ pending[c] # "idle" => owner[c] \in Controllers
  /\ \A c \in connections : state[c] = "authenticated" => username[c] # NoController

\* The open sessions of a client are in the dictionary.
OpenIsIndexed ==
  \A c \in connections : username[c] # NoController => c \in connectionsByUsername[username[c]]

\* close() set the state together with the end of the socket.
ClosingIsDestroyed == \A c \in connections : state[c] \in {"closing", "closed"} => c \in destroyed

\* The request that unpaired its own connection was the last one.
TornDownIsIdle == \A c \in Conns : state[c] = "to be teared down" => pending[c] = "idle"

\* Every change of the pairings is saved before the handler returns.
SavedIsCurrent == saved = pairedClients

IInv ==
  /\ TypeOK
  /\ SpeaksForOwner
  /\ OpenIsIndexed
  /\ ClosingIsDestroyed
  /\ TornDownIsIdle
  /\ SavedIsCurrent
  /\ AuthenticatedIsPaired
  /\ UnpairedSessionsEnding
  /\ AdminsCounted
  /\ TriesLimited

-----------------------------------------------------------------------------
(* The counter of admins.                                                  *)

\* The admins among clients are finitely many.
LEMMA AdminsFinite ==
  ASSUME NEW clients
  PROVE  IsFiniteSet(Admins(clients)) /\ Cardinality(Admins(clients)) \in Nat
<1>1. Admins(clients) \in SUBSET Controllers
  BY DEF Admins
<1>2. IsFiniteSet(Admins(clients))
  BY <1>1, FS_Subset, PairingAssumption
<1> QED
  BY <1>2, FS_CardinalityType

\* A client that gets a permission is one admin more, one less, or makes no difference.
LEMMA AdminsAfterUpdate ==
  ASSUME NEW clients \in [Controllers -> Permissions \cup {"none"}],
         NEW u \in Controllers, NEW p \in Permissions \cup {"none"}
  PROVE  LET before == Cardinality(Admins(clients))
             after  == Cardinality(Admins([clients EXCEPT ![u] = p]))
         IN /\ clients[u] = "admin" /\ p # "admin" => after = before - 1
            /\ clients[u] # "admin" /\ p = "admin" => after = before + 1
            /\ (clients[u] = "admin" <=> p = "admin") => after = before
<1> DEFINE after == [clients EXCEPT ![u] = p]
<1>1. u \in Admins(clients) <=> clients[u] = "admin"
  BY DEF Admins
<1>2. CASE p = "admin"
  <2>1. Admins(after) = Admins(clients) \cup {u}
    BY <1>2 DEF Admins
  <2> QED
    BY <2>1, <1>1, <1>2, AdminsFinite, FS_AddElement
<1>3. CASE p # "admin"
  <2>1. Admins(after) = Admins(clients) \ {u}
    BY <1>3 DEF Admins
  <2> QED
    BY <2>1, <1>1, <1>3, AdminsFinite, FS_RemoveElement
<1> QED
  BY <1>2, <1>3

\* The removal of a client, and of all the others with the last admin, leaves the counter right.
LEMMA AdminsAfterRemoval ==
  ASSUME TypeOK, AdminsCounted, NEW c \in Conns, NEW u \in Controllers,
         RemovePairedClient(c, u)
  PROVE  AdminsCounted'
<1> DEFINE admins  == pairedAdminClients - (IF pairedClients[u] = "admin" THEN 1 ELSE 0)
           removed == IF admins = 0 THEN {u} \cup Paired(pairedClients) ELSE {u}
           others  == Admins(pairedClients) \ {u}
<1>1. pairedClients' = [v \in Controllers |-> IF v \in removed THEN "none" ELSE pairedClients[v]]
  BY DEF RemovePairedClient
<1>2. pairedAdminClients' = admins - Cardinality(Admins(pairedClients) \cap (removed \ {u}))
  BY DEF RemovePairedClient
<1>3. IsFiniteSet(others) /\ Cardinality(others) \in Nat /\ Cardinality(others) = admins
  <2>1. u \in Admins(pairedClients) <=> pairedClients[u] = "admin"
    BY DEF Admins
  <2>2. IsFiniteSet(others) /\ Cardinality(others) =
          IF u \in Admins(pairedClients) THEN Cardinality(Admins(pairedClients)) - 1
          ELSE Cardinality(Admins(pairedClients))
    BY AdminsFinite, FS_RemoveElement
  <2> QED
    BY <2>1, <2>2, AdminsFinite, FS_CardinalityType DEF AdminsCounted
<1>4. CASE admins = 0
  <2>1. others = {}
    BY <1>3, <1>4, FS_EmptySet
  <2>2. Admins(pairedClients) \cap (removed \ {u}) = {}
    BY <2>1
  <2>3. Admins(pairedClients') = {}
    BY <1>1, <1>4 DEF Admins, Paired
  <2> QED
    BY <1>2, <1>4, <2>2, <2>3, FS_EmptySet DEF AdminsCounted
<1>5. CASE admins # 0
  <2>1. Admins(pairedClients) \cap (removed \ {u}) = {}
    BY <1>5
  <2>2. Admins(pairedClients') = others
    BY <1>1, <1>5 DEF Admins
  <2> QED
    BY <1>2, <1>3, <2>1, <2>2, FS_EmptySet DEF AdminsCounted
<1> QED
  BY <1>4, <1>5

-----------------------------------------------------------------------------
(* The end of the sessions of removed clients.                             *)

\* Every session in the dictionary of a removed client closes without its socket, but the one
\* that asked for the removal, which is to be teared down; no other connection is touched.
LEMMA SessionsDestroyed ==
  ASSUME TypeOK, NEW initiator \in Conns, NEW removed \in SUBSET Controllers,
         DestroyConnections(initiator, removed)
  PROVE  /\ state' \in [Conns -> {"none", "open", "authenticated", "to be teared down",
                                  "closing", "closed"}]
         /\ destroyed \subseteq destroyed' /\ destroyed' \subseteq Conns
         /\ \A c \in Conns : \/ state'[c] = state[c]
                             \/ (state'[c] = "closing" /\ c \in destroyed')
                             \/ (c = initiator /\ state'[c] = "to be teared down")
         /\ \A u \in removed : \A c \in connectionsByUsername[u] :
              IF c = initiator THEN state'[c] = "to be teared down"
              ELSE state[c] \in {"closing", "closed"} \/ (c \in destroyed' /\ state'[c] = "closing")
<1> DEFINE affected == UNION {connectionsByUsername[u] : u \in removed}
           closing  == ClosedIn(affected \ {initiator})
           becomes(c) == CASE c \in closing -> "closing"
                           [] c = initiator /\ c \in affected -> "to be teared down"
                           [] OTHER -> state[c]
<1>1. affected \subseteq Conns /\ closing \subseteq affected
  <2>1. \A u \in removed : connectionsByUsername[u] \subseteq Conns
    BY DEF TypeOK
  <2> QED
    BY <2>1 DEF ClosedIn
<1>2. destroyed' = destroyed \cup closing /\ destroyed \subseteq Conns
  BY DEF DestroyConnections, TypeOK
<1>3. state' = [c \in Conns |-> becomes(c)]
  BY DEF DestroyConnections
<1>4. \A c \in closing : state[c] \notin {"closing", "closed"} /\ c # initiator
  BY DEF ClosedIn
<1>5. \A c \in affected : c \in closing \/ state[c] \in {"closing", "closed"} \/ c = initiator
  BY DEF ClosedIn
<1>6. \A u \in removed : connectionsByUsername[u] \subseteq affected
  OBVIOUS
<1>7. state \in [Conns -> {"none", "open", "authenticated", "to be teared down",
                           "closing", "closed"}]
  BY DEF TypeOK
<1>8. /\ \A c \in closing : becomes(c) = "closing"
      /\ initiator \in affected => becomes(initiator) = "to be teared down"
      /\ \A c \in Conns : c \notin closing /\ ~(c = initiator /\ c \in affected)
                           => becomes(c) = state[c]
  BY <1>4
<1> HIDE DEF affected, closing, becomes
<1>9. \A c \in Conns : state'[c] = becomes(c)
  BY <1>3
<1>10. ASSUME NEW c \in Conns
       PROVE  \/ state'[c] = state[c]
              \/ (state'[c] = "closing" /\ c \in destroyed')
              \/ (c = initiator /\ state'[c] = "to be teared down")
  BY <1>2, <1>8, <1>9
<1>11. state' \in [Conns -> {"none", "open", "authenticated", "to be teared down",
                             "closing", "closed"}]
  <2>1. \A c \in Conns : becomes(c) \in {"none", "open", "authenticated", "to be teared down",
                                         "closing", "closed"}
    BY <1>7, <1>9, <1>10
  <2> QED
    BY <2>1, <1>3
<1>12. ASSUME NEW u \in removed, NEW c \in connectionsByUsername[u]
       PROVE  IF c = initiator THEN state'[c] = "to be teared down"
              ELSE state[c] \in {"closing", "closed"} \/ (c \in destroyed' /\ state'[c] = "closing")
  BY <1>1, <1>2, <1>5, <1>6, <1>8, <1>9
<1> QED
  BY <1>1, <1>2, <1>10, <1>11, <1>12

-----------------------------------------------------------------------------
(* Types.                                                                  *)

\* The handlers that change pairings keep their types; the counter's is that of a cardinality.
LEMMA PairingTypes ==
  ASSUME TypeOK, NEW u \in Controllers, NEW permission \in Permissions,
         \/ pairedClients[u] = "none" /\ AddPairedClient(u, permission)
         \/ AdminsCounted /\ UpdatePermission(u, permission)
  PROVE  /\ pairedClients' \in [Controllers -> Permissions \cup {"none"}]
         /\ pairedAdminClients' \in Nat
         /\ saved' \in [Controllers -> Permissions \cup {"none"}]
<1>1. pairedClients' = [pairedClients EXCEPT ![u] = permission] /\ saved' = pairedClients'
  BY DEF AddPairedClient, UpdatePermission
<1>2. pairedClients' \in [Controllers -> Permissions \cup {"none"}]
  BY <1>1 DEF TypeOK
<1>3. pairedAdminClients' \in Nat
  <2>1. CASE AddPairedClient(u, permission)
    <3>1. pairedAdminClients \in Nat
      BY DEF TypeOK
    <3> QED
      BY <2>1, <3>1 DEF AddPairedClient
  <2>2. CASE AdminsCounted /\ UpdatePermission(u, permission)
    <3>1. pairedAdminClients \in Nat /\ pairedAdminClients = Cardinality(Admins(pairedClients))
      BY <2>2 DEF TypeOK, AdminsCounted
    <3>2. pairedClients \in [Controllers -> Permissions \cup {"none"}]
      BY DEF TypeOK
    <3>3. pairedAdminClients' = Cardinality(Admins([pairedClients EXCEPT ![u] = permission]))
      <4>1. CASE pairedClients[u] = "admin" /\ permission # "admin"
        BY <2>2, <3>1, <3>2, <4>1, AdminsAfterUpdate DEF UpdatePermission
      <4>2. CASE pairedClients[u] # "admin" /\ permission = "admin"
        BY <2>2, <3>1, <3>2, <4>2, AdminsAfterUpdate DEF UpdatePermission
      <4>3. CASE pairedClients[u] = "admin" <=> permission = "admin"
        BY <2>2, <3>1, <3>2, <4>3, AdminsAfterUpdate DEF UpdatePermission
      <4> QED
        BY <4>1, <4>2, <4>3
    <3> QED
      BY <3>3, AdminsFinite
  <2> QED
    BY <2>1, <2>2
<1> QED
  BY <1>1, <1>2, <1>3

\* Every action preserves the types.
LEMMA TypePreserved == TypeOK /\ AdminsCounted /\ SpeaksForOwner /\ [Next]_vars => TypeOK'
<1> SUFFICES ASSUME TypeOK, AdminsCounted, SpeaksForOwner, [Next]_vars PROVE TypeOK'
  OBVIOUS
<1> USE DEF TypeOK, pairings, sessions, protocol
<1>1. ASSUME NEW c \in Conns, NEW u \in Controllers, Accept(c, u) PROVE TypeOK'
  BY <1>1 DEF Accept
<1>2. ASSUME NEW c \in Conns, NEW request \in Requests, Arrive(c, request) PROVE TypeOK'
  BY <1>2 DEF Arrive
<1>3. ASSUME NEW c \in Conns, Close(c) PROVE TypeOK'
  BY <1>3 DEF Close
<1>4. ASSUME NEW c \in Conns, SocketClosed(c) PROVE TypeOK'
  BY <1>4 DEF SocketClosed
<1>5. CASE Restart
  <2>1. pairedAdminClients' \in Nat
    BY <1>5, AdminsFinite DEF Restart
  <2> QED
    BY <1>5, <2>1 DEF Restart
<1>6. ASSUME NEW c \in Conns, PairSetupRefused(c) \/ PairingsRefused(c) PROVE TypeOK'
  <2>1. CASE PairSetupRefused(c)
    BY <2>1 DEF PairSetupRefused, Answer
  <2>2. CASE PairingsRefused(c)
    BY <2>2 DEF PairingsRefused, Answer
  <2> QED
    BY <1>6, <2>1, <2>2
<1>7. ASSUME NEW c \in Conns, PairSetupM1(c) \/ KeyGenerated(c) \/ PairVerifyM1(c) PROVE TypeOK'
  <2>1. CASE PairSetupM1(c)
    BY <2>1 DEF PairSetupM1
  <2>2. CASE KeyGenerated(c)
    <3>1. CASE pairSetupState' = [pairSetupState EXCEPT ![c] = "M2"]
      BY <2>2, <3>1 DEF KeyGenerated, Answer
    <3>2. CASE UNCHANGED pairSetupState
      BY <2>2, <3>2 DEF KeyGenerated, Answer
    <3> QED
      BY <2>2, <3>1, <3>2 DEF KeyGenerated
  <2>3. CASE PairVerifyM1(c)
    BY <2>3 DEF PairVerifyM1, Answer
  <2> QED
    BY <1>7, <2>1, <2>2, <2>3
<1>8. ASSUME NEW c \in Conns, NEW proven \in BOOLEAN, PairSetupM3(c, proven) PROVE TypeOK'
  <2>1. unsuccessfulPairAttempts' \in Nat
    <3>1. unsuccessfulPairAttempts \in Nat
      OBVIOUS
    <3> HIDE DEF TypeOK
    <3>2. PICK d \in {0, 1} : unsuccessfulPairAttempts' = unsuccessfulPairAttempts + d
      BY <1>8, Zenon DEF PairSetupM3
    <3> QED
      BY <3>1, <3>2
  <2>2. pairSetupState' \in [Conns -> {"undefined", "M2", "M4"}]
    BY <1>8 DEF PairSetupM3
  <2> QED
    BY <1>8, <2>1, <2>2 DEF PairSetupM3, Answer
<1>9. ASSUME NEW c \in Conns, NEW proven \in BOOLEAN, PairSetupM5(c, proven) PROVE TypeOK'
  <2>1. owner[c] \in Controllers
    BY <1>9 DEF PairSetupM5, PairSetup, SpeaksForOwner
  <2>2. pairedClients[owner[c]] = "none"
    BY <1>9, <2>1 DEF PairSetupM5, PairSetup, MaySetUp, Paired
  <2>3. CASE proven
    <3>1. AddPairedClient(owner[c], "admin")
      BY <1>9, <2>3 DEF PairSetupM5, InitialPairSetupFinished
    <3>2. "admin" \in Permissions
      BY DEF Permissions
    <3>3. /\ pairedClients' \in [Controllers -> Permissions \cup {"none"}]
          /\ pairedAdminClients' \in Nat
          /\ saved' \in [Controllers -> Permissions \cup {"none"}]
      BY <2>1, <2>2, <3>1, <3>2, PairingTypes
    <3> QED
      BY <1>9, <3>3 DEF PairSetupM5, Answer
  <2>4. CASE ~proven
    BY <1>9, <2>4 DEF PairSetupM5, Answer
  <2> QED
    BY <2>3, <2>4
<1>10. ASSUME NEW c \in Conns, NEW proven \in BOOLEAN, PairVerifyM3(c, proven) PROVE TypeOK'
  <2>1. owner[c] \in Controllers
    BY <1>10 DEF PairVerifyM3, SpeaksForOwner
  <2>2. CASE Authenticate(c)
    BY <1>10, <2>1, <2>2 DEF PairVerifyM3, Answer, Authenticate
  <2>3. CASE UNCHANGED sessions
    BY <1>10, <2>3 DEF PairVerifyM3, Answer
  <2> QED
    BY <1>10, <2>2, <2>3 DEF PairVerifyM3
<1>11. ASSUME NEW c \in Conns, NEW u \in Controllers, NEW permission \in Permissions,
              AddPairing(c, u, permission)
       PROVE  TypeOK'
  <2>1. \/ pairedClients[u] = "none" /\ AddPairedClient(u, permission)
        \/ AdminsCounted /\ UpdatePermission(u, permission)
    BY <1>11 DEF AddPairing
  <2>2. /\ pairedClients' \in [Controllers -> Permissions \cup {"none"}]
        /\ pairedAdminClients' \in Nat
        /\ saved' \in [Controllers -> Permissions \cup {"none"}]
    BY <2>1, PairingTypes
  <2> QED
    BY <1>11, <2>2 DEF AddPairing, Answer
<1>12. ASSUME NEW c \in Conns, NEW u \in Controllers, RemovePairing(c, u) PROVE TypeOK'
  <2>1. RemovePairedClient(c, u)
    BY <1>12 DEF RemovePairing
  <2>2. pairedClients' \in [Controllers -> Permissions \cup {"none"}] /\ saved' = pairedClients'
    BY <2>1 DEF RemovePairedClient
  <2>3. pairedAdminClients' \in Nat
    <3>1. AdminsCounted'
      BY <2>1, AdminsAfterRemoval
    <3>2. pairedAdminClients' = Cardinality(Admins(pairedClients'))
      BY <3>1 DEF AdminsCounted
    <3> QED
      BY <3>2, AdminsFinite
  <2>4. PICK removed \in SUBSET Controllers : DestroyConnections(c, removed)
    BY <2>1 DEF RemovePairedClient, Paired
  <2>5. /\ state' \in [Conns -> {"none", "open", "authenticated", "to be teared down",
                                 "closing", "closed"}]
        /\ destroyed' \subseteq Conns
    BY <2>4, SessionsDestroyed
  <2>6. UNCHANGED <<connections, connectionsByUsername, owner, username>>
    BY <2>4 DEF DestroyConnections
  <2> QED
    BY <1>12, <2>2, <2>3, <2>5, <2>6 DEF RemovePairing, Answer
<1>13. CASE UNCHANGED vars
  BY <1>13 DEF vars
<1> QED
  BY <1>1, <1>2, <1>3, <1>4, <1>5, <1>6, <1>7, <1>8, <1>9, <1>10, <1>11, <1>12, <1>13
     DEF Next, Handle

-----------------------------------------------------------------------------
(* Counters and the copy on disk.                                          *)

\* Every action keeps the counter of admins, the bound of the attempts and the copy on disk.
LEMMA CountersPreserved ==
  IInv /\ [Next]_vars => AdminsCounted' /\ TriesLimited' /\ SavedIsCurrent'
<1> SUFFICES ASSUME IInv, [Next]_vars PROVE AdminsCounted' /\ TriesLimited' /\ SavedIsCurrent'
  OBVIOUS
<1> USE DEF pairings
<1>1. TypeOK /\ AdminsCounted /\ TriesLimited /\ SavedIsCurrent /\ SpeaksForOwner
  BY DEF IInv
<1>2. pairedClients \in [Controllers -> Permissions \cup {"none"}] /\ pairedAdminClients \in Nat
      /\ unsuccessfulPairAttempts \in Nat /\ MaxTries \in Nat
  BY <1>1, PairingAssumption DEF TypeOK
<1>3. ASSUME UNCHANGED <<pairings, unsuccessfulPairAttempts>>
      PROVE  AdminsCounted' /\ TriesLimited' /\ SavedIsCurrent'
  BY <1>1, <1>3 DEF AdminsCounted, TriesLimited, SavedIsCurrent
<1>4. CASE Restart
  BY <1>1, <1>2, <1>4 DEF Restart, AdminsCounted, TriesLimited, SavedIsCurrent
<1>5. ASSUME NEW c \in Conns, NEW proven \in BOOLEAN, PairSetupM3(c, proven)
      PROVE  AdminsCounted' /\ TriesLimited' /\ SavedIsCurrent'
  <2>1. PICK d \in {0, 1} : unsuccessfulPairAttempts' = unsuccessfulPairAttempts + d
    BY <1>5, Zenon DEF PairSetupM3
  <2>2. unsuccessfulPairAttempts <= MaxTries
    BY <1>5 DEF PairSetupM3, PairSetup, MaySetUp
  <2> QED
    <3>1. TriesLimited'
      BY <1>2, <2>1, <2>2 DEF TriesLimited
    <3>2. UNCHANGED pairings
      BY <1>5 DEF PairSetupM3
    <3> QED
      BY <1>1, <3>1, <3>2 DEF AdminsCounted, SavedIsCurrent
<1>6. ASSUME NEW u \in Controllers, NEW permission \in Permissions,
             pairedClients[u] = "none", AddPairedClient(u, permission),
             UNCHANGED unsuccessfulPairAttempts
      PROVE  AdminsCounted' /\ TriesLimited' /\ SavedIsCurrent'
  <2>1. CASE permission = "admin"
    BY <1>1, <1>2, <1>6, <2>1, AdminsAfterUpdate
       DEF AddPairedClient, AdminsCounted, TriesLimited, SavedIsCurrent
  <2>2. CASE permission # "admin"
    <3>1. pairedAdminClients' = pairedAdminClients + 0
      BY <1>6, <2>2 DEF AddPairedClient
    <3>2. Cardinality(Admins(pairedClients')) = Cardinality(Admins(pairedClients))
      BY <1>2, <1>6, <2>2, AdminsAfterUpdate DEF AddPairedClient
    <3> QED
      BY <1>1, <1>2, <1>6, <3>1, <3>2
         DEF AddPairedClient, AdminsCounted, TriesLimited, SavedIsCurrent
  <2> QED
    BY <2>1, <2>2
<1>7. ASSUME NEW c \in Conns, NEW proven \in BOOLEAN, PairSetupM5(c, proven)
      PROVE  AdminsCounted' /\ TriesLimited' /\ SavedIsCurrent'
  <2>1. CASE proven
    <3>1. owner[c] \in Controllers
      BY <1>1, <1>7 DEF PairSetupM5, PairSetup, SpeaksForOwner
    <3>2. pairedClients[owner[c]] = "none"
      BY <1>7, <3>1 DEF PairSetupM5, PairSetup, MaySetUp, Paired
    <3>3. AddPairedClient(owner[c], "admin") /\ UNCHANGED unsuccessfulPairAttempts
      BY <1>7, <2>1 DEF PairSetupM5, InitialPairSetupFinished
    <3>4. "admin" \in Permissions
      BY DEF Permissions
    <3> QED
      BY <1>6, <3>1, <3>2, <3>3, <3>4
  <2>2. CASE ~proven
    BY <1>3, <1>7, <2>2 DEF PairSetupM5
  <2> QED
    BY <2>1, <2>2
<1>8. ASSUME NEW c \in Conns, NEW u \in Controllers, NEW permission \in Permissions,
             AddPairing(c, u, permission)
      PROVE  AdminsCounted' /\ TriesLimited' /\ SavedIsCurrent'
  <2>1. CASE pairedClients[u] = "none"
    BY <1>6, <1>8, <2>1 DEF AddPairing
  <2>2. CASE pairedClients[u] # "none"
    <3>1. UpdatePermission(u, permission) /\ UNCHANGED unsuccessfulPairAttempts
      BY <1>8, <2>2 DEF AddPairing
    <3>2. TriesLimited' /\ SavedIsCurrent'
      BY <1>1, <3>1 DEF UpdatePermission, TriesLimited, SavedIsCurrent
    <3>3. AdminsCounted'
      <4>1. CASE pairedClients[u] = "admin" /\ permission # "admin"
        BY <1>1, <1>2, <3>1, <4>1, AdminsAfterUpdate DEF UpdatePermission, AdminsCounted
      <4>2. CASE pairedClients[u] # "admin" /\ permission = "admin"
        BY <1>1, <1>2, <3>1, <4>2, AdminsAfterUpdate DEF UpdatePermission, AdminsCounted
      <4>3. CASE pairedClients[u] = "admin" <=> permission = "admin"
        BY <1>1, <1>2, <3>1, <4>3, AdminsAfterUpdate DEF UpdatePermission, AdminsCounted
      <4> QED
        BY <4>1, <4>2, <4>3
    <3> QED
      BY <3>2, <3>3
  <2> QED
    BY <2>1, <2>2
<1>9. ASSUME NEW c \in Conns, NEW u \in Controllers, RemovePairing(c, u)
      PROVE  AdminsCounted' /\ TriesLimited' /\ SavedIsCurrent'
  <2>1. AdminsCounted'
    BY <1>1, <1>9, AdminsAfterRemoval DEF RemovePairing
  <2> QED
    BY <1>1, <1>9, <2>1 DEF RemovePairing, RemovePairedClient, TriesLimited, SavedIsCurrent
<1>10. ASSUME NEW c \in Conns,
              \/ \E u \in Controllers : Accept(c, u)
              \/ \E request \in Requests : Arrive(c, request)
              \/ Close(c) \/ SocketClosed(c)
              \/ PairSetupRefused(c) \/ PairSetupM1(c) \/ KeyGenerated(c) \/ PairVerifyM1(c)
              \/ \E proven \in BOOLEAN : PairVerifyM3(c, proven)
              \/ PairingsRefused(c)
       PROVE  UNCHANGED <<pairings, unsuccessfulPairAttempts>>
  BY <1>10 DEF Accept, Arrive, Close, SocketClosed, PairSetupRefused, PairSetupM1, KeyGenerated,
               PairVerifyM1, PairVerifyM3, PairingsRefused
<1>11. CASE UNCHANGED vars
  BY <1>3, <1>11 DEF vars
<1> QED
  BY <1>3, <1>4, <1>5, <1>7, <1>8, <1>9, <1>10, <1>11 DEF Next, Handle

-----------------------------------------------------------------------------
(* Sessions.                                                               *)

\* The parts of the invariant about sessions.
SessionsInv ==
  /\ SpeaksForOwner
  /\ OpenIsIndexed
  /\ ClosingIsDestroyed
  /\ TornDownIsIdle
  /\ AuthenticatedIsPaired
  /\ UnpairedSessionsEnding

\* A step that leaves the sessions alone, removes no client and gives work to no connection that
\* nobody is at the other end of, or that waits for its end.
LEMMA QuietStep ==
  ASSUME TypeOK, SessionsInv, UNCHANGED sessions, NEW c \in Conns, NEW request,
         pending' = [pending EXCEPT ![c] = request],
         request # "idle" => owner[c] \in Controllers /\ state[c] # "to be teared down",
         \A u \in Controllers : pairedClients'[u] = "none" => pairedClients[u] = "none"
  PROVE  SessionsInv'
<1> USE DEF sessions
<1>1. \A d \in Conns : pending'[d] = IF d = c THEN request ELSE pending[d]
  BY DEF TypeOK
<1>2. SpeaksForOwner' /\ TornDownIsIdle'
  BY <1>1 DEF SessionsInv, SpeaksForOwner, TornDownIsIdle
<1>3. OpenIsIndexed' /\ ClosingIsDestroyed'
  BY DEF SessionsInv, OpenIsIndexed, ClosingIsDestroyed
<1>4. \A d \in connections : username[d] \in Controllers \/ username[d] = NoController
  BY DEF TypeOK
<1>5. AuthenticatedIsPaired'
  BY <1>4 DEF SessionsInv, SpeaksForOwner, AuthenticatedIsPaired
<1>6. UnpairedSessionsEnding'
  BY <1>4 DEF SessionsInv, UnpairedSessionsEnding
<1> QED
  BY <1>2, <1>3, <1>5, <1>6 DEF SessionsInv

\* A new connection speaks for nobody.
LEMMA AcceptPreserves ==
  ASSUME TypeOK, SessionsInv, NEW c \in Conns, NEW u \in Controllers, Accept(c, u)
  PROVE  SessionsInv'
<1> USE DEF pairings
<1>1. \A d \in Conns : /\ owner'[d] = IF d = c THEN u ELSE owner[d]
                       /\ state'[d] = IF d = c THEN "open" ELSE state[d]
                       /\ username'[d] = IF d = c THEN NoController ELSE username[d]
  BY DEF Accept, TypeOK
<1>2. connections' = connections \cup {c} /\ destroyed' = destroyed \ {c}
      /\ connections \subseteq Conns
  BY DEF Accept, TypeOK
<1>3. UNCHANGED <<pairedClients, connectionsByUsername, pending>>
  BY DEF Accept
<1>4. SpeaksForOwner'
  BY <1>1, <1>2, <1>3 DEF SessionsInv, SpeaksForOwner
<1>5. OpenIsIndexed'
  BY <1>1, <1>2, <1>3 DEF SessionsInv, OpenIsIndexed
<1>6. ClosingIsDestroyed' /\ TornDownIsIdle'
  BY <1>1, <1>2, <1>3 DEF SessionsInv, ClosingIsDestroyed, TornDownIsIdle
<1>7. AuthenticatedIsPaired'
  BY <1>1, <1>2, <1>3 DEF SessionsInv, AuthenticatedIsPaired
<1>8. UnpairedSessionsEnding'
  BY <1>1, <1>2, <1>3, PairingAssumption DEF SessionsInv, UnpairedSessionsEnding
<1> QED
  BY <1>4, <1>5, <1>6, <1>7, <1>8 DEF SessionsInv

\* close() destroys the socket; the session stays in the dictionary until the socket's event.
LEMMA ClosePreserves ==
  ASSUME TypeOK, SessionsInv, NEW c \in Conns, Close(c)
  PROVE  SessionsInv'
<1> USE DEF pairings, protocol
<1>1. \A d \in Conns : state'[d] = IF d = c THEN "closing" ELSE state[d]
  BY DEF Close, TypeOK
<1>2. destroyed' = destroyed \cup {c} /\ connections \subseteq Conns
  BY DEF Close, TypeOK
<1>3. UNCHANGED <<pairedClients, connections, connectionsByUsername, owner, username, pending>>
  BY DEF Close
<1>4. SpeaksForOwner' /\ OpenIsIndexed'
  BY <1>1, <1>2, <1>3 DEF SessionsInv, SpeaksForOwner, OpenIsIndexed
<1>5. ClosingIsDestroyed' /\ TornDownIsIdle'
  BY <1>1, <1>2, <1>3 DEF SessionsInv, ClosingIsDestroyed, TornDownIsIdle
<1>6. AuthenticatedIsPaired' /\ UnpairedSessionsEnding'
  BY <1>1, <1>2, <1>3 DEF SessionsInv, AuthenticatedIsPaired, UnpairedSessionsEnding
<1> QED
  BY <1>4, <1>5, <1>6 DEF SessionsInv

\* A socket that closed leaves the set and the dictionary, and only its own session does.
LEMMA SocketClosedPreserves ==
  ASSUME TypeOK, SessionsInv, NEW c \in Conns, SocketClosed(c)
  PROVE  SessionsInv'
<1> USE DEF pairings, protocol
<1>1. \A d \in Conns : state'[d] = IF d = c THEN "closed" ELSE state[d]
  BY DEF SocketClosed, TypeOK
<1>2. connections' = connections \ {c} /\ connections \subseteq Conns
  BY DEF SocketClosed, TypeOK
<1>3. UNCHANGED <<pairedClients, owner, destroyed, username, pending>>
  BY DEF SocketClosed
<1>4. \A u \in Controllers : connectionsByUsername[u] \ {c} \subseteq connectionsByUsername'[u]
  BY DEF SocketClosed
<1>5. \A d \in connections : username[d] \in Controllers \/ username[d] = NoController
  BY DEF TypeOK
<1>6. SpeaksForOwner' /\ ClosingIsDestroyed' /\ TornDownIsIdle'
  BY <1>1, <1>2, <1>3 DEF SessionsInv, SpeaksForOwner, ClosingIsDestroyed, TornDownIsIdle
<1>7. OpenIsIndexed'
  BY <1>2, <1>3, <1>4, <1>5 DEF SessionsInv, OpenIsIndexed
<1>8. AuthenticatedIsPaired' /\ UnpairedSessionsEnding'
  BY <1>1, <1>2, <1>3 DEF SessionsInv, AuthenticatedIsPaired, UnpairedSessionsEnding
<1> QED
  BY <1>6, <1>7, <1>8 DEF SessionsInv

\* A verified session is indexed under a client that is paired at this moment.
LEMMA AuthenticatePreserves ==
  ASSUME TypeOK, SessionsInv, NEW c \in Conns, NEW proven \in BOOLEAN,
         PairVerifyM3(c, proven), Authenticate(c), pairedClients[owner[c]] # "none"
  PROVE  SessionsInv'
<1> USE DEF pairings
<1>1. owner[c] \in Controllers
  BY DEF PairVerifyM3, SessionsInv, SpeaksForOwner
<1>2. \A d \in Conns : /\ state'[d] = IF d = c THEN "authenticated" ELSE state[d]
                       /\ username'[d] = IF d = c THEN owner[c] ELSE username[d]
                       /\ pending'[d] = IF d = c THEN "idle" ELSE pending[d]
  BY DEF PairVerifyM3, Answer, Authenticate, TypeOK
<1>3. UNCHANGED <<pairedClients, connections, owner, destroyed>> /\ connections \subseteq Conns
  BY DEF PairVerifyM3, Authenticate, TypeOK
<1>4. /\ \A u \in Controllers : connectionsByUsername[u] \subseteq connectionsByUsername'[u]
      /\ c \in connectionsByUsername'[owner[c]]
  BY <1>1 DEF Authenticate, TypeOK
<1>5. \A d \in connections : username[d] \in Controllers \/ username[d] = NoController
  BY DEF TypeOK
<1>6. owner[c] # NoController
  BY <1>1, PairingAssumption
<1>7. SpeaksForOwner'
  BY <1>1, <1>2, <1>3, <1>6 DEF SessionsInv, SpeaksForOwner
<1>8. OpenIsIndexed'
  BY <1>2, <1>3, <1>4, <1>5 DEF SessionsInv, OpenIsIndexed
<1>9. ClosingIsDestroyed' /\ TornDownIsIdle'
  BY <1>2, <1>3 DEF SessionsInv, ClosingIsDestroyed, TornDownIsIdle
<1>10. AuthenticatedIsPaired' /\ UnpairedSessionsEnding'
  BY <1>2, <1>3 DEF SessionsInv, AuthenticatedIsPaired, UnpairedSessionsEnding
<1> QED
  BY <1>7, <1>8, <1>9, <1>10 DEF SessionsInv

\* A removal ends every open session of every client it removes.
LEMMA RemovePreserves ==
  ASSUME TypeOK, SessionsInv, NEW c \in Conns, NEW u \in Controllers, RemovePairing(c, u)
  PROVE  SessionsInv'
<1>1. PICK removed \in SUBSET Controllers :
        /\ pairedClients' = [v \in Controllers |-> IF v \in removed THEN "none" ELSE pairedClients[v]]
        /\ DestroyConnections(c, removed)
  BY DEF RemovePairing, RemovePairedClient, Paired
<1>2. UNCHANGED <<connections, connectionsByUsername, owner, username>>
  BY <1>1 DEF DestroyConnections
<1>3. \A d \in Conns : pending'[d] = IF d = c THEN "idle" ELSE pending[d]
  BY DEF RemovePairing, Answer, TypeOK
<1>4. destroyed \subseteq destroyed'
  BY <1>1, SessionsDestroyed
<1>5. \A d \in Conns : \/ state'[d] = state[d]
                       \/ (state'[d] = "closing" /\ d \in destroyed')
                       \/ (d = c /\ state'[d] = "to be teared down")
  BY <1>1, SessionsDestroyed
<1>6. \A v \in removed : \A d \in connectionsByUsername[v] :
        IF d = c THEN state'[d] = "to be teared down"
        ELSE state[d] \in {"closing", "closed"} \/ (d \in destroyed' /\ state'[d] = "closing")
  BY <1>1, SessionsDestroyed
<1>7. connections \subseteq Conns
      /\ \A d \in connections : username[d] \in Controllers \/ username[d] = NoController
  BY DEF TypeOK
<1>8. SpeaksForOwner'
  BY <1>2, <1>3, <1>5, <1>7 DEF SessionsInv, SpeaksForOwner
<1>9. OpenIsIndexed'
  BY <1>2 DEF SessionsInv, OpenIsIndexed
<1>10. ClosingIsDestroyed' /\ TornDownIsIdle'
  BY <1>2, <1>3, <1>4, <1>5, <1>7 DEF SessionsInv, ClosingIsDestroyed, TornDownIsIdle
<1>11. \A d \in connections : username[d] # NoController => d \in connectionsByUsername[username[d]]
  BY DEF SessionsInv, OpenIsIndexed
<1>12. AuthenticatedIsPaired'
  <2> SUFFICES ASSUME NEW d \in connections, state'[d] = "authenticated"
               PROVE  pairedClients'[username[d]] # "none"
    BY <1>2 DEF AuthenticatedIsPaired
  <2>1. state[d] = "authenticated"
    BY <1>5, <1>7
  <2>2. username[d] \in Controllers /\ pairedClients[username[d]] # "none"
    BY <1>7, <2>1 DEF SessionsInv, SpeaksForOwner, AuthenticatedIsPaired
  <2>3. username[d] \notin removed
    BY <1>6, <1>11, <2>1, <2>2, PairingAssumption
  <2> QED
    BY <1>1, <2>2, <2>3
<1>13. UnpairedSessionsEnding'
  <2> SUFFICES ASSUME NEW d \in connections, username[d] \in Controllers,
                      pairedClients'[username[d]] = "none"
               PROVE  d \in destroyed' \/ state'[d] = "to be teared down"
    BY <1>2 DEF UnpairedSessionsEnding
  <2>1. CASE username[d] \in removed
    BY <1>4, <1>6, <1>11, <2>1, PairingAssumption DEF SessionsInv, ClosingIsDestroyed
  <2>2. CASE username[d] \notin removed
    <3>1. pairedClients[username[d]] = "none"
      BY <1>1, <2>2
    <3> QED
      BY <1>4, <1>5, <1>7, <3>1 DEF SessionsInv, UnpairedSessionsEnding
  <2> QED
    BY <2>1, <2>2
<1> QED
  BY <1>8, <1>9, <1>10, <1>12, <1>13 DEF SessionsInv

\* Every action preserves the parts about sessions.
LEMMA SessionsPreserved == IInv /\ TypeOK' /\ [Next]_vars => SessionsInv'
<1> SUFFICES ASSUME IInv, TypeOK', [Next]_vars PROVE SessionsInv'
  OBVIOUS
<1> USE DEF pairings
<1>1. TypeOK /\ SessionsInv /\ SavedIsCurrent
  BY DEF IInv, SessionsInv
<1>2. \A c \in Conns : pending[c] # "idle" => owner[c] \in Controllers
                                            /\ state[c] # "to be teared down"
  BY <1>1 DEF SessionsInv, SpeaksForOwner, TornDownIsIdle
<1>3. ASSUME NEW c \in Conns, NEW u \in Controllers, Accept(c, u) PROVE SessionsInv'
  BY <1>1, <1>3, AcceptPreserves
<1>4. ASSUME NEW c \in Conns, NEW request \in Requests, Arrive(c, request) PROVE SessionsInv'
  <2>1. owner[c] \in Controllers /\ state[c] # "to be teared down"
    BY <1>1, <1>4 DEF Arrive, Alive, SessionsInv, SpeaksForOwner
  <2>2. pending' = [pending EXCEPT ![c] = request] /\ UNCHANGED sessions /\ UNCHANGED pairedClients
    BY <1>4 DEF Arrive
  <2> QED
    BY <1>1, <2>1, <2>2, QuietStep
<1>5. ASSUME NEW c \in Conns, Close(c) PROVE SessionsInv'
  BY <1>1, <1>5, ClosePreserves
<1>6. ASSUME NEW c \in Conns, SocketClosed(c) PROVE SessionsInv'
  BY <1>1, <1>6, SocketClosedPreserves
<1>7. CASE Restart
  BY <1>7 DEF Restart, SessionsInv, SpeaksForOwner, OpenIsIndexed, ClosingIsDestroyed,
              TornDownIsIdle, AuthenticatedIsPaired, UnpairedSessionsEnding
<1>8. ASSUME NEW c \in Conns, Answer(c), UNCHANGED sessions,
             \A u \in Controllers : pairedClients'[u] = "none" => pairedClients[u] = "none"
      PROVE  SessionsInv'
  BY <1>1, <1>8, QuietStep DEF Answer
<1>9. ASSUME NEW c \in Conns,
             \/ PairSetupRefused(c) \/ KeyGenerated(c) \/ PairVerifyM1(c) \/ PairingsRefused(c)
             \/ \E proven \in BOOLEAN : PairSetupM3(c, proven)
      PROVE  SessionsInv'
  <2>1. Answer(c) /\ UNCHANGED sessions /\ UNCHANGED pairedClients
    BY <1>9 DEF PairSetupRefused, KeyGenerated, PairVerifyM1, PairingsRefused, PairSetupM3
  <2> QED
    BY <1>8, <2>1
<1>10. ASSUME NEW c \in Conns, PairSetupM1(c) PROVE SessionsInv'
  <2>1. pending' = [pending EXCEPT ![c] = "generating key"] /\ UNCHANGED sessions
        /\ UNCHANGED pairedClients
    BY <1>10 DEF PairSetupM1
  <2>2. owner[c] \in Controllers /\ state[c] # "to be teared down"
    BY <1>2, <1>10 DEF PairSetupM1, PairSetup
  <2> QED
    BY <1>1, <2>1, <2>2, QuietStep
<1>11. ASSUME NEW u \in Controllers, NEW permission \in Permissions,
              AddPairedClient(u, permission) \/ UpdatePermission(u, permission)
       PROVE  \A v \in Controllers : pairedClients'[v] = "none" => pairedClients[v] = "none"
  <2>1. pairedClients' = [pairedClients EXCEPT ![u] = permission]
    BY <1>11 DEF AddPairedClient, UpdatePermission
  <2>2. pairedClients \in [Controllers -> Permissions \cup {"none"}]
    BY <1>1 DEF TypeOK
  <2>3. permission # "none"
    BY DEF Permissions
  <2> QED
    BY <2>1, <2>2, <2>3
<1>12. ASSUME NEW c \in Conns, NEW proven \in BOOLEAN, PairSetupM5(c, proven) PROVE SessionsInv'
  <2>1. Answer(c) /\ UNCHANGED sessions
    BY <1>12 DEF PairSetupM5
  <2>2. CASE proven
    <3>1. owner[c] \in Controllers /\ "admin" \in Permissions
      BY <1>2, <1>12 DEF PairSetupM5, PairSetup, Permissions
    <3>2. AddPairedClient(owner[c], "admin")
      BY <1>12, <2>2 DEF PairSetupM5, InitialPairSetupFinished
    <3> QED
      BY <1>8, <1>11, <2>1, <3>1, <3>2
  <2>3. CASE ~proven
    BY <1>8, <1>12, <2>1, <2>3 DEF PairSetupM5
  <2> QED
    BY <2>2, <2>3
<1>13. ASSUME NEW c \in Conns, NEW proven \in BOOLEAN, PairVerifyM3(c, proven) PROVE SessionsInv'
  <2>1. CASE Authenticate(c) /\ pairedClients[owner[c]] # "none"
    BY <1>1, <1>13, <2>1, AuthenticatePreserves
  <2>2. CASE UNCHANGED sessions
    BY <1>8, <1>13, <2>2 DEF PairVerifyM3
  <2> QED
    BY <1>13, <2>1, <2>2 DEF PairVerifyM3
<1>14. ASSUME NEW c \in Conns, NEW u \in Controllers, NEW permission \in Permissions,
              AddPairing(c, u, permission)
       PROVE  SessionsInv'
  <2>1. Answer(c) /\ UNCHANGED sessions
    BY <1>14 DEF AddPairing
  <2>2. AddPairedClient(u, permission) \/ UpdatePermission(u, permission)
    BY <1>14 DEF AddPairing
  <2> QED
    BY <1>8, <1>11, <2>1, <2>2
<1>15. ASSUME NEW c \in Conns, NEW u \in Controllers, RemovePairing(c, u) PROVE SessionsInv'
  BY <1>1, <1>15, RemovePreserves
<1>16. CASE UNCHANGED vars
  BY <1>1, <1>16 DEF vars, sessions, protocol, SessionsInv, SpeaksForOwner, OpenIsIndexed,
                     ClosingIsDestroyed, TornDownIsIdle, AuthenticatedIsPaired,
                     UnpairedSessionsEnding
<1> QED
  BY <1>3, <1>4, <1>5, <1>6, <1>7, <1>9, <1>10, <1>12, <1>13, <1>14, <1>15, <1>16
     DEF Next, Handle

-----------------------------------------------------------------------------
(* The theorems.                                                           *)

\* The program starts in the invariant.
LEMMA InitIInv == Init => IInv
<1> SUFFICES ASSUME Init PROVE IInv
  OBVIOUS
<1>1. TypeOK
  BY DEF Init, TypeOK, Nobody
<1>2. Admins(pairedClients) = {}
  BY DEF Init, Nobody, Admins
<1>3. AdminsCounted /\ TriesLimited /\ SavedIsCurrent
  BY <1>2, FS_EmptySet, PairingAssumption DEF Init, AdminsCounted, TriesLimited, SavedIsCurrent
<1>4. SpeaksForOwner /\ OpenIsIndexed /\ ClosingIsDestroyed /\ TornDownIsIdle
  BY DEF Init, SpeaksForOwner, OpenIsIndexed, ClosingIsDestroyed, TornDownIsIdle
<1>5. AuthenticatedIsPaired /\ UnpairedSessionsEnding
  BY DEF Init, AuthenticatedIsPaired, UnpairedSessionsEnding
<1> QED
  BY <1>1, <1>3, <1>4, <1>5 DEF IInv

\* No step leaves it.
LEMMA NextIInv == IInv /\ [Next]_vars => IInv'
<1> SUFFICES ASSUME IInv, [Next]_vars PROVE IInv'
  OBVIOUS
<1>1. TypeOK /\ AdminsCounted /\ SpeaksForOwner
  BY DEF IInv
<1>2. TypeOK'
  BY <1>1, TypePreserved
<1>3. AdminsCounted' /\ TriesLimited' /\ SavedIsCurrent'
  BY CountersPreserved
<1>4. SessionsInv'
  BY <1>2, SessionsPreserved
<1> QED
  BY <1>2, <1>3, <1>4 DEF IInv, SessionsInv

\* Every behaviour stays in the invariant.
THEOREM AlwaysIInv == Spec => []IInv
  BY InitIInv, NextIInv, PTL DEF Spec

\* The state of the pairing server has its type: no handler that still runs for a connection
\* whose socket is gone writes what the others cannot read.
THEOREM TypeCorrect == Spec => []TypeOK
<1>1. IInv => TypeOK
  BY DEF IInv
<1> QED
  BY <1>1, AlwaysIInv, PTL

\* No verified session outlives the pairing of its client, for any number of controllers,
\* connections and attempts (isAuthenticated, destroyExistingConnectionsAfterUnpair).
THEOREM SessionsAlwaysPaired == Spec => []SessionsArePaired
<1>1. IInv => SessionsArePaired
  BY DEF IInv, SessionsArePaired
<1> QED
  BY <1>1, AlwaysIInv, PTL

\* The counter that decides whether all clients go with the last admin is right in every state,
\* and so is the bound of the attempts (pairedAdminClients, unsuccessfulPairAttempts).
THEOREM CountersAlwaysHold == Spec => []CountersHold
<1>1. IInv => CountersHold
  BY DEF IInv, CountersHold
<1> QED
  BY <1>1, AlwaysIInv, PTL

\* A client that becomes paired in a step is the first one and has proved the setup code, or was added
\* by a verified admin.
LEMMA PairedByRightStep ==
  ASSUME IInv, Next, NEW u \in Controllers, pairedClients[u] = "none", pairedClients'[u] # "none"
  PROVE  \/ Paired(pairedClients) = {} /\ \E c \in Conns : HasProved(c, u)
         \/ \E c \in Conns : pending[c] = "add pairing" /\ MayEditPairings(c)
<1>1. CASE Restart
  BY <1>1 DEF IInv, SavedIsCurrent, Restart
<1>2. ASSUME NEW c \in Conns, NEW proven \in BOOLEAN, PairSetupM5(c, proven)
      PROVE  Paired(pairedClients) = {} /\ HasProved(c, u)
  <2>1. owner[c] = u
    <3>1. DOMAIN pairedClients = Controllers
      BY DEF IInv, TypeOK
    <3>2. pairedClients' = pairedClients \/ pairedClients' = [pairedClients EXCEPT ![owner[c]] = "admin"]
      BY <1>2 DEF PairSetupM5, InitialPairSetupFinished, AddPairedClient, pairings
    <3> QED
      BY <3>1, <3>2
  <2> QED
    BY <1>2, <2>1 DEF PairSetupM5, PairSetup, MaySetUp, InSequence, HasProved
<1>3. ASSUME NEW c \in Conns, NEW v \in Controllers, NEW permission \in Permissions,
             AddPairing(c, v, permission)
      PROVE  pending[c] = "add pairing" /\ MayEditPairings(c)
  BY <1>3 DEF AddPairing
<1>4. ASSUME NEW c \in Conns, NEW v \in Controllers, RemovePairing(c, v)
      PROVE  FALSE
  <2>1. pairedClients'[u] = "none" \/ pairedClients'[u] = pairedClients[u]
    BY <1>4 DEF RemovePairing, RemovePairedClient
  <2> QED
    BY <2>1
<1>5. ASSUME NEW c \in Conns,
             \/ \E v \in Controllers : Accept(c, v)
             \/ \E request \in Requests : Arrive(c, request)
             \/ Close(c) \/ SocketClosed(c)
             \/ PairSetupRefused(c) \/ PairSetupM1(c) \/ KeyGenerated(c) \/ PairVerifyM1(c)
             \/ \E proven \in BOOLEAN : PairSetupM3(c, proven) \/ PairVerifyM3(c, proven)
             \/ PairingsRefused(c)
      PROVE  FALSE
  BY <1>5 DEF Accept, Arrive, Close, SocketClosed, PairSetupRefused, PairSetupM1, PairSetupM3,
              KeyGenerated, PairVerifyM1, PairVerifyM3, PairingsRefused, pairings
<1> QED
  BY <1>1, <1>2, <1>3, <1>4, <1>5 DEF Next, Handle

\* Somebody becomes paired only with an accessory nobody is paired with, by its own connection on which
\* its proof of the setup code was accepted, or by a request of an admin's verified connection; and a
\* restart brings back nobody who was removed (handlePairSetupM5, handlePairings).
THEOREM AlwaysPairedByRight == Spec => PairedByRight
<1> DEFINE ByRight == \A u \in Controllers :
                        pairedClients[u] = "none" /\ pairedClients'[u] # "none"
                          => \/ Paired(pairedClients) = {} /\ \E c \in Conns : HasProved(c, u)
                             \/ \E c \in Conns : pending[c] = "add pairing" /\ MayEditPairings(c)
<1>1. IInv /\ [Next]_vars => [ByRight]_vars
  <2> SUFFICES ASSUME IInv, Next PROVE ByRight
    OBVIOUS
  <2> QED
    BY PairedByRightStep
<1> QED
  BY <1>1, AlwaysIInv, PTL DEF Spec, PairedByRight

-----------------------------------------------------------------------------
(* The encoding of pairing messages (TLV8).                                *)

\* The entries the encoder writes.
WireEntries == {e \in [type : Nat, length : Nat, data : Seq(Nat), whole : BOOLEAN] : e = WireEntry(e.type, e.data)}

\* What decode has of an entry type.
ValueOf(read, t) == IF t \in DOMAIN read THEN read[t] ELSE <<>>

\* decode puts the data of each type together, and finds nothing of the others.
JoinsBack(wire, es) ==
  /\ \A k \in 1..Len(es) : es[k].type \in DOMAIN JoinedAll(wire)
                           /\ ValueOf(JoinedAll(wire), es[k].type) = Concatenated(es[k].items)
  /\ \A t \in Nat : (\A k \in 1..Len(es) : es[k].type # t) => ValueOf(JoinedAll(wire), t) = <<>>

\* decodeWithLists has the items of each type.
ListsBack(r, es) ==
  /\ ~r.failed /\ ~r.delimited
  /\ r.result = [t \in {es[k].type : k \in 1..Len(es)} |-> r.result[t]]
  /\ \A k \in 1..Len(es) : r.result[es[k].type] = es[k].items

\* The first entry written is the first one read, and the only one of its type if it is short.
BeginsApart(wire, es) ==
  /\ es = <<>> => wire = <<>>
  /\ es # <<>> =>
       /\ wire # <<>> /\ wire[1].type = es[1].type
       /\ es[1].type # 0 /\ Len(es[1].items) = 1 /\ Len(es[1].items[1]) <= MaxLength =>
            \A k \in 2..Len(wire) : wire[k].type # es[1].type

AmbiguousIn(es) == \E k \in 1..Len(es) : es[k].type = 0 /\ Contains(es[k].items, <<>>)

\* What the entries of a message tell of what was encoded.
Wired(wire, es) ==
  /\ wire \in Seq(WireEntries)
  /\ JoinsBack(wire, es)
  /\ ~AmbiguousIn(es) => ListsBack(ListedAll(wire), es)
  /\ BeginsApart(wire, es)

Different(es) == \A j, k \in 1..Len(es) : j # k => es[j].type # es[k].type

TLVIInv ==
  /\ TLVTypeOK /\ Different(entries)
  /\ tlv = Bytes(EntriesOf(tlv)) /\ Wired(EntriesOf(tlv), entries)

-----------------------------------------------------------------------------
(* The recursions of the model, all in one: what each begins with, and     *)
(* what its step makes of the result so far, the index and the element.    *)
Base(what) ==
  CASE what = "item"       -> [at |-> 0, wire |-> <<>>]
    [] what \in {"items", "bytes", "concatenated"} -> <<>>
    [] what = "met"        -> [position |-> 0, met |-> <<>>]
    [] what = "joined"     -> NothingRead
    [] what = "listed"     -> NothingListed
    [] what = "structured" -> NoStructure

Step(what, a, b, x, k, e) ==
  CASE what = "item"         -> Continue(a, b, x)
    [] what = "items"        -> x \o (IF k > 1 THEN <<Delimiter>> ELSE <<>>) \o EncodeItem(a, e)
    [] what = "bytes"        -> x \o (<<e.type, e.length>> \o e.data)
    [] what = "concatenated" -> x \o e
    [] what = "met"          -> ReadEntry(a, x)
    [] what = "joined"       -> Joined(x, e)
    [] what = "listed"       -> Listed(x, e)
    [] what = "structured"   -> Structured(a, x, e)

Run(f, what, a, b, s, n) ==
  f = [k \in 0..n |-> IF k = 0 THEN Base(what) ELSE Step(what, a, b, f[k - 1], k, s[k])]

LEMMA RunExists ==
  ASSUME NEW what, NEW a, NEW b, NEW s, NEW N \in Nat
  PROVE  \E f : Run(f, what, a, b, s, N)
<1> DEFINE Reached == {n \in 0..N : \E f : Run(f, what, a, b, s, n)}
           Made(x, k) == Step(what, a, b, x, k, s[k])
<1>1. 0 \in Reached
  <2>1. Run([k \in 0..0 |-> Base(what)], what, a, b, s, 0)
    BY DEF Run
  <2> QED
    BY <2>1
<1>2. ASSUME NEW n \in 1..N, n - 1 \in Reached PROVE n \in Reached
  <2>1. PICK f : Run(f, what, a, b, s, n - 1)
    BY <1>2
  <2>0. \A k \in 0..(n - 1) : f[k] = IF k = 0 THEN Base(what) ELSE Made(f[k - 1], k)
    BY <2>1 DEF Run
  <2> DEFINE g == [k \in 0..n |-> IF k = n THEN Made(f[n - 1], n) ELSE f[k]]
  <2>2. ASSUME NEW k \in 0..n
        PROVE  g[k] = IF k = 0 THEN Base(what) ELSE Made(g[k - 1], k)
    <3> HIDE DEF Made
    <3>1. CASE k = 0
      BY <2>0, <3>1
    <3>2. CASE k # 0
      <4>1. k - 1 \in 0..(n - 1) /\ g[k - 1] = f[k - 1]
        BY <3>2
      <4>2. CASE k = n
        BY <3>2, <4>1, <4>2
      <4>3. CASE k # n
        <5>1. k \in 0..(n - 1)
          BY <4>3
        <5> QED
          BY <2>0, <3>2, <4>1, <4>3, <5>1
      <4> QED
        BY <4>2, <4>3
    <3> QED
      BY <3>1, <3>2
  <2>3. Run(g, what, a, b, s, n)
    BY <2>2 DEF Run
  <2> HIDE DEF g
  <2> QED
    BY <2>3
<1>3. 0..N \subseteq Reached
  <2> HIDE DEF Reached
  <2> QED
    BY <1>1, <1>2, InductionUpTo
<1>4. N \in 0..N
  OBVIOUS
<1> QED
  BY <1>3, <1>4

\* A run over the first elements does not depend on those that follow.
LEMMA RunAgrees ==
  ASSUME NEW what, NEW a, NEW b, NEW f, NEW g, NEW s, NEW t, NEW m \in Nat, NEW n \in 0..m,
         Run(f, what, a, b, s, m), Run(g, what, a, b, t, n), \A i \in 1..n : s[i] = t[i]
  PROVE  f[n] = g[n]
<1> DEFINE Same == {k \in 0..n : f[k] = g[k]}
<1>1. /\ \A k \in 0..m : f[k] = IF k = 0 THEN Base(what) ELSE Step(what, a, b, f[k - 1], k, s[k])
      /\ \A k \in 0..n : g[k] = IF k = 0 THEN Base(what) ELSE Step(what, a, b, g[k - 1], k, t[k])
  BY DEF Run
<1>2. 0 \in Same
  BY <1>1
<1>3. ASSUME NEW k \in 1..n, k - 1 \in Same PROVE k \in Same
  <2>1. k \in 0..m /\ k \in 0..n /\ k # 0 /\ f[k - 1] = g[k - 1] /\ s[k] = t[k]
    BY <1>3
  <2> QED
    BY <1>1, <2>1
<1>4. 0..n \subseteq Same
  <2> HIDE DEF Same
  <2> QED
    BY <1>2, <1>3, InductionUpTo
<1>5. n \in 0..n
  OBVIOUS
<1> QED
  BY <1>4, <1>5

\* What a run over s ends with.
Result(what, a, b, s) == (CHOOSE f : Run(f, what, a, b, s, Len(s)))[Len(s)]

LEMMA ResultOfRun ==
  ASSUME NEW what, NEW a, NEW b, NEW s, Len(s) \in Nat, NEW f, Run(f, what, a, b, s, Len(s))
  PROVE  f[Len(s)] = Result(what, a, b, s)
<1> DEFINE g == CHOOSE h : Run(h, what, a, b, s, Len(s))
<1>1. Run(g, what, a, b, s, Len(s))
  OBVIOUS
<1>2. Result(what, a, b, s) = g[Len(s)]
  BY DEF Result
<1> HIDE DEF g
<1>3. Len(s) \in 0..Len(s)
  OBVIOUS
<1>4. f[Len(s)] = g[Len(s)]
  BY <1>1, <1>3, RunAgrees
<1> QED
  BY <1>2, <1>4

LEMMA ResultBegins ==
  ASSUME NEW what, NEW a, NEW b
  PROVE  Result(what, a, b, <<>>) = Base(what)
<1>1. PICK f : Run(f, what, a, b, <<>>, 0)
  BY RunExists
<1>2. Len(<<>>) = 0
  BY EmptySeq
<1>3. f[0] = Base(what)
  BY <1>1 DEF Run
<1> QED
  BY <1>1, <1>2, <1>3, ResultOfRun

LEMMA ResultGoesOn ==
  ASSUME NEW what, NEW a, NEW b, NEW S, NEW s \in Seq(S), NEW e \in S
  PROVE  Result(what, a, b, Append(s, e)) = Step(what, a, b, Result(what, a, b, s), Len(s) + 1, e)
<1> DEFINE n == Len(s)
           t == Append(s, e)
<1>1. n \in Nat /\ Len(t) = n + 1 /\ (\A i \in 1..n : t[i] = s[i]) /\ t[n + 1] = e
  BY AppendProperties, LenProperties
<1> HIDE DEF n, t
<1>2. PICK m : m = n + 1
  OBVIOUS
<1>3. m \in Nat /\ n \in 0..m /\ m \in 0..m /\ m # 0 /\ m - 1 = n /\ Len(t) = m /\ t[m] = e
  BY <1>1, <1>2
<1>4. PICK f : Run(f, what, a, b, t, m)
  BY <1>3, RunExists
<1>5. PICK g : Run(g, what, a, b, s, n)
  BY <1>1, RunExists
<1>6. f[n] = g[n]
  BY <1>1, <1>3, <1>4, <1>5, RunAgrees
<1>7. f[m] = Step(what, a, b, f[m - 1], m, t[m])
  BY <1>3, <1>4 DEF Run
<1>8. f[m] = Result(what, a, b, t)
  BY <1>3, <1>4, ResultOfRun
<1>9. g[n] = Result(what, a, b, s)
  BY <1>1, <1>5, ResultOfRun DEF n
<1>10. Result(what, a, b, t) = Step(what, a, b, Result(what, a, b, s), m, e)
  BY <1>3, <1>6, <1>7, <1>8, <1>9
<1> QED
  BY <1>2, <1>10 DEF n, t

-----------------------------------------------------------------------------
(* Each recursion of the model is a run.                                   *)
LEMMA BytesComputed ==
  ASSUME NEW s, Len(s) \in Nat
  PROVE  Bytes(s) = Result("bytes", 0, 0, s)
<1> DEFINE F(f) == f = [k \in 0..Len(s) |-> IF k = 0 THEN <<>> ELSE f[k - 1] \o (<<s[k].type, s[k].length>> \o s[k].data)]
           after == CHOOSE f : F(f)
<1>1. PICK g : Run(g, "bytes", 0, 0, s, Len(s))
  BY RunExists
<1>2. \A f : F(f) <=> Run(f, "bytes", 0, 0, s, Len(s))
  BY DEF Run, Base, Step
<1>3. Bytes(s) = after[Len(s)]
  BY DEF Bytes
<1> HIDE DEF F
<1>4. F(after)
  BY <1>1, <1>2
<1> HIDE DEF after
<1> QED
  BY <1>2, <1>3, <1>4, ResultOfRun

LEMMA ConcatenatedComputed ==
  ASSUME NEW s, Len(s) \in Nat
  PROVE  Concatenated(s) = Result("concatenated", 0, 0, s)
<1> DEFINE F(f) == f = [k \in 0..Len(s) |-> IF k = 0 THEN <<>> ELSE f[k - 1] \o s[k]]
           after == CHOOSE f : F(f)
<1>1. PICK g : Run(g, "concatenated", 0, 0, s, Len(s))
  BY RunExists
<1>2. \A f : F(f) <=> Run(f, "concatenated", 0, 0, s, Len(s))
  BY DEF Run, Base, Step
<1>3. Concatenated(s) = after[Len(s)]
  BY DEF Concatenated
<1> HIDE DEF F
<1>4. F(after)
  BY <1>1, <1>2
<1> HIDE DEF after
<1> QED
  BY <1>2, <1>3, <1>4, ResultOfRun

LEMMA JoinedComputed ==
  ASSUME NEW s, Len(s) \in Nat
  PROVE  JoinedAll(s) = Result("joined", 0, 0, s)
<1> DEFINE F(f) == f = [k \in 0..Len(s) |-> IF k = 0 THEN NothingRead ELSE Joined(f[k - 1], s[k])]
           after == CHOOSE f : F(f)
<1>1. PICK g : Run(g, "joined", 0, 0, s, Len(s))
  BY RunExists
<1>2. \A f : F(f) <=> Run(f, "joined", 0, 0, s, Len(s))
  BY DEF Run, Base, Step
<1>3. JoinedAll(s) = after[Len(s)]
  BY DEF JoinedAll
<1> HIDE DEF F
<1>4. F(after)
  BY <1>1, <1>2
<1> HIDE DEF after
<1> QED
  BY <1>2, <1>3, <1>4, ResultOfRun

LEMMA ListedComputed ==
  ASSUME NEW s, Len(s) \in Nat
  PROVE  ListedAll(s) = Result("listed", 0, 0, s)
<1> DEFINE F(f) == f = [k \in 0..Len(s) |-> IF k = 0 THEN NothingListed ELSE Listed(f[k - 1], s[k])]
           after == CHOOSE f : F(f)
<1>1. PICK g : Run(g, "listed", 0, 0, s, Len(s))
  BY RunExists
<1>2. \A f : F(f) <=> Run(f, "listed", 0, 0, s, Len(s))
  BY DEF Run, Base, Step
<1>3. ListedAll(s) = after[Len(s)]
  BY DEF ListedAll
<1> HIDE DEF F
<1>4. F(after)
  BY <1>1, <1>2
<1> HIDE DEF after
<1> QED
  BY <1>2, <1>3, <1>4, ResultOfRun

LEMMA StructuredComputed ==
  ASSUME NEW start, NEW s, Len(s) \in Nat
  PROVE  StructuredAll(start, s) = Result("structured", start, 0, s)
<1> DEFINE F(f) == f = [k \in 0..Len(s) |-> IF k = 0 THEN NoStructure ELSE Structured(start, f[k - 1], s[k])]
           after == CHOOSE f : F(f)
<1>1. PICK g : Run(g, "structured", start, 0, s, Len(s))
  BY RunExists
<1>2. \A f : F(f) <=> Run(f, "structured", start, 0, s, Len(s))
  BY DEF Run, Base, Step
<1>3. StructuredAll(start, s) = after[Len(s)]
  BY DEF StructuredAll
<1> HIDE DEF F
<1>4. F(after)
  BY <1>1, <1>2
<1> HIDE DEF after
<1> QED
  BY <1>2, <1>3, <1>4, ResultOfRun

LEMMA ItemsComputed ==
  ASSUME NEW type, NEW s, Len(s) \in Nat
  PROVE  EncodeItems(type, s) = Result("items", type, 0, s)
<1> DEFINE F(f) == f = [k \in 0..Len(s) |-> IF k = 0 THEN <<>> ELSE f[k - 1] \o (IF k > 1 THEN <<Delimiter>> ELSE <<>>) \o EncodeItem(type, s[k])]
           after == CHOOSE f : F(f)
<1>1. PICK g : Run(g, "items", type, 0, s, Len(s))
  BY RunExists
<1>2. \A f : F(f) <=> Run(f, "items", type, 0, s, Len(s))
  BY DEF Run, Base, Step
<1>3. EncodeItems(type, s) = after[Len(s)]
  BY DEF EncodeItems
<1> HIDE DEF F
<1>4. F(after)
  BY <1>1, <1>2
<1> HIDE DEF after
<1> QED
  BY <1>2, <1>3, <1>4, ResultOfRun

LEMMA EmptyRuns ==
  /\ Bytes(<<>>) = <<>> /\ Concatenated(<<>>) = <<>> /\ JoinedAll(<<>>) = NothingRead
  /\ ListedAll(<<>>) = NothingListed
  /\ \A start : StructuredAll(start, <<>>) = NoStructure
  /\ \A type : EncodeItems(type, <<>>) = <<>>
<1>1. Len(<<>>) \in Nat
  BY EmptySeq
<1>2. Bytes(<<>>) = <<>>
  BY <1>1, BytesComputed, ResultBegins DEF Base
<1>3. Concatenated(<<>>) = <<>>
  BY <1>1, ConcatenatedComputed, ResultBegins DEF Base
<1>4. JoinedAll(<<>>) = NothingRead
  BY <1>1, JoinedComputed, ResultBegins DEF Base
<1>5. ListedAll(<<>>) = NothingListed
  BY <1>1, ListedComputed, ResultBegins DEF Base
<1>6. \A start : StructuredAll(start, <<>>) = NoStructure
  BY <1>1, StructuredComputed, ResultBegins DEF Base
<1>7. \A type : EncodeItems(type, <<>>) = <<>>
  BY <1>1, ItemsComputed, ResultBegins DEF Base
<1> QED
  BY <1>2, <1>3, <1>4, <1>5, <1>6, <1>7

\* The bytes of one entry.
One(e) == <<e.type, e.length>> \o e.data

LEMMA BytesGoOn ==
  ASSUME NEW S, NEW s \in Seq(S), NEW e \in S
  PROVE  Bytes(Append(s, e)) = Bytes(s) \o One(e)
<1>1. Len(s) \in Nat /\ Len(Append(s, e)) \in Nat /\ (Len(s) + 1 > 1 <=> s # <<>>)
  BY AppendProperties, LenProperties, EmptySeq
<1> DEFINE m == Len(s) + 1
           t == Append(s, e)
<1>2. Result("bytes", 0, 0, t) = Step("bytes", 0, 0, Result("bytes", 0, 0, s), m, e)
  BY ResultGoesOn
<1> HIDE DEF m, t
<1> QED
  BY <1>1, <1>2, BytesComputed DEF Step, m, t, One

LEMMA ConcatenatedGoesOn ==
  ASSUME NEW S, NEW s \in Seq(S), NEW e \in S
  PROVE  Concatenated(Append(s, e)) = Concatenated(s) \o e
<1>1. Len(s) \in Nat /\ Len(Append(s, e)) \in Nat /\ (Len(s) + 1 > 1 <=> s # <<>>)
  BY AppendProperties, LenProperties, EmptySeq
<1> DEFINE m == Len(s) + 1
           t == Append(s, e)
<1>2. Result("concatenated", 0, 0, t) = Step("concatenated", 0, 0, Result("concatenated", 0, 0, s), m, e)
  BY ResultGoesOn
<1> HIDE DEF m, t
<1> QED
  BY <1>1, <1>2, ConcatenatedComputed DEF Step, m, t

LEMMA JoinedGoesOn ==
  ASSUME NEW S, NEW s \in Seq(S), NEW e \in S
  PROVE  JoinedAll(Append(s, e)) = Joined(JoinedAll(s), e)
<1>1. Len(s) \in Nat /\ Len(Append(s, e)) \in Nat /\ (Len(s) + 1 > 1 <=> s # <<>>)
  BY AppendProperties, LenProperties, EmptySeq
<1> DEFINE m == Len(s) + 1
           t == Append(s, e)
<1>2. Result("joined", 0, 0, t) = Step("joined", 0, 0, Result("joined", 0, 0, s), m, e)
  BY ResultGoesOn
<1> HIDE DEF m, t
<1> QED
  BY <1>1, <1>2, JoinedComputed DEF Step, m, t

LEMMA ListedGoesOn ==
  ASSUME NEW S, NEW s \in Seq(S), NEW e \in S
  PROVE  ListedAll(Append(s, e)) = Listed(ListedAll(s), e)
<1>1. Len(s) \in Nat /\ Len(Append(s, e)) \in Nat /\ (Len(s) + 1 > 1 <=> s # <<>>)
  BY AppendProperties, LenProperties, EmptySeq
<1> DEFINE m == Len(s) + 1
           t == Append(s, e)
<1>2. Result("listed", 0, 0, t) = Step("listed", 0, 0, Result("listed", 0, 0, s), m, e)
  BY ResultGoesOn
<1> HIDE DEF m, t
<1> QED
  BY <1>1, <1>2, ListedComputed DEF Step, m, t

LEMMA StructuredGoesOn ==
  ASSUME NEW start, NEW S, NEW s \in Seq(S), NEW e \in S
  PROVE  StructuredAll(start, Append(s, e)) = Structured(start, StructuredAll(start, s), e)
<1>1. Len(s) \in Nat /\ Len(Append(s, e)) \in Nat /\ (Len(s) + 1 > 1 <=> s # <<>>)
  BY AppendProperties, LenProperties, EmptySeq
<1> DEFINE m == Len(s) + 1
           t == Append(s, e)
<1>2. Result("structured", start, 0, t) = Step("structured", start, 0, Result("structured", start, 0, s), m, e)
  BY ResultGoesOn
<1> HIDE DEF m, t
<1> QED
  BY <1>1, <1>2, StructuredComputed DEF Step, m, t

LEMMA ItemsGoOn ==
  ASSUME NEW type, NEW S, NEW s \in Seq(S), NEW e \in S
  PROVE  EncodeItems(type, Append(s, e)) = EncodeItems(type, s) \o (IF s # <<>> THEN <<Delimiter>> ELSE <<>>) \o EncodeItem(type, e)
<1>1. Len(s) \in Nat /\ Len(Append(s, e)) \in Nat /\ (Len(s) + 1 > 1 <=> s # <<>>)
  BY AppendProperties, LenProperties, EmptySeq
<1> DEFINE m == Len(s) + 1
           t == Append(s, e)
<1>2. Result("items", type, 0, t) = Step("items", type, 0, Result("items", type, 0, s), m, e)
  BY ResultGoesOn
<1> HIDE DEF m, t
<1> QED
  BY <1>1, <1>2, ItemsComputed DEF Step, m, t

-----------------------------------------------------------------------------
\* What holds of the empty sequence and is kept by Append holds of every sequence.
LEMMA SequenceInduction ==
  ASSUME NEW S, NEW Good, <<>> \in Good,
         \A s \in Seq(S), e \in S : s \in Good => Append(s, e) \in Good
  PROVE  \A s \in Seq(S) : s \in Good
<1> SUFFICES ASSUME NEW t \in Seq(S) PROVE t \in Good
  OBVIOUS
<1> DEFINE N == Len(t)
           Reached == {n \in 0..N : \A s \in Seq(S) : Len(s) = n => s \in Good}
<1>1. N \in Nat
  BY LenProperties
<1> HIDE DEF N
<1>2. 0 \in Reached
  <2>1. ASSUME NEW s \in Seq(S), Len(s) = 0 PROVE s \in Good
    <3>1. s = <<>>
      BY <2>1, EmptySeq
    <3> QED
      BY <3>1
  <2> QED
    BY <1>1, <2>1
<1>3. ASSUME NEW n \in 1..N, n - 1 \in Reached PROVE n \in Reached
  <2>1. ASSUME NEW s \in Seq(S), Len(s) = n PROVE s \in Good
    <3>1. s # <<>>
      BY <2>1, EmptySeq
    <3>2. PICK r \in Seq(S), e \in S : s = Append(r, e)
      BY <3>1, SequenceEmptyOrAppend
    <3>3. Len(s) = Len(r) + 1 /\ Len(r) \in Nat
      BY <3>2, AppendProperties, LenProperties
    <3>4. Len(r) = n - 1
      BY <2>1, <3>3
    <3>5. r \in Good
      BY <1>3, <3>4
    <3> QED
      BY <3>2, <3>5
  <2> QED
    BY <2>1
<1>4. 0..N \subseteq Reached
  <2> HIDE DEF Reached
  <2> QED
    BY <1>1, <1>2, <1>3, InductionUpTo
<1>5. N \in 0..N
  BY <1>1
<1> QED
  BY <1>4, <1>5 DEF N

LEMMA WireEntryTyped ==
  /\ \A t \in Nat : \A data \in Seq(Nat) :
       /\ WireEntry(t, data) \in WireEntries
       /\ WireEntry(t, data).type = t /\ WireEntry(t, data).data = data
       /\ WireEntry(t, data).length = Len(data) /\ WireEntry(t, data).whole
  /\ \A e \in WireEntries : /\ e.type \in Nat /\ e.data \in Seq(Nat) /\ e.length = Len(e.data)
                            /\ e.length \in Nat /\ e.whole /\ e = WireEntry(e.type, e.data)
<1>1. \A data \in Seq(Nat) : Len(data) \in Nat
  BY LenProperties
<1> QED
  BY <1>1 DEF WireEntries, WireEntry

LEMMA OneTyped ==
  ASSUME NEW e \in WireEntries
  PROVE  /\ One(e) \in Seq(Nat) /\ Len(One(e)) = 2 + e.length
         /\ One(e)[1] = e.type /\ One(e)[2] = e.length
         /\ \A i \in 1..e.length : One(e)[2 + i] = e.data[i]
<1>1. e.type \in Nat /\ e.data \in Seq(Nat) /\ e.length = Len(e.data) /\ e.length \in Nat
  BY WireEntryTyped
<1> DEFINE h == <<e.type, e.length>>
           d == e.data
<1>2. h \in Seq(Nat) /\ Len(h) = 2 /\ h[1] = e.type /\ h[2] = e.length
  BY <1>1
<1>3. d \in Seq(Nat) /\ Len(d) = e.length
  BY <1>1
<1>4. One(e) = h \o d
  BY DEF One
<1> HIDE DEF h, d
<1>5. /\ h \o d \in Seq(Nat) /\ Len(h \o d) = 2 + e.length
      /\ \A i \in 1..(2 + e.length) : (h \o d)[i] = IF i <= 2 THEN h[i] ELSE d[i - 2]
  <2>1. /\ h \o d \in Seq(Nat) /\ Len(h \o d) = Len(h) + Len(d)
        /\ \A i \in 1 .. Len(h) + Len(d) : (h \o d)[i] = IF i <= Len(h) THEN h[i] ELSE d[i - Len(h)]
    BY <1>2, <1>3, ConcatProperties
  <2> QED
    BY <1>2, <1>3, <2>1
<1>6. \A i \in 1..e.length : 2 + i \in 1..(2 + e.length) /\ ~(2 + i <= 2) /\ (2 + i) - 2 = i
  BY <1>1
<1>7. 1 \in 1..(2 + e.length) /\ 2 \in 1..(2 + e.length)
  BY <1>1
<1> DEFINE x == h \o d
<1> HIDE DEF x
<1>8. x \in Seq(Nat) /\ Len(x) = 2 + e.length /\ x[1] = e.type /\ x[2] = e.length
  BY <1>2, <1>5, <1>7 DEF x
<1>9. \A i \in 1..e.length : x[2 + i] = d[i]
  BY <1>5, <1>6 DEF x
<1>10. One(e) = x
  BY <1>4 DEF x
<1> HIDE DEF One
<1> QED
  BY <1>8, <1>9, <1>10 DEF d

LEMMA BytesTyped == \A w \in Seq(WireEntries) : Bytes(w) \in Seq(Nat)
<1> DEFINE Good == {w \in Seq(WireEntries) : Bytes(w) \in Seq(Nat)}
<1>1. <<>> \in Good
  BY EmptyRuns, EmptySeq
<1>2. ASSUME NEW w \in Seq(WireEntries), NEW e \in WireEntries, w \in Good
      PROVE  Append(w, e) \in Good
  <2>1. Bytes(Append(w, e)) = Bytes(w) \o One(e)
    BY BytesGoOn
  <2>2. Bytes(w) \o One(e) \in Seq(Nat)
    BY <1>2, OneTyped, ConcatProperties
  <2> QED
    BY <2>1, <2>2, AppendProperties
<1> HIDE DEF Good
<1>3. \A w \in Seq(WireEntries) : w \in Good
  BY <1>1, <1>2, SequenceInduction
<1> QED
  BY <1>3 DEF Good

LEMMA AppendToConcat ==
  ASSUME NEW S, NEW u \in Seq(S), NEW w \in Seq(S), NEW e \in S
  PROVE  u \o Append(w, e) = Append(u \o w, e) /\ u \o w \in Seq(S)
<1>1. Append(w, e) = w \o <<e>> /\ <<e>> \in Seq(S)
  BY AppendIsConcat
<1>2. u \o w \in Seq(S) /\ Append(u \o w, e) = (u \o w) \o <<e>>
  BY ConcatProperties, AppendIsConcat
<1>3. u \o (w \o <<e>>) = (u \o w) \o <<e>>
  BY <1>1, ConcatAssociative
<1> QED
  BY <1>1, <1>2, <1>3

LEMMA BytesAssociate == \A x, y, z \in Seq(Nat) : (x \o y) \o z = x \o (y \o z)
BY ConcatAssociative

LEMMA BytesOfConcat ==
  ASSUME NEW u \in Seq(WireEntries)
  PROVE  \A w \in Seq(WireEntries) : Bytes(u \o w) = Bytes(u) \o Bytes(w)
<1> DEFINE Good == {w \in Seq(WireEntries) : Bytes(u \o w) = Bytes(u) \o Bytes(w)}
<1>0. Bytes(u) \in Seq(Nat)
  BY BytesTyped
<1>1. <<>> \in Good
  BY <1>0, EmptyRuns, EmptySeq, ConcatEmptySeq
<1>2. ASSUME NEW w \in Seq(WireEntries), NEW e \in WireEntries, w \in Good
      PROVE  Append(w, e) \in Good
  <2>1. Bytes(Append(w, e)) = Bytes(w) \o One(e)
    BY BytesGoOn
  <2>2. Bytes(u \o Append(w, e)) = Bytes(u \o w) \o One(e)
    <3> DEFINE uw == u \o w
    <3>1. uw \in Seq(WireEntries) /\ u \o Append(w, e) = Append(uw, e)
      BY AppendToConcat
    <3> HIDE DEF uw
    <3>2. Bytes(Append(uw, e)) = Bytes(uw) \o One(e)
      BY <3>1, BytesGoOn
    <3> QED
      BY <3>1, <3>2 DEF uw
  <2>3. (Bytes(u) \o Bytes(w)) \o One(e) = Bytes(u) \o (Bytes(w) \o One(e))
    <3> DEFINE a == Bytes(u)
               b == Bytes(w)
               c == One(e)
    <3>1. a \in Seq(Nat) /\ b \in Seq(Nat) /\ c \in Seq(Nat)
      BY <1>0, BytesTyped, OneTyped
    <3> HIDE DEF a, b, c
    <3>2. (a \o b) \o c = a \o (b \o c)
      BY <3>1, BytesAssociate
    <3> QED
      BY <3>2 DEF a, b, c
  <2> QED
    BY <1>2, <2>1, <2>2, <2>3, AppendProperties
<1> HIDE DEF Good
<1>3. \A w \in Seq(WireEntries) : w \in Good
  BY <1>1, <1>2, SequenceInduction
<1> QED
  BY <1>3 DEF Good

-----------------------------------------------------------------------------
(* What is read of the bytes of some entries, or of the beginning of them. *)

UpTo(w, j) == SubSeq(w, 1, j)
At(w, j) == Len(Bytes(UpTo(w, j)))

LEMMA Prefixed ==
  ASSUME NEW S, NEW w \in Seq(S)
  PROVE  /\ Len(w) \in Nat
         /\ UpTo(w, 0) = <<>> /\ UpTo(w, Len(w)) = w
         /\ \A j \in 0..Len(w) : UpTo(w, j) \in Seq(S) /\ Len(UpTo(w, j)) = j
         /\ \A j \in 1..Len(w) : /\ w[j] \in S /\ UpTo(w, j) = Append(UpTo(w, j - 1), w[j])
                                 /\ \A i \in 1..j : UpTo(w, j)[i] = w[i]
<1>1. Len(w) \in Nat /\ \A j \in 1..Len(w) : w[j] \in S
  BY LenProperties, ElementOfSeq
<1>2. UpTo(w, 0) = <<>>
  BY SubSeqEmpty DEF UpTo
<1>3. UpTo(w, Len(w)) = w
  BY SubSeqFull DEF UpTo
<1>4. ASSUME NEW j \in 0..Len(w)
      PROVE  /\ UpTo(w, j) \in Seq(S) /\ Len(UpTo(w, j)) = j
             /\ \A i \in 1..j : UpTo(w, j)[i] = w[i]
  <2>1. \A i \in 1..j : w[i] \in S
    BY <1>1
  <2>2. /\ SubSeq(w, 1, j) \in Seq(S)
        /\ Len(SubSeq(w, 1, j)) = IF 1 <= j THEN j - 1 + 1 ELSE 0
        /\ \A i \in 1..(j - 1 + 1) : SubSeq(w, 1, j)[i] = w[1 + i - 1]
    BY <2>1, SubSeqProperties
  <2>3. \A i \in 1..j : i \in 1..(j - 1 + 1) /\ 1 + i - 1 = i
    OBVIOUS
  <2> QED
    BY <2>2, <2>3 DEF UpTo
<1>5. ASSUME NEW j \in 1..Len(w)
      PROVE  UpTo(w, j) = Append(UpTo(w, j - 1), w[j])
  <2>1. 1 \in 1..Len(w) /\ j \in 1..Len(w) /\ j - 1 \in 0..Len(w)
    BY <1>1
  <2>2. UpTo(w, j) = UpTo(w, j - 1) \o <<w[j]>>
    BY <2>1, SubSeqRecursiveSecond DEF UpTo
  <2>3. UpTo(w, j - 1) \in Seq(S) /\ w[j] \in S
    BY <1>1, <1>4, <2>1
  <2> QED
    BY <2>2, <2>3, AppendIsConcat
<1>6. \A j \in 1..Len(w) : j \in 0..Len(w)
  BY <1>1
<1> QED
  BY <1>1, <1>2, <1>3, <1>4, <1>5, <1>6

LEMMA Positions ==
  ASSUME NEW w \in Seq(WireEntries)
  PROVE  /\ At(w, 0) = 0 /\ At(w, Len(w)) = Len(Bytes(w))
         /\ \A j \in 0..Len(w) : At(w, j) \in Nat /\ j <= At(w, j)
         /\ \A j \in 1..Len(w) : /\ w[j].length \in Nat
                                 /\ At(w, j) = At(w, j - 1) + 2 + w[j].length
         /\ \A j \in 0..Len(w) : \A i \in 0..j : At(w, i) <= At(w, j)
<1> DEFINE N == Len(w)
<1>1. /\ N \in Nat /\ UpTo(w, 0) = <<>> /\ UpTo(w, N) = w
      /\ \A j \in 0..N : UpTo(w, j) \in Seq(WireEntries)
      /\ \A j \in 1..N : w[j] \in WireEntries /\ UpTo(w, j) = Append(UpTo(w, j - 1), w[j])
  BY Prefixed
<1>2. At(w, 0) = 0 /\ At(w, N) = Len(Bytes(w))
  BY <1>1, EmptyRuns, EmptySeq DEF At
<1> HIDE DEF N
<1>3. \A j \in 0..N : At(w, j) \in Nat
  BY <1>1, BytesTyped, LenProperties DEF At
<1>4. ASSUME NEW j \in 1..N
      PROVE  w[j].length \in Nat /\ At(w, j) = At(w, j - 1) + 2 + w[j].length
  <2> DEFINE u == UpTo(w, j - 1)
             e == w[j]
  <2>1. u \in Seq(WireEntries) /\ e \in WireEntries /\ UpTo(w, j) = Append(u, e)
    <3>1. j - 1 \in 0..N
      BY <1>1
    <3> QED
      BY <1>1, <3>1
  <2>2. At(w, j) = Len(Bytes(UpTo(w, j))) /\ At(w, j - 1) = Len(Bytes(u))
    BY DEF At
  <2> HIDE DEF u, e
  <2>3. Bytes(Append(u, e)) = Bytes(u) \o One(e)
    BY <2>1, BytesGoOn
  <2> DEFINE a == Bytes(u)
             b == One(e)
  <2>4. a \in Seq(Nat) /\ b \in Seq(Nat) /\ Len(b) = 2 + e.length /\ e.length \in Nat
    BY <2>1, BytesTyped, OneTyped, WireEntryTyped
  <2> HIDE DEF a, b
  <2>5. Len(a \o b) = Len(a) + Len(b) /\ Len(a) \in Nat
    BY <2>4, ConcatProperties, LenProperties
  <2> QED
    BY <2>1, <2>2, <2>3, <2>4, <2>5 DEF a, b, e
<1>5. \A j \in 0..N : j <= At(w, j) /\ \A i \in 0..j : At(w, i) <= At(w, j)
  <2> DEFINE Good == {j \in 0..N : j <= At(w, j) /\ \A i \in 0..j : At(w, i) <= At(w, j)}
  <2>1. 0 \in Good
    BY <1>1, <1>2
  <2>2. ASSUME NEW j \in 1..N, j - 1 \in Good PROVE j \in Good
    <3>1. /\ j - 1 <= At(w, j - 1) /\ \A i \in 0..(j - 1) : At(w, i) <= At(w, j - 1)
          /\ At(w, j) = At(w, j - 1) + 2 + w[j].length /\ w[j].length \in Nat /\ At(w, j - 1) \in Nat
          /\ At(w, j) \in Nat
      <4>1. j - 1 \in 0..N /\ j \in 0..N
        BY <1>1
      <4> QED
        BY <1>3, <1>4, <2>2, <4>1
    <3>2. \A i \in 0..j : At(w, i) \in Nat /\ (i = j \/ i \in 0..(j - 1))
      <4>1. \A i \in 0..j : i \in 0..N
        BY <1>1
      <4> QED
        BY <1>3, <4>1
    <3>3. ASSUME NEW i \in 0..j PROVE At(w, i) <= At(w, j)
      <4>1. CASE i = j
        BY <3>1, <4>1
      <4>2. CASE i # j
        <5>1. At(w, i) <= At(w, j - 1) /\ At(w, i) \in Nat
          BY <3>1, <3>2, <4>2
        <5> QED
          BY <3>1, <5>1
      <4> QED
        BY <4>1, <4>2
    <3>4. j <= At(w, j)
      BY <3>1
    <3> QED
      BY <3>3, <3>4
  <2>3. 0..N \subseteq Good
    <3> HIDE DEF Good
    <3> QED
      BY <1>1, <2>1, <2>2, InductionUpTo
  <2> QED
    BY <2>3
<1> QED
  BY <1>2, <1>3, <1>4, <1>5 DEF N

\* Where the bytes of an entry are.
LEMMA Whereabouts ==
  ASSUME NEW w \in Seq(WireEntries), NEW j \in 1..Len(w)
  PROVE  /\ Bytes(w)[At(w, j - 1) + 1] = w[j].type
         /\ Bytes(w)[At(w, j - 1) + 2] = w[j].length
         /\ \A i \in 1..w[j].length : Bytes(w)[At(w, j - 1) + 2 + i] = w[j].data[i]
<1> DEFINE N == Len(w)
           u == UpTo(w, j - 1)
           e == w[j]
           v == SubSeq(w, j + 1, N)
           p == At(w, j - 1)
           n == e.length
<1>1. /\ N \in Nat /\ u \in Seq(WireEntries) /\ e \in WireEntries
      /\ UpTo(w, j) = Append(u, e) /\ UpTo(w, j) \in Seq(WireEntries)
  <2>1. N \in Nat
    BY Prefixed
  <2>2. j - 1 \in 0..N /\ j \in 0..N
    BY <2>1
  <2> QED
    BY <2>1, <2>2, Prefixed
<1>2. UpTo(w, j) \o v = w /\ v \in Seq(WireEntries)
  <2>1. SubSeq(w, 1, N) = w
    BY SubSeqFull
  <2>2. 1 \in 1..(N + 1) /\ j \in (1 - 1)..N /\ N \in j..N
    BY <1>1
  <2>3. SubSeq(w, 1, j) \o SubSeq(w, j + 1, N) = SubSeq(w, 1, N)
    <3> HIDE DEF N
    <3>1. N = Len(w)
      BY DEF N
    <3> QED
      BY <2>2, <3>1, ConcatAdjacentSubSeq
  <2>4. \A i \in (j + 1)..N : w[i] \in WireEntries
    <3>1. \A i \in (j + 1)..N : i \in 1..N
      BY <1>1
    <3> QED
      BY <3>1, ElementOfSeq
  <2>5. v \in Seq(WireEntries)
    <3> HIDE DEF N
    <3>1. j + 1 \in Int /\ N \in Int
      BY <1>1
    <3> QED
      BY <2>4, <3>1, SubSeqProperties
  <2> QED
    BY <2>1, <2>3, <2>5 DEF UpTo
<1>3. p = Len(Bytes(u))
  BY DEF At
<1> HIDE DEF N, u, e, v, p
<1> DEFINE a == Bytes(u)
           b == One(e)
           c == Bytes(v)
<1>4. Bytes(w) = (a \o b) \o c
  <2> DEFINE uj == UpTo(w, j)
  <2>1. uj \in Seq(WireEntries) /\ uj = Append(u, e) /\ w = uj \o v
    BY <1>1, <1>2
  <2> HIDE DEF uj
  <2>2. Bytes(uj \o v) = Bytes(uj) \o c
    BY <1>2, <2>1, BytesOfConcat
  <2>3. Bytes(uj) = a \o b
    BY <1>1, <2>1, BytesGoOn
  <2> QED
    BY <2>1, <2>2, <2>3
<1>5. /\ a \in Seq(Nat) /\ b \in Seq(Nat) /\ c \in Seq(Nat) /\ Len(a) = p /\ p \in Nat
      /\ n \in Nat /\ Len(b) = 2 + n /\ b[1] = e.type /\ b[2] = n
      /\ \A i \in 1..n : b[2 + i] = e.data[i]
  BY <1>1, <1>2, <1>3, BytesTyped, OneTyped, WireEntryTyped, LenProperties
<1> HIDE DEF a, b, c, n
<1>6. /\ a \o b \in Seq(Nat) /\ Len(a \o b) = Len(a) + Len(b)
      /\ \A i \in 1..(Len(a) + Len(b)) : (a \o b)[i] = IF i <= Len(a) THEN a[i] ELSE b[i - Len(a)]
  BY <1>5, ConcatProperties
<1> DEFINE ab == a \o b
<1>7. Len(c) \in Nat
  BY <1>5, LenProperties
<1> HIDE DEF ab
<1>8. \A i \in 1..(Len(ab) + Len(c)) : (ab \o c)[i] = IF i <= Len(ab) THEN ab[i] ELSE c[i - Len(ab)]
  <2>1. ab \in Seq(Nat)
    BY <1>6 DEF ab
  <2> QED
    BY <1>5, <2>1, ConcatProperties
<1>9. \A i \in 1..(2 + n) : Bytes(w)[p + i] = b[i]
  <2> SUFFICES ASSUME NEW i \in 1..(2 + n) PROVE Bytes(w)[p + i] = b[i]
    OBVIOUS
  <2>1. Len(ab) = p + 2 + n
    BY <1>5, <1>6 DEF ab
  <2>2. p + i \in 1..(Len(ab) + Len(c)) /\ p + i <= Len(ab) /\ p + i \in 1..(Len(a) + Len(b)) /\ ~(p + i <= Len(a))
        /\ p + i - Len(a) = i
    BY <1>5, <1>7, <2>1
  <2>3. (ab \o c)[p + i] = ab[p + i]
    BY <1>8, <2>2
  <2>4. ab[p + i] = b[i]
    <3> DEFINE q == p + i
    <3>1. q \in 1..(Len(a) + Len(b)) /\ ~(q <= Len(a)) /\ q - Len(a) = i
      BY <1>5, <2>2
    <3> HIDE DEF q
    <3>2. (a \o b)[q] = b[i]
      BY <1>6, <3>1
    <3> QED
      BY <3>2 DEF q, ab
  <2> QED
    BY <1>4, <2>3, <2>4 DEF ab
<1>10. 1 \in 1..(2 + n) /\ 2 \in 1..(2 + n) /\ \A i \in 1..n : 2 + i \in 1..(2 + n) /\ p + 2 + i = p + (2 + i)
  BY <1>5
<1>11. /\ Bytes(w)[p + 1] = e.type /\ Bytes(w)[p + 2] = n
       /\ \A i \in 1..n : Bytes(w)[p + 2 + i] = e.data[i]
  BY <1>5, <1>9, <1>10
<1> QED
  BY <1>11 DEF p, n, e

\* What is read of bytes, entry by entry.
Met(f, bytes) ==
  /\ f[0] = [position |-> 0, met |-> <<>>]
  /\ \A n \in 1..Len(bytes) : f[n] = ReadEntry(bytes, f[n - 1])

LEMMA EntriesComputed ==
  ASSUME NEW bytes, Len(bytes) \in Nat
  PROVE  \E f : Met(f, bytes) /\ EntriesOf(bytes) = f[Len(bytes)].met
<1> DEFINE F(f) == f = [n \in 0..Len(bytes) |->
                         IF n = 0 THEN [position |-> 0, met |-> <<>>] ELSE ReadEntry(bytes, f[n - 1])]
           after == CHOOSE f : F(f)
<1>1. PICK g : Run(g, "met", bytes, 0, bytes, Len(bytes))
  BY RunExists
<1>2. F(g)
  BY <1>1 DEF Run, Base, Step
<1>3. EntriesOf(bytes) = after[Len(bytes)].met
  BY DEF EntriesOf
<1> HIDE DEF F
<1>4. F(after)
  BY <1>2
<1> HIDE DEF after
<1>5. Met(after, bytes)
  <2>1. \A n \in 0..Len(bytes) :
          after[n] = IF n = 0 THEN [position |-> 0, met |-> <<>>] ELSE ReadEntry(bytes, after[n - 1])
    BY <1>4 DEF F
  <2>2. 0 \in 0..Len(bytes) /\ \A n \in 1..Len(bytes) : n \in 0..Len(bytes) /\ n # 0
    OBVIOUS
  <2> QED
    BY <2>1, <2>2 DEF Met
<1> QED
  BY <1>3, <1>5

\* One entry read, where all of its bytes have arrived, or not all of them.
LEMMA OneRead ==
  ASSUME NEW w \in Seq(WireEntries), NEW j \in 1..Len(w), NEW n \in 0..Len(Bytes(w)), At(w, j - 1) < n
  PROVE  LET c == SubSeq(Bytes(w), 1, n)
             r == [position |-> At(w, j - 1), met |-> UpTo(w, j - 1)]
         IN  /\ At(w, j) <= n => ReadEntry(c, r) = [position |-> At(w, j), met |-> UpTo(w, j)]
             /\ ~(At(w, j) <= n) =>
                  \E e : ~e.whole /\ ReadEntry(c, r) = [position |-> n, met |-> Append(UpTo(w, j - 1), e)]
<1> DEFINE B == Bytes(w)
           c == SubSeq(B, 1, n)
           p == At(w, j - 1)
           u == UpTo(w, j - 1)
           l == w[j].length
           d == w[j].data
           r == [position |-> p, met |-> u]
           e == EntryAt(c, p)
<1>1. /\ w[j] \in WireEntries /\ l \in Nat /\ d \in Seq(Nat) /\ l = Len(d)
      /\ w[j] = [type |-> w[j].type, length |-> l, data |-> d, whole |-> TRUE]
  <2>1. w[j] \in WireEntries
    BY ElementOfSeq
  <2> QED
    BY <2>1, WireEntryTyped DEF WireEntry
<1>2. p \in Nat /\ At(w, j) = p + 2 + l /\ UpTo(w, j) = Append(u, w[j])
  <2>1. Len(w) \in Nat
    BY Prefixed
  <2>2. j - 1 \in 0..Len(w)
    BY <2>1
  <2> QED
    BY <2>2, Positions, Prefixed
<1>3. B[p + 1] = w[j].type /\ B[p + 2] = l /\ \A i \in 1..l : B[p + 2 + i] = d[i]
  BY Whereabouts
<1>4. B \in Seq(Nat) /\ Len(B) \in Nat /\ n \in Nat
  <2>1. B \in Seq(Nat) /\ Len(B) \in Nat
    BY BytesTyped, LenProperties
  <2> QED
    BY <2>1
<1> HIDE DEF B, p, u, l, d
<1>5. Len(c) = n /\ c \in Seq(Nat) /\ \A i \in 1..n : c[i] = B[i]
  <2>1. \A i \in 1..n : B[i] \in Nat
    <3>1. \A i \in 1..n : i \in 1..Len(B)
      BY <1>4 DEF B
    <3> QED
      BY <1>4, <3>1, ElementOfSeq
  <2>2. /\ c \in Seq(Nat) /\ Len(c) = IF 1 <= n THEN n - 1 + 1 ELSE 0
        /\ \A i \in 1..(n - 1 + 1) : c[i] = B[1 + i - 1]
    BY <1>4, <2>1, SubSeqProperties
  <2>3. n - 1 + 1 = n /\ \A i \in 1..n : 1 + i - 1 = i
    BY <1>4
  <2> QED
    BY <1>4, <2>2, <2>3
<1> HIDE DEF c
<1>6. p < n /\ p + 1 \in 1..n /\ c[p + 1] = w[j].type
  <2>1. p < n
    BY DEF p
  <2>2. p + 1 \in 1..n
    BY <1>2, <1>4, <2>1
  <2> QED
    BY <1>3, <1>5, <2>1, <2>2
<1>7. ReadEntry(c, r) = [position |-> Upto(n, p + 2 + e.length), met |-> Append(u, e)]
  <2> HIDE DEF e
  <2>1. r.position = p /\ r.met = u /\ r.position # Len(c)
    BY <1>2, <1>4, <1>5, <1>6
  <2> HIDE DEF r
  <2>2. e = EntryAt(c, r.position)
    BY <2>1 DEF e
  <2> QED
    BY <1>5, <2>1, <2>2 DEF ReadEntry
<1>8. CASE p + 2 + l <= n
  <2>1. p + 2 \in 1..n /\ c[p + 2] = l
    <3>1. p + 2 \in 1..n
      BY <1>1, <1>2, <1>4, <1>8
    <3> QED
      BY <1>3, <1>5, <3>1
  <2> DEFINE end == p + 2 + l
             x == SubSeq(c, p + 3, end)
  <2>2. e = [type |-> w[j].type, length |-> l, data |-> x, whole |-> TRUE]
    <3>1. Upto(n, p + 2 + l) = p + 2 + l
      BY <1>1, <1>2, <1>4, <1>8 DEF Upto
    <3>2. n - p # 1 /\ 2 + l <= n - p
      BY <1>1, <1>2, <1>4, <1>8
    <3> QED
      BY <1>5, <1>6, <2>1, <3>1, <3>2 DEF EntryAt
  <2>3. x = d
    <3>1. end \in Int /\ p + 3 \in Int /\ end - (p + 3) + 1 = l /\ end <= n
      BY <1>1, <1>2, <1>8
    <3>2. \A i \in (p + 3)..end : i \in 1..n
      BY <1>1, <1>2, <1>4, <1>8
    <3>3. \A i \in (p + 3)..end : c[i] \in Nat
      BY <1>5, <3>2, ElementOfSeq
    <3> HIDE DEF end
    <3>4. /\ x \in Seq(Nat) /\ Len(x) = IF p + 3 <= end THEN end - (p + 3) + 1 ELSE 0
          /\ \A i \in 1..(end - (p + 3) + 1) : x[i] = c[p + 3 + i - 1]
      BY <3>1, <3>3, SubSeqProperties
    <3>5. Len(x) = l
      BY <1>1, <1>2, <3>1, <3>4
    <3>6. ASSUME NEW i \in 1..l PROVE x[i] = d[i]
      <4>1. p + 3 + i - 1 = p + 2 + i /\ p + 2 + i \in 1..n
        BY <1>1, <1>2, <1>4, <1>8
      <4>2. x[i] = c[p + 2 + i]
        BY <3>1, <3>4, <4>1
      <4> QED
        BY <1>3, <1>5, <4>1, <4>2
    <3> HIDE DEF x
    <3> QED
      BY <1>1, <3>4, <3>5, <3>6, SeqEqual
  <2>4. e = w[j] /\ e.length = l
    <3> HIDE DEF e, x
    <3> QED
      BY <1>1, <2>2, <2>3
  <2>5. Upto(n, p + 2 + l) = p + 2 + l
    BY <1>1, <1>2, <1>4, <1>8 DEF Upto
  <2>6. ReadEntry(c, r) = [position |-> At(w, j), met |-> UpTo(w, j)]
    BY <1>2, <1>7, <2>4, <2>5
  <2> QED
    BY <1>2, <1>8, <2>6 DEF B, c, p, u
<1>9. CASE ~(p + 2 + l <= n)
  <2>1. ~e.whole /\ Upto(n, p + 2 + e.length) = n
    <3>1. CASE n - p = 1
      <4>1. ~e.whole /\ e.length = 0
        BY <1>5, <3>1 DEF EntryAt
      <4>2. ~(n < p + 2) => FALSE
        BY <1>2, <1>4, <3>1
      <4>3. p + 2 + 0 = p + 2
        BY <1>2
      <4> QED
        BY <4>1, <4>2, <4>3 DEF Upto
    <3>2. CASE n - p # 1
      <4>1. p + 2 \in 1..n
        BY <1>2, <1>4, <1>6, <3>2
      <4>2. c[p + 2] = l
        BY <1>3, <1>5, <4>1
      <4>3. e.length = l /\ e.whole = (2 + l <= n - p)
        BY <1>5, <3>2, <4>2 DEF EntryAt
      <4>4. n < p + 2 + l /\ ~(2 + l <= n - p)
        BY <1>1, <1>2, <1>4, <1>9
      <4> QED
        BY <4>3, <4>4 DEF Upto
    <3> QED
      BY <3>1, <3>2
  <2>2. ReadEntry(c, r) = [position |-> n, met |-> Append(u, e)]
    BY <1>7, <2>1
  <2> HIDE DEF e
  <2> QED
    BY <1>2, <1>9, <2>1, <2>2 DEF B, c, p, u
<1> QED
  BY <1>8, <1>9

\* At the end of the bytes nothing more is read.
LEMMA NothingMore ==
  ASSUME NEW f, NEW c, NEW n \in Nat, Len(c) = n, Met(f, c), NEW k \in 0..n, f[k].position = n
  PROVE  f[n] = f[k]
<1> DEFINE Same == {m \in 0..(n - k) : f[k + m] = f[k]}
<1>1. 0 \in Same
  OBVIOUS
<1>2. ASSUME NEW m \in 1..(n - k), m - 1 \in Same PROVE m \in Same
  <2>1. f[k + (m - 1)] = f[k] /\ k + m \in 1..n /\ (k + m) - 1 = k + (m - 1)
    BY <1>2
  <2> DEFINE q == k + m
  <2>2. q \in 1..n /\ f[q - 1] = f[k]
    BY <2>1
  <2> HIDE DEF q
  <2>3. f[q] = ReadEntry(c, f[q - 1])
    BY <2>2 DEF Met
  <2>4. f[q] = f[k]
    BY <2>2, <2>3 DEF ReadEntry
  <2> QED
    BY <2>4 DEF q
<1>3. n - k \in Nat /\ k + (n - k) = n
  OBVIOUS
<1>4. 0..(n - k) \subseteq Same
  <2> HIDE DEF Same
  <2> QED
    BY <1>1, <1>2, <1>3, InductionUpTo
<1>5. n - k \in 0..(n - k)
  BY <1>3
<1>6. f[k + (n - k)] = f[k]
  BY <1>4, <1>5
<1> QED
  BY <1>3, <1>6

\* Of a buffer cut short whole entries are read, and perhaps one that is not.
LEMMA CutRead ==
  ASSUME NEW w \in Seq(WireEntries), NEW n \in 0..Len(Bytes(w))
  PROVE  \E j \in 0..Len(w) :
           \/ At(w, j) = n /\ EntriesOf(SubSeq(Bytes(w), 1, n)) = UpTo(w, j)
           \/ /\ n # Len(Bytes(w))
              /\ \E e : ~e.whole /\ EntriesOf(SubSeq(Bytes(w), 1, n)) = Append(UpTo(w, j), e)
<1> DEFINE B == Bytes(w)
           c == SubSeq(B, 1, n)
           N == Len(w)
           Have(j) == [position |-> At(w, j), met |-> UpTo(w, j)]
<1>1. n \in Nat /\ Len(c) = n
  <2>1. B \in Seq(Nat) /\ Len(B) \in Nat
    BY BytesTyped, LenProperties
  <2> HIDE DEF B
  <2>2. n \in Nat /\ \A i \in 1..n : i \in 1..Len(B)
    BY <2>1 DEF B
  <2>3. \A i \in 1..n : B[i] \in Nat
    BY <2>1, <2>2, ElementOfSeq
  <2>4. Len(c) = IF 1 <= n THEN n - 1 + 1 ELSE 0
    BY <2>2, <2>3, SubSeqProperties
  <2> QED
    BY <2>2, <2>4
<1>2. /\ N \in Nat /\ At(w, 0) = 0 /\ n <= At(w, N) /\ At(w, N) = Len(Bytes(w)) /\ UpTo(w, 0) = <<>>
      /\ \A j \in 0..N : At(w, j) \in Nat /\ j <= At(w, j)
      /\ \A j \in 1..N : w[j].length \in Nat /\ At(w, j) = At(w, j - 1) + 2 + w[j].length
  <2>1. N \in Nat /\ UpTo(w, 0) = <<>>
    BY Prefixed
  <2>2. At(w, N) = Len(Bytes(w)) /\ Len(Bytes(w)) \in Nat
    BY Positions, BytesTyped, LenProperties
  <2> QED
    BY <2>1, <2>2, Positions
<1>3. PICK f : Met(f, c) /\ EntriesOf(c) = f[n].met
  <2> HIDE DEF c
  <2> QED
    BY <1>1, EntriesComputed
<1>4. ASSUME NEW j \in 1..N, At(w, j - 1) < n
      PROVE  /\ At(w, j) <= n => ReadEntry(c, Have(j - 1)) = Have(j)
             /\ ~(At(w, j) <= n) =>
                  \E e : ~e.whole /\ ReadEntry(c, Have(j - 1)) = [position |-> n, met |-> Append(UpTo(w, j - 1), e)]
  BY <1>4, OneRead
<1> HIDE DEF c, B, N
<1>5. \A j \in 0..N : At(w, j) <= n => f[j] = Have(j)
  <2> DEFINE Good == {j \in 0..N : At(w, j) <= n => f[j] = Have(j)}
  <2>1. 0 \in Good
    BY <1>2, <1>3 DEF Met
  <2>2. ASSUME NEW j \in 1..N, j - 1 \in Good PROVE j \in Good
    <3>1. j \in 0..N /\ j - 1 \in 0..N
      BY <1>2
    <3> SUFFICES ASSUME At(w, j) <= n PROVE f[j] = Have(j)
      BY <3>1
    <3>2. At(w, j - 1) < n /\ At(w, j - 1) <= n /\ j \in 1..n
      <4>1. /\ At(w, j - 1) \in Nat /\ w[j].length \in Nat /\ At(w, j) = At(w, j - 1) + 2 + w[j].length
            /\ At(w, j) \in Nat /\ j <= At(w, j) /\ At(w, j) <= n
        BY <1>2, <3>1
      <4> QED
        BY <1>1, <4>1
    <3> HIDE DEF Have
    <3>3. f[j - 1] = Have(j - 1)
      BY <2>2, <3>2
    <3>4. f[j] = ReadEntry(c, f[j - 1])
      BY <1>1, <1>3, <3>2 DEF Met
    <3> QED
      BY <1>4, <3>2, <3>3, <3>4
  <2>3. 0..N \subseteq Good
    <3> HIDE DEF Good
    <3> QED
      BY <1>2, <2>1, <2>2, InductionUpTo
  <2> QED
    BY <2>3
<1>6. PICK m \in 0..N : At(w, m) <= n /\ \A j \in 0..N : At(w, j) <= n => j <= m
  <2> DEFINE S == {j \in 0..N : At(w, j) <= n}
  <2>1. S \subseteq 0..N /\ 0 \in S
    BY <1>1, <1>2
  <2> DEFINE m == Max(S)
  <2>2. m \in S /\ \A j \in S : m >= j
    <3> HIDE DEF S
    <3> QED
      BY <1>2, <2>1, LargestExists
  <2> HIDE DEF m
  <2>3. m \in 0..N /\ At(w, m) <= n /\ \A j \in 0..N : At(w, j) <= n => j <= m
    BY <1>2, <2>2
  <2> QED
    BY <2>3
<1>7. f[m] = Have(m) /\ m \in 0..n /\ At(w, m) \in Nat /\ m <= At(w, m)
  BY <1>1, <1>2, <1>5, <1>6
<1>8. CASE At(w, m) = n
  <2>1. f[m].position = n
    BY <1>7, <1>8
  <2>2. f[n] = f[m]
    BY <1>1, <1>3, <1>7, <2>1, NothingMore
  <2>3. EntriesOf(c) = UpTo(w, m)
    BY <1>3, <1>7, <2>2
  <2> QED
    BY <1>6, <1>8, <2>3 DEF c, B, N
<1>9. CASE At(w, m) # n
  <2>1. PICK k : k = m + 1
    OBVIOUS
  <2>2. At(w, m) < n /\ m # N
    BY <1>1, <1>2, <1>6, <1>7, <1>9
  <2>3. k \in 1..N /\ k - 1 = m /\ k \in 1..n /\ k \in 0..n
    BY <1>1, <1>2, <1>6, <1>7, <2>1, <2>2
  <2>4. ~(At(w, k) <= n)
    <3>1. k \in 0..N /\ ~(k <= m)
      BY <1>2, <2>1, <2>3
    <3> QED
      BY <1>6, <3>1
  <2> HIDE DEF Have
  <2>5. PICK e : ~e.whole /\ ReadEntry(c, Have(k - 1)) = [position |-> n, met |-> Append(UpTo(w, k - 1), e)]
    BY <1>4, <2>2, <2>3, <2>4
  <2>6. f[k] = ReadEntry(c, f[k - 1])
    BY <1>1, <1>3, <2>3 DEF Met
  <2>7. f[k] = [position |-> n, met |-> Append(UpTo(w, m), e)]
    BY <1>7, <2>3, <2>5, <2>6
  <2>8. f[k].position = n /\ f[k].met = Append(UpTo(w, m), e)
    BY <2>7
  <2>9. f[n] = f[k]
    BY <1>1, <1>3, <2>3, <2>8, NothingMore
  <2>10. EntriesOf(c) = Append(UpTo(w, m), e)
    BY <1>3, <2>8, <2>9
  <2>11. n # Len(Bytes(w))
    <3>1. N \in 0..N
      BY <1>2
    <3> QED
      BY <1>1, <1>2, <1>6, <2>2, <3>1
  <2> QED
    BY <1>6, <2>5, <2>10, <2>11 DEF c, B, N
<1> QED
  BY <1>8, <1>9

\* The entries are read back from their bytes.
LEMMA ReadBack ==
  ASSUME NEW w \in Seq(WireEntries)
  PROVE  EntriesOf(Bytes(w)) = w
<1> DEFINE B == Bytes(w)
           n == Len(B)
<1>1. B \in Seq(Nat) /\ n \in Nat /\ SubSeq(B, 1, n) = B /\ n \in 0..n
  BY BytesTyped, LenProperties, SubSeqFull
<1>2. PICK j \in 0..Len(w) : At(w, j) = n /\ EntriesOf(SubSeq(B, 1, n)) = UpTo(w, j)
  <2>1. \E j \in 0..Len(w) :
           \/ At(w, j) = n /\ EntriesOf(SubSeq(B, 1, n)) = UpTo(w, j)
           \/ n # Len(B) /\ \E e : ~e.whole /\ EntriesOf(SubSeq(B, 1, n)) = Append(UpTo(w, j), e)
    BY <1>1, CutRead
  <2> QED
    BY <2>1
<1>3. j = Len(w)
  <2> DEFINE N == Len(w)
  <2>1. N \in Nat /\ At(w, N) = n
    BY Prefixed, Positions
  <2> HIDE DEF N, n
  <2>2. ASSUME j # N PROVE FALSE
    <3>1. N \in 1..N /\ j \in 0..(N - 1) /\ N - 1 \in 0..N
      BY <2>1, <2>2 DEF N
    <3>2. At(w, j) <= At(w, N - 1) /\ At(w, N - 1) \in Nat
      BY <3>1, Positions DEF N
    <3>3. At(w, N) = At(w, N - 1) + 2 + w[N].length /\ w[N].length \in Nat
      BY <3>1, Positions DEF N
    <3> QED
      BY <1>2, <2>1, <3>2, <3>3
  <2> QED
    BY <2>2 DEF N
<1>4. UpTo(w, Len(w)) = w
  BY Prefixed
<1> QED
  BY <1>1, <1>2, <1>3, <1>4

-----------------------------------------------------------------------------
(* The encoder: data entry by entry, lists item by item.                   *)

EndOf(data, at) == Upto(Len(data), at + MaxLength)
PieceOf(type, data, at) == WireEntry(type, SubSeq(data, at + 1, EndOf(data, at)))

\* There is more to write of data: at least one entry, be it empty.
More(data, at, wire) == (at < Len(data) \/ wire = <<>>) /\ (at = 0 <=> wire = <<>>)

LEMMA PieceFacts ==
  ASSUME NEW type \in Nat, NEW data \in Seq(Nat), NEW at \in 0..Len(data)
  PROVE  LET e == PieceOf(type, data, at)
             end == EndOf(data, at)
         IN  /\ end \in at..Len(data) /\ (at < Len(data) => at < end)
             /\ e \in WireEntries /\ e.type = type /\ e.data \in Seq(Nat)
             /\ SubSeq(data, 1, at) \in Seq(Nat)
             /\ SubSeq(data, 1, at) \o e.data = SubSeq(data, 1, end)
             /\ e.length \in Nat /\ (end < Len(data) => e.length = MaxLength)
             /\ at < Len(data) => e.length > 0
             /\ at = 0 => e.data = SubSeq(data, 1, end)
<1> DEFINE N == Len(data)
           end == EndOf(data, at)
           x == SubSeq(data, at + 1, end)
           e == PieceOf(type, data, at)
<1>1. N \in Nat /\ MaxLength \in Nat /\ MaxLength > 0 /\ at \in 0..N
  BY LenProperties, TLVAssumption
<1>2. end = IF N < at + MaxLength THEN N ELSE at + MaxLength
  BY DEF EndOf, Upto
<1> HIDE DEF end, N
<1>3. end \in at..N /\ (at < N => at < end) /\ (end < N => end - at = MaxLength)
  BY <1>1, <1>2
<1>4. /\ x \in Seq(Nat) /\ Len(x) = end - at
  <2>1. \A i \in (at + 1)..end : data[i] \in Nat
    <3>1. \A i \in (at + 1)..end : i \in 1..N
      BY <1>1, <1>3
    <3> QED
      BY <3>1, ElementOfSeq DEF N
  <2>2. at + 1 \in Int /\ end \in Int
    BY <1>1, <1>3
  <2>3. x \in Seq(Nat) /\ Len(x) = IF at + 1 <= end THEN end - (at + 1) + 1 ELSE 0
    BY <2>1, <2>2, SubSeqProperties
  <2> QED
    BY <1>1, <1>3, <2>3
<1>5. SubSeq(data, 1, at) \in Seq(Nat) /\ SubSeq(data, 1, at) \o x = SubSeq(data, 1, end)
  <2>1. SubSeq(data, 1, at) \in Seq(Nat)
    BY Prefixed DEF UpTo
  <2>2. 1 \in 1..(N + 1) /\ at \in (1 - 1)..N /\ end \in at..N
    BY <1>1, <1>3
  <2>3. SubSeq(data, 1, at) \o SubSeq(data, at + 1, end) = SubSeq(data, 1, end)
    BY <2>2, ConcatAdjacentSubSeq DEF N
  <2> QED
    BY <2>1, <2>3
<1>6. e = WireEntry(type, x)
  BY DEF PieceOf, end
<1> HIDE DEF e, x
<1>7. e \in WireEntries /\ e.type = type /\ e.data = x /\ e.length = Len(x)
  BY <1>4, <1>6, WireEntryTyped
<1>8. e.length = end - at /\ e.length \in Nat /\ (at < N => e.length > 0)
  BY <1>1, <1>3, <1>4, <1>7
<1>9. at = 0 => e.data = SubSeq(data, 1, end)
  BY <1>7 DEF x
<1> QED
  BY <1>3, <1>4, <1>5, <1>7, <1>8, <1>9 DEF e, end, N

\* What holds before the first entry of data and is kept by each holds of its encoding.
LEMMA ItemInduction ==
  ASSUME NEW type \in Nat, NEW data \in Seq(Nat), NEW Good, <<0, <<>>>> \in Good,
         \A at \in 0..Len(data), wire \in Seq(WireEntries) :
           <<at, wire>> \in Good /\ More(data, at, wire) =>
             <<EndOf(data, at), Append(wire, PieceOf(type, data, at))>> \in Good
  PROVE  /\ EncodeItem(type, data) \in Seq(WireEntries) /\ EncodeItem(type, data) # <<>>
         /\ <<Len(data), EncodeItem(type, data)>> \in Good
<1> DEFINE N == Len(data)
           none == <<>>
<1>1. N \in Nat /\ MaxLength \in Nat /\ MaxLength > 0 /\ 0 \in 0..N /\ none \in Seq(WireEntries)
  BY LenProperties, TLVAssumption, EmptySeq
<1>2. CASE N <= MaxLength
  <2> DEFINE p == PieceOf(type, data, 0)
  <2>1. EndOf(data, 0) = N
    BY <1>1, <1>2 DEF EndOf, Upto
  <2>2. p = WireEntry(type, data)
    <3>1. SubSeq(data, 0 + 1, N) = data
      BY SubSeqFull
    <3> QED
      BY <2>1, <3>1 DEF PieceOf
  <2>3. p \in WireEntries
    BY <2>2, WireEntryTyped
  <2>4. EncodeItem(type, data) = <<p>>
    BY <1>2, <2>2 DEF EncodeItem
  <2>5. More(data, 0, none)
    BY DEF More
  <2>6. <<EndOf(data, 0), Append(none, p)>> \in Good
    BY <1>1, <2>5
  <2> HIDE DEF p
  <2>7. Append(none, p) = <<p>> /\ <<p>> \in Seq(WireEntries) /\ <<p>> # <<>>
    BY <2>3
  <2> QED
    BY <2>1, <2>4, <2>6, <2>7
<1>3. CASE ~(N <= MaxLength)
  <2>1. PICK f : /\ f[0] = [at |-> 0, wire |-> <<>>]
                 /\ \A n \in 1..N : f[n] = Continue(type, data, f[n - 1])
                 /\ EncodeItem(type, data) = f[N].wire
    <3> DEFINE F(f) == f = [n \in 0..N |->
                             IF n = 0 THEN [at |-> 0, wire |-> <<>>] ELSE Continue(type, data, f[n - 1])]
               after == CHOOSE f : F(f)
    <3>1. PICK g : Run(g, "item", type, data, data, N)
      BY <1>1, RunExists
    <3>2. F(g)
      BY <3>1 DEF Run, Base, Step
    <3>3. EncodeItem(type, data) = after[N].wire
      BY <1>3 DEF EncodeItem
    <3> HIDE DEF F, N
    <3>4. F(after)
      BY <3>2
    <3> HIDE DEF after
    <3>5. \A n \in 0..N : after[n] = IF n = 0 THEN [at |-> 0, wire |-> <<>>] ELSE Continue(type, data, after[n - 1])
      BY <3>4 DEF F
    <3>6. 0 \in 0..N /\ \A n \in 1..N : n \in 0..N /\ n # 0
      BY <1>1
    <3> QED
      BY <3>3, <3>5, <3>6
  <2> DEFINE OK(c, n) == /\ c = [at |-> c.at, wire |-> c.wire]
                         /\ c.at \in 0..N /\ c.wire \in Seq(WireEntries) /\ <<c.at, c.wire>> \in Good
                         /\ (c.at = 0 <=> c.wire = <<>>)
                         /\ (n <= c.at \/ c.at = N)
             Reached == {n \in 0..N : OK(f[n], n)}
  <2>2. 0 \in Reached
    <3>1. OK([at |-> 0, wire |-> none], 0)
      BY <1>1
    <3> HIDE DEF OK
    <3> QED
      BY <1>1, <2>1, <3>1
  <2>3. ASSUME NEW n \in 1..N, n - 1 \in Reached PROVE n \in Reached
    <3> DEFINE c == f[n - 1]
               d == f[n]
               at == c.at
               wire == c.wire
               end == EndOf(data, at)
               p == PieceOf(type, data, at)
    <3>1. n \in 0..N /\ OK(c, n - 1) /\ d = Continue(type, data, c)
      BY <1>1, <2>1, <2>3
    <3> HIDE DEF c, d
    <3>2. CASE at = N
      <4>1. d = c
        BY <3>1, <3>2 DEF Continue
      <4> QED
        BY <3>1, <3>2, <4>1 DEF d
    <3>3. CASE at # N
      <4>1. at \in 0..N /\ at < N /\ wire \in Seq(WireEntries) /\ <<at, wire>> \in Good /\ More(data, at, wire)
        BY <1>1, <3>1, <3>3 DEF More
      <4>2. d = [at |-> end, wire |-> Append(wire, p)]
        BY <3>1, <3>3 DEF Continue, EndOf, PieceOf
      <4> HIDE DEF at, wire
      <4>3. end \in at..N /\ at < end /\ p \in WireEntries
        BY <4>1, PieceFacts
      <4>4. <<end, Append(wire, p)>> \in Good
        BY <4>1
      <4> HIDE DEF end, p
      <4>5. Append(wire, p) \in Seq(WireEntries) /\ Append(wire, p) # <<>>
        BY <4>1, <4>3, AppendProperties
      <4>6. end \in 0..N /\ end # 0 /\ (n <= end \/ end = N)
        <5>1. n - 1 <= at
          BY <3>1, <3>3 DEF at
        <5> QED
          BY <1>1, <4>1, <4>3, <5>1
      <4>7. OK(d, n)
        BY <4>2, <4>4, <4>5, <4>6
      <4> HIDE DEF OK
      <4> QED
        BY <3>1, <4>7 DEF d
    <3> QED
      BY <3>2, <3>3
  <2>4. 0..N \subseteq Reached
    <3> HIDE DEF Reached
    <3> QED
      BY <1>1, <2>2, <2>3, InductionUpTo
  <2>5. OK(f[N], N)
    <3>1. N \in 0..N
      BY <1>1
    <3> HIDE DEF OK
    <3> QED
      BY <2>4, <3>1
  <2>6. f[N].at = N
    BY <1>1, <2>5
  <2>7. f[N].wire # <<>>
    BY <1>1, <1>3, <2>5, <2>6
  <2> QED
    BY <2>1, <2>5, <2>6, <2>7
<1> QED
  BY <1>2, <1>3

-----------------------------------------------------------------------------
(* What decode has of a message that grows.                                *)

LEMMA JoinedStep ==
  ASSUME NEW w \in Seq(WireEntries), NEW e \in WireEntries,
         \A t \in Nat : ValueOf(JoinedAll(w), t) \in Seq(Nat)
  PROVE  /\ DOMAIN JoinedAll(Append(w, e)) = DOMAIN JoinedAll(w) \cup {e.type}
         /\ \A t \in Nat : ValueOf(JoinedAll(Append(w, e)), t) =
                             ValueOf(JoinedAll(w), t) \o (IF t = e.type THEN e.data ELSE <<>>)
<1> DEFINE J == JoinedAll(w)
           K == JoinedAll(Append(w, e))
<1>1. K = Joined(J, e)
  BY JoinedGoesOn
<1>2. e.type \in Nat /\ e.data \in Seq(Nat) /\ \A t \in Nat : ValueOf(J, t) \in Seq(Nat)
  BY WireEntryTyped
<1> HIDE DEF J, K
<1> DEFINE x == IF e.type \in DOMAIN J THEN J[e.type] \o e.data ELSE e.data
<1>3. x = ValueOf(J, e.type) \o e.data
  <2>1. <<>> \o e.data = e.data
    BY <1>2, ConcatEmptySeq
  <2> QED
    BY <2>1 DEF ValueOf
<1>4. K = [t \in DOMAIN J \cup {e.type} |-> IF t = e.type THEN x ELSE J[t]]
  BY <1>1 DEF Joined, With
<1> HIDE DEF x
<1>5. ASSUME NEW t \in Nat
      PROVE  ValueOf(K, t) = ValueOf(J, t) \o (IF t = e.type THEN e.data ELSE <<>>)
  <2>1. ValueOf(K, t) = IF t = e.type THEN x ELSE ValueOf(J, t)
    BY <1>4 DEF ValueOf
  <2> DEFINE y == ValueOf(J, t)
  <2>2. y \o <<>> = y
    BY <1>2, ConcatEmptySeq
  <2> HIDE DEF y
  <2> QED
    BY <1>3, <2>1, <2>2 DEF y
<1> QED
  BY <1>4, <1>5 DEF J, K

LEMMA JoinedTyped ==
  \A w \in Seq(WireEntries) : \A t \in Nat : ValueOf(JoinedAll(w), t) \in Seq(Nat)
<1> DEFINE Good == {w \in Seq(WireEntries) : \A t \in Nat : ValueOf(JoinedAll(w), t) \in Seq(Nat)}
<1>1. <<>> \in Good
  BY EmptyRuns, EmptySeq DEF NothingRead, ValueOf
<1>2. ASSUME NEW w \in Seq(WireEntries), NEW e \in WireEntries, w \in Good
      PROVE  Append(w, e) \in Good
  <2>1. ASSUME NEW t \in Nat PROVE ValueOf(JoinedAll(Append(w, e)), t) \in Seq(Nat)
    <3> DEFINE a == ValueOf(JoinedAll(w), t)
               b == IF t = e.type THEN e.data ELSE <<>>
    <3>1. ValueOf(JoinedAll(Append(w, e)), t) = a \o b
      BY <1>2, JoinedStep
    <3>2. a \in Seq(Nat) /\ b \in Seq(Nat)
      BY <1>2, WireEntryTyped, EmptySeq
    <3> HIDE DEF a, b
    <3> QED
      BY <3>1, <3>2, ConcatProperties
  <2>2. Append(w, e) \in Seq(WireEntries)
    BY AppendProperties
  <2> QED
    BY <2>1, <2>2
<1> HIDE DEF Good
<1>3. \A w \in Seq(WireEntries) : w \in Good
  BY <1>1, <1>2, SequenceInduction
<1> QED
  BY <1>3 DEF Good

\* The entries v after w add x to the data of type, and nothing to that of other types.
Adds(w, v, type, x) ==
  /\ \A t \in Nat : ValueOf(JoinedAll(w \o v), t) =
                      ValueOf(JoinedAll(w), t) \o (IF t = type THEN x ELSE <<>>)
  /\ DOMAIN JoinedAll(w) \subseteq DOMAIN JoinedAll(w \o v)
  /\ v # <<>> => type \in DOMAIN JoinedAll(w \o v)

LEMMA AddsNothing ==
  ASSUME NEW w \in Seq(WireEntries), NEW type \in Nat
  PROVE  Adds(w, <<>>, type, <<>>)
<1> DEFINE J == JoinedAll(w)
<1>1. w \o <<>> = w
  BY ConcatEmptySeq
<1>2. \A t \in Nat : ValueOf(J, t) \o <<>> = ValueOf(J, t)
  BY JoinedTyped, ConcatEmptySeq
<1> HIDE DEF J
<1> QED
  BY <1>1, <1>2 DEF Adds, J

LEMMA AddsOne ==
  ASSUME NEW w \in Seq(WireEntries), NEW v \in Seq(WireEntries), NEW type \in Nat, NEW x \in Seq(Nat),
         Adds(w, v, type, x), NEW e \in WireEntries,
         e.type = type \/ (e.data = <<>> /\ v # <<>>)
  PROVE  Adds(w, Append(v, e), type, x \o e.data)
<1> DEFINE u == w \o v
           ue == Append(u, e)
           J == JoinedAll(w)
           K == JoinedAll(u)
           L == JoinedAll(ue)
           d == e.data
<1>1. u \in Seq(WireEntries) /\ w \o Append(v, e) = ue
  BY AppendToConcat
<1>2. /\ \A t \in Nat : ValueOf(K, t) = ValueOf(J, t) \o (IF t = type THEN x ELSE <<>>)
      /\ DOMAIN J \subseteq DOMAIN K /\ (v # <<>> => type \in DOMAIN K)
  BY DEF Adds
<1>3. d \in Seq(Nat) /\ \A t \in Nat : ValueOf(J, t) \in Seq(Nat) /\ ValueOf(K, t) \in Seq(Nat)
  BY <1>1, JoinedTyped, WireEntryTyped
<1>4. /\ DOMAIN L = DOMAIN K \cup {e.type}
      /\ \A t \in Nat : ValueOf(L, t) = ValueOf(K, t) \o (IF t = e.type THEN d ELSE <<>>)
  <2> HIDE DEF u
  <2> QED
    BY <1>1, JoinedTyped, JoinedStep
<1> HIDE DEF u, ue, J, K, L, d
<1>5. x \o d \in Seq(Nat) /\ <<>> \in Seq(Nat)
  BY <1>3, ConcatProperties, EmptySeq
<1>6. ASSUME NEW t \in Nat
      PROVE  ValueOf(L, t) = ValueOf(J, t) \o (IF t = type THEN x \o d ELSE <<>>)
  <2> DEFINE y == ValueOf(J, t)
  <2>1. y \in Seq(Nat) /\ ValueOf(K, t) = y \o (IF t = type THEN x ELSE <<>>)
    BY <1>2, <1>3
  <2> HIDE DEF y
  <2>2. y \o <<>> = y /\ (y \o x) \o d = y \o (x \o d) /\ y \o x \in Seq(Nat)
    <3>1. y \o <<>> = y /\ y \o x \in Seq(Nat)
      BY <2>1, ConcatEmptySeq, ConcatProperties
    <3>2. y \in Seq(Nat) /\ x \in Seq(Nat) /\ d \in Seq(Nat)
      BY <1>3, <2>1
    <3>3. (y \o x) \o d = y \o (x \o d)
      BY <3>2, BytesAssociate
    <3> QED
      BY <3>1, <3>3
  <2>3. (y \o x) \o <<>> = y \o x /\ x \o <<>> = x
    BY <2>2, ConcatEmptySeq
  <2>4. CASE e.type = type
    BY <1>4, <2>1, <2>2, <2>4 DEF y
  <2>5. CASE e.data = <<>>
    <3>1. d = <<>>
      BY <2>5 DEF d
    <3> QED
      BY <1>4, <2>1, <2>2, <2>3, <3>1 DEF y
  <2> QED
    BY <2>4, <2>5
<1>7. DOMAIN J \subseteq DOMAIN L /\ type \in DOMAIN L
  BY <1>2, <1>4
<1> QED
  BY <1>1, <1>6, <1>7 DEF Adds, J, L, d

LEMMA AddsItem ==
  ASSUME NEW w \in Seq(WireEntries), NEW v \in Seq(WireEntries), NEW type \in Nat, NEW x \in Seq(Nat),
         Adds(w, v, type, x), NEW data \in Seq(Nat)
  PROVE  Adds(w, v \o EncodeItem(type, data), type, x \o data)
<1> DEFINE Good == {p \in Nat \X Seq(WireEntries) : Adds(w, v \o p[2], type, x \o SubSeq(data, 1, p[1]))}
           N == Len(data)
<1>1. <<0, <<>>>> \in Good
  <2>1. SubSeq(data, 1, 0) = <<>> /\ v \o <<>> = v /\ x \o <<>> = x
    BY SubSeqEmpty, ConcatEmptySeq
  <2>2. <<0, <<>>>> \in Nat \X Seq(WireEntries)
    BY EmptySeq
  <2> QED
    BY <2>1, <2>2
<1>2. ASSUME NEW at \in 0..N, NEW wire \in Seq(WireEntries), <<at, wire>> \in Good
      PROVE  <<EndOf(data, at), Append(wire, PieceOf(type, data, at))>> \in Good
  <2> DEFINE e == PieceOf(type, data, at)
             end == EndOf(data, at)
             vw == v \o wire
             a == SubSeq(data, 1, at)
             xa == x \o a
  <2>1. /\ e \in WireEntries /\ e.type = type /\ e.data \in Seq(Nat) /\ a \in Seq(Nat)
        /\ a \o e.data = SubSeq(data, 1, end) /\ end \in at..N
    BY PieceFacts
  <2>2. Adds(w, vw, type, xa)
    BY <1>2
  <2>3. vw \in Seq(WireEntries) /\ v \o Append(wire, e) = Append(vw, e)
    BY <2>1, AppendToConcat
  <2>4. end \in Nat /\ Append(wire, e) \in Seq(WireEntries)
    <3> HIDE DEF e, end, N
    <3>1. N \in Nat
      BY LenProperties DEF N
    <3> QED
      BY <2>1, <3>1, AppendProperties
  <2> HIDE DEF e, end, vw, a
  <2>5. xa \in Seq(Nat) /\ xa \o e.data = x \o (a \o e.data)
    <3> DEFINE b == e.data
    <3>1. b \in Seq(Nat)
      BY <2>1
    <3> HIDE DEF b
    <3>2. xa \in Seq(Nat)
      BY <2>1, ConcatProperties
    <3>3. x \in Seq(Nat) /\ a \in Seq(Nat) /\ b \in Seq(Nat)
      BY <2>1, <3>1
    <3>4. (x \o a) \o b = x \o (a \o b)
      BY <3>3, BytesAssociate
    <3> QED
      BY <3>2, <3>4 DEF b
  <2> HIDE DEF xa
  <2>6. Adds(w, Append(vw, e), type, xa \o e.data)
    BY <2>1, <2>2, <2>3, <2>5, AddsOne
  <2>7. Adds(w, v \o Append(wire, e), type, x \o SubSeq(data, 1, end))
    BY <2>1, <2>3, <2>5, <2>6
  <2>8. <<end, Append(wire, e)>> \in Good
    BY <2>4, <2>7
  <2> QED
    BY <2>8 DEF e, end
<1>3. <<N, EncodeItem(type, data)>> \in Good
  <2> HIDE DEF Good
  <2> QED
    BY <1>1, <1>2, ItemInduction
<1>4. SubSeq(data, 1, N) = data
  BY SubSeqFull
<1> QED
  BY <1>3, <1>4

LEMMA ItemTyped ==
  ASSUME NEW type \in Nat, NEW data \in Seq(Nat)
  PROVE  EncodeItem(type, data) \in Seq(WireEntries) /\ EncodeItem(type, data) # <<>>
<1> DEFINE Pairs == {<<EndOf(data, at), Append(wire, PieceOf(type, data, at))>> :
                     at \in 0..Len(data), wire \in Seq(WireEntries)} \cup {<<0, <<>>>>}
<1>1. <<0, <<>>>> \in Pairs
  OBVIOUS
<1>2. \A at \in 0..Len(data), wire \in Seq(WireEntries) :
         <<EndOf(data, at), Append(wire, PieceOf(type, data, at))>> \in Pairs
  OBVIOUS
<1> HIDE DEF Pairs
<1> QED
  BY <1>1, <1>2, ItemInduction

\* The encoding of some items consists of entries, at least one if there is an item.
LEMMA ItemsTyped ==
  ASSUME NEW type \in Nat, NEW items \in Seq(Seq(Nat))
  PROVE  /\ EncodeItems(type, items) \in Seq(WireEntries)
         /\ items # <<>> => EncodeItems(type, items) # <<>>
<1> DEFINE Good == {s \in Seq(Seq(Nat)) : /\ EncodeItems(type, s) \in Seq(WireEntries)
                                          /\ s # <<>> => EncodeItems(type, s) # <<>>}
<1>1. <<>> \in Good
  BY EmptyRuns, EmptySeq
<1>2. ASSUME NEW s \in Seq(Seq(Nat)), NEW data \in Seq(Nat), s \in Good
      PROVE  Append(s, data) \in Good
  <2> DEFINE v == EncodeItems(type, s)
             d == IF s # <<>> THEN <<Delimiter>> ELSE <<>>
             i == EncodeItem(type, data)
             t == Append(s, data)
  <2>1. t \in Seq(Seq(Nat)) /\ EncodeItems(type, t) = v \o d \o i
    BY ItemsGoOn, AppendProperties
  <2>2. v \in Seq(WireEntries)
    BY <1>2
  <2>3. d \in Seq(WireEntries)
    <3>1. Delimiter \in WireEntries
      BY WireEntryTyped, EmptySeq DEF Delimiter
    <3> QED
      BY <3>1
  <2>4. i \in Seq(WireEntries) /\ i # <<>>
    BY ItemTyped
  <2> HIDE DEF v, d, i, t
  <2>5. v \o d \in Seq(WireEntries)
    BY <2>2, <2>3, ConcatProperties
  <2> DEFINE vd == v \o d
  <2> HIDE DEF vd
  <2>6. vd \in Seq(WireEntries) /\ EncodeItems(type, t) = vd \o i
    BY <2>1, <2>5 DEF vd
  <2>7. vd \o i \in Seq(WireEntries) /\ vd \o i # <<>>
    <3>1. vd \o i \in Seq(WireEntries) /\ Len(vd \o i) = Len(vd) + Len(i)
      BY <2>4, <2>6, ConcatProperties
    <3>2. Len(vd) \in Nat /\ Len(i) \in Nat /\ Len(i) # 0
      BY <2>4, <2>6, LenProperties, EmptySeq
    <3> QED
      BY <3>1, <3>2, EmptySeq
  <2> QED
    BY <2>1, <2>6, <2>7 DEF t
<1> HIDE DEF Good
<1>3. \A s \in Seq(Seq(Nat)) : s \in Good
  BY <1>1, <1>2, SequenceInduction
<1> QED
  BY <1>3 DEF Good

LEMMA ConcatenatedTyped == \A s \in Seq(Seq(Nat)) : Concatenated(s) \in Seq(Nat)
<1> DEFINE Good == {s \in Seq(Seq(Nat)) : Concatenated(s) \in Seq(Nat)}
<1>1. <<>> \in Good
  BY EmptyRuns, EmptySeq
<1>2. ASSUME NEW s \in Seq(Seq(Nat)), NEW data \in Seq(Nat), s \in Good
      PROVE  Append(s, data) \in Good
  <2>1. Concatenated(Append(s, data)) = Concatenated(s) \o data /\ Append(s, data) \in Seq(Seq(Nat))
    BY ConcatenatedGoesOn, AppendProperties
  <2>2. Concatenated(s) \o data \in Seq(Nat)
    BY <1>2, ConcatProperties
  <2> QED
    BY <2>1, <2>2
<1> HIDE DEF Good
<1>3. \A s \in Seq(Seq(Nat)) : s \in Good
  BY <1>1, <1>2, SequenceInduction
<1> QED
  BY <1>3 DEF Good

\* A list adds its items, one after the other, to what decode has of its type.
LEMMA AddsItems ==
  ASSUME NEW w \in Seq(WireEntries), NEW type \in Nat
  PROVE  \A items \in Seq(Seq(Nat)) : Adds(w, EncodeItems(type, items), type, Concatenated(items))
<1> DEFINE Good == {s \in Seq(Seq(Nat)) : Adds(w, EncodeItems(type, s), type, Concatenated(s))}
<1>1. <<>> \in Good
  BY EmptyRuns, EmptySeq, AddsNothing
<1>2. ASSUME NEW s \in Seq(Seq(Nat)), NEW data \in Seq(Nat), s \in Good
      PROVE  Append(s, data) \in Good
  <2> DEFINE v == EncodeItems(type, s)
             d == IF s # <<>> THEN <<Delimiter>> ELSE <<>>
             i == EncodeItem(type, data)
             t == Append(s, data)
             x == Concatenated(s)
             vd == v \o d
  <2>1. /\ t \in Seq(Seq(Nat)) /\ EncodeItems(type, t) = vd \o i
        /\ Concatenated(t) = x \o data /\ x \in Seq(Nat)
    BY ItemsGoOn, AppendProperties, ConcatenatedGoesOn, ConcatenatedTyped
  <2>2. v \in Seq(WireEntries) /\ (s # <<>> => v # <<>>)
    BY ItemsTyped
  <2>3. Adds(w, v, type, x)
    BY <1>2
  <2>4. vd \in Seq(WireEntries) /\ Adds(w, vd, type, x)
    <3>1. CASE s = <<>>
      <4>1. d = <<>>
        BY <3>1
      <4> HIDE DEF v, d
      <4>2. v \o <<>> = v
        BY <2>2, ConcatEmptySeq
      <4> QED
        BY <2>2, <2>3, <4>1, <4>2
    <3>2. CASE s # <<>>
      <4>1. d = <<Delimiter>>
        BY <3>2
      <4>2. Delimiter \in WireEntries /\ Delimiter.data = <<>>
        BY WireEntryTyped, EmptySeq DEF Delimiter
      <4> HIDE DEF v, d, x
      <4> DEFINE e == Delimiter
      <4> HIDE DEF e
      <4>3. v \o <<e>> = Append(v, e) /\ Append(v, e) \in Seq(WireEntries)
        <5>1. e \in WireEntries
          BY <4>2 DEF e
        <5> QED
          BY <2>2, <5>1, AppendIsConcat, AppendProperties
      <4>4. Adds(w, Append(v, e), type, x \o e.data)
        BY <2>1, <2>2, <2>3, <3>2, <4>2, AddsOne DEF e
      <4>5. x \o e.data = x
        BY <2>1, <4>2, ConcatEmptySeq DEF e
      <4> QED
        BY <4>1, <4>3, <4>4, <4>5 DEF e
    <3> QED
      BY <3>1, <3>2
  <2> HIDE DEF v, d, x, vd, i, t
  <2>5. Adds(w, vd \o i, type, x \o data)
    BY <2>1, <2>4, AddsItem DEF i
  <2>6. t \in Good
    BY <2>1, <2>5
  <2> QED
    BY <2>6 DEF t
<1> HIDE DEF Good
<1>3. \A s \in Seq(Seq(Nat)) : s \in Good
  BY <1>1, <1>2, SequenceInduction
<1> QED
  BY <1>3 DEF Good

-----------------------------------------------------------------------------
(* What decodeWithLists has of a message that grows.                       *)

\* r is r0 with the items of type, l the length of the last entry, which d tells from a delimiter.
Holds(r, r0, type, items, l, d) ==
  r = [result |-> With(r0.result, type, items), lastType |-> type, lastLength |-> l,
       delimited |-> d, failed |-> FALSE]

LEMMA WithTwice ==
  ASSUME NEW f, NEW t, NEW a, NEW b
  PROVE  /\ With(With(f, t, a), t, b) = With(f, t, b)
         /\ t \in DOMAIN With(f, t, a) /\ With(f, t, a)[t] = a
BY DEF With

\* The first entry of a type begins its list.
LEMMA ListBegins ==
  ASSUME NEW r0, ~r0.failed, NEW e \in WireEntries, e.type \notin DOMAIN r0.result,
         e.type = 0 => e.length # 0
  PROVE  Holds(Listed(r0, e), r0, e.type, <<e.data>>, e.length, FALSE)
<1> DEFINE value == <<e.data>>
<1>1. value # <<>>
  OBVIOUS
<1> HIDE DEF value
<1>2. Listed(r0, e) = [result |-> With(r0.result, e.type, value), lastType |-> e.type, lastLength |-> e.length,
                       delimited |-> FALSE, failed |-> value = <<>>]
  BY DEF Listed, value
<1>3. (value = <<>>) = FALSE
  BY <1>1
<1> QED
  BY <1>2, <1>3 DEF Holds, value

\* The first entry after a delimiter begins the next item.
LEMMA ListGoesOn ==
  ASSUME NEW r, NEW r0, NEW e \in WireEntries, NEW items \in Seq(Seq(Nat)), NEW l,
         Holds(r, r0, e.type, items, l, TRUE), e.type = 0 => e.length # 0
  PROVE  Holds(Listed(r, e), r0, e.type, Append(items, e.data), e.length, FALSE)
<1> DEFINE value == Append(items, e.data)
           result == With(r0.result, e.type, items)
<1>1. value # <<>>
  <2>1. e.data \in Seq(Nat)
    BY WireEntryTyped
  <2> QED
    BY <2>1, AppendProperties
<1>2. e.type \in DOMAIN result /\ result[e.type] = items
  BY DEF With
<1>5. r = [result |-> result, lastType |-> e.type, lastLength |-> l, delimited |-> TRUE, failed |-> FALSE]
  BY DEF Holds
<1> HIDE DEF value, result
<1>3. Listed(r, e) = [result |-> With(result, e.type, value), lastType |-> e.type, lastLength |-> e.length,
                      delimited |-> FALSE, failed |-> value = <<>>]
  BY <1>2, <1>5 DEF Listed, value
<1>4. (value = <<>>) = FALSE /\ With(result, e.type, value) = With(r0.result, e.type, value)
  <2> DEFINE R == r0.result
             t == e.type
  <2> HIDE DEF R, t
  <2>1. \A a : With(With(R, t, a), t, value) = With(R, t, value)
    BY WithTwice
  <2> QED
    BY <1>1, <2>1 DEF R, t, result
<1> QED
  BY <1>3, <1>4 DEF Holds, value

\* What replaces the last element.
LEMMA LastReplaced ==
  ASSUME NEW S, NEW s \in Seq(S), NEW a \in S, NEW b \in S
  PROVE  LET old == Append(s, a)
         IN  /\ [old EXCEPT ![Len(old)] = b] = Append(s, b)
             /\ old[Len(old)] = a /\ Append(s, b) # <<>>
<1> DEFINE old == Append(s, a)
           new == Append(s, b)
           n == Len(s)
           N == Len(old)
           z == [old EXCEPT ![N] = b]
<1>1. /\ n \in Nat /\ old \in Seq(S) /\ N = n + 1 /\ old[n + 1] = a /\ \A i \in 1..n : old[i] = s[i]
  BY AppendProperties, LenProperties
<1>2. new \in Seq(S) /\ Len(new) = n + 1 /\ new[n + 1] = b /\ new # <<>> /\ \A i \in 1..n : new[i] = s[i]
  BY AppendProperties
<1> HIDE DEF old, new, n
<1>3. N \in 1..Len(old)
  BY <1>1
<1>4. z \in Seq(S) /\ Len(z) = N /\ \A i \in 1..N : z[i] = IF i = N THEN b ELSE old[i]
  <2>1. \A m \in 1..Len(old) : LET x == [old EXCEPT ![m] = b]
                               IN  x \in Seq(S) /\ Len(x) = Len(old)
                                   /\ \A i \in 1..Len(old) : x[i] = IF i = m THEN b ELSE old[i]
    BY <1>1, ExceptSeq
  <2> QED
    BY <1>3, <2>1
<1> HIDE DEF N, z
<1>5. \A i \in 1..N : z[i] = new[i]
  <2>1. \A i \in 1..N : i = N \/ i \in 1..n
    BY <1>1
  <2> QED
    BY <1>1, <1>2, <1>4, <2>1
<1>6. z = new
  <2>1. Len(z) = Len(new) /\ \A i \in 1..Len(z) : z[i] = new[i]
    BY <1>1, <1>2, <1>4, <1>5
  <2> QED
    BY <1>2, <1>4, <2>1, SeqEqual
<1> QED
  BY <1>1, <1>2, <1>6 DEF old, new, N, z

\* An entry after one of the greatest length continues its item.
LEMMA ItemGoesOn ==
  ASSUME NEW r, NEW r0, NEW e \in WireEntries, NEW items \in Seq(Seq(Nat)), NEW x \in Seq(Nat),
         Holds(r, r0, e.type, Append(items, x), MaxLength, FALSE), e.type = 0 => e.length # 0
  PROVE  Holds(Listed(r, e), r0, e.type, Append(items, x \o e.data), e.length, FALSE)
<1> DEFINE old == Append(items, x)
           value == Append(items, x \o e.data)
           result == With(r0.result, e.type, old)
<1>1. value # <<>> /\ value = [old EXCEPT ![Len(old)] = @ \o e.data]
  <2> DEFINE y == x \o e.data
             n == Len(old)
  <2>1. y \in Seq(Nat)
    BY WireEntryTyped, ConcatProperties
  <2> HIDE DEF y
  <2>2. [old EXCEPT ![n] = y] = Append(items, y) /\ old[n] = x /\ Append(items, y) # <<>>
    BY <2>1, LastReplaced
  <2> HIDE DEF old, n
  <2>3. [old EXCEPT ![n] = @ \o e.data] = [old EXCEPT ![n] = y]
    BY <2>2 DEF y
  <2> QED
    BY <2>2, <2>3 DEF y, n
<1>2. e.type \in DOMAIN result /\ result[e.type] = old
  <2> HIDE DEF old
  <2> QED
    BY DEF With
<1>5. r = [result |-> result, lastType |-> e.type, lastLength |-> MaxLength, delimited |-> FALSE, failed |-> FALSE]
  BY DEF Holds
<1> HIDE DEF value, result, old
<1>3. Listed(r, e) = [result |-> With(result, e.type, value), lastType |-> e.type, lastLength |-> e.length,
                      delimited |-> FALSE, failed |-> value = <<>>]
  BY <1>1, <1>2, <1>5 DEF Listed
<1>4. (value = <<>>) = FALSE /\ With(result, e.type, value) = With(r0.result, e.type, value)
  <2> DEFINE R == r0.result
             t == e.type
  <2> HIDE DEF R, t
  <2>1. \A a : With(With(R, t, a), t, value) = With(R, t, value)
    BY WithTwice
  <2> QED
    BY <1>1, <2>1 DEF R, t, result
<1> QED
  BY <1>3, <1>4 DEF Holds, value

\* A delimiter announces another item.
LEMMA DelimiterListed ==
  ASSUME NEW r, NEW r0, NEW type, NEW items, NEW l, Holds(r, r0, type, items, l, FALSE)
  PROVE  Holds(Listed(r, Delimiter), r0, type, items, l, TRUE)
<1>1. Delimiter.type = 0 /\ Delimiter.length = 0
  BY EmptySeq DEF Delimiter, WireEntry
<1> DEFINE R == With(r0.result, type, items)
<1>2. r = [result |-> R, lastType |-> type, lastLength |-> l, delimited |-> FALSE, failed |-> FALSE]
  BY DEF Holds
<1> HIDE DEF R
<1>3. Listed(r, Delimiter) = [r EXCEPT !.delimited = TRUE]
  BY <1>1, <1>2 DEF Listed
<1>4. Listed(r, Delimiter) = [result |-> R, lastType |-> type, lastLength |-> l, delimited |-> TRUE, failed |-> FALSE]
  BY <1>2, <1>3
<1> QED
  BY <1>4 DEF Holds, R

\* The decoder may read the next item of type: the list has only begun, or the items before are there.
Ready(r, r0, type, items) ==
  IF items = <<>> THEN r = r0 /\ ~r0.failed /\ type \notin DOMAIN r0.result
                  ELSE \E l : Holds(r, r0, type, items, l, TRUE)

LEMMA ItemListed ==
  ASSUME NEW u \in Seq(WireEntries), NEW type \in Nat, NEW items \in Seq(Seq(Nat)), NEW r0,
         Ready(ListedAll(u), r0, type, items), NEW data \in Seq(Nat), type = 0 => data # <<>>
  PROVE  \E l : Holds(ListedAll(u \o EncodeItem(type, data)), r0, type, Append(items, data), l, FALSE)
<1> DEFINE N == Len(data)
           So(wire, at, l) == /\ Holds(ListedAll(u \o wire), r0, type, Append(items, SubSeq(data, 1, at)), l, FALSE)
                              /\ at < N => l = MaxLength
           Good == {p \in Nat \X Seq(WireEntries) :
                      (p[1] = 0 /\ p[2] = <<>>) \/ (p[2] # <<>> /\ \E l : So(p[2], p[1], l))}
<1>1. <<0, <<>>>> \in Good
  <2>1. <<0, <<>>>> \in Nat \X Seq(WireEntries)
    BY EmptySeq
  <2> QED
    BY <2>1
<1>2. ASSUME NEW at \in 0..N, NEW wire \in Seq(WireEntries), <<at, wire>> \in Good, More(data, at, wire)
      PROVE  <<EndOf(data, at), Append(wire, PieceOf(type, data, at))>> \in Good
  <2> DEFINE e == PieceOf(type, data, at)
             end == EndOf(data, at)
             uw == u \o wire
             r == ListedAll(uw)
             x == SubSeq(data, 1, at)
             y == SubSeq(data, 1, end)
  <2>1. /\ e \in WireEntries /\ e.type = type /\ e.data \in Seq(Nat) /\ x \in Seq(Nat)
        /\ x \o e.data = y /\ end \in at..N /\ (end < N => e.length = MaxLength)
        /\ (at < N => e.length > 0) /\ e.length \in Nat /\ (at = 0 => e.data = y)
    BY PieceFacts
  <2>2. /\ (at = 0 /\ wire = <<>>) \/ (wire # <<>> /\ at < N /\ \E l : So(wire, at, l))
        /\ N \in Nat
    <3>1. N \in Nat
      BY LenProperties
    <3>2. (at = 0 /\ wire = <<>>) \/ (wire # <<>> /\ \E l : So(wire, at, l))
      BY <1>2
    <3>3. at < N \/ wire = <<>>
      BY <1>2 DEF More
    <3> HIDE DEF So, N
    <3> QED
      BY <3>1, <3>2, <3>3
  <2>3. type = 0 => e.length # 0
    <3>1. ASSUME type = 0 PROVE at < N
      <4>1. N # 0
        BY <3>1, EmptySeq
      <4> HIDE DEF So, N
      <4> QED
        BY <2>2, <4>1
    <3> HIDE DEF e, N
    <3> QED
      BY <2>1, <3>1
  <2>4. /\ uw \in Seq(WireEntries) /\ u \o Append(wire, e) = Append(uw, e)
    <3> HIDE DEF e
    <3>1. e \in WireEntries
      BY <2>1
    <3> QED
      BY <3>1, AppendToConcat
  <2>5. ListedAll(u \o Append(wire, e)) = Listed(r, e)
    <3> HIDE DEF uw, e
    <3> QED
      BY <2>1, <2>4, ListedGoesOn
  <2>6. Holds(Listed(r, e), r0, type, Append(items, y), e.length, FALSE)
    <3>1. CASE at = 0 /\ wire = <<>>
      <4>1. uw = u
        BY <3>1, ConcatEmptySeq
      <4>2. Ready(r, r0, type, items)
        BY <4>1
      <4> HIDE DEF e, r, y
      <4>3. CASE items = <<>>
        <5>1. r = r0 /\ ~r0.failed /\ type \notin DOMAIN r0.result
          BY <4>2, <4>3 DEF Ready
        <5>2. Holds(Listed(r0, e), r0, e.type, <<e.data>>, e.length, FALSE)
          BY <2>1, <2>3, <5>1, ListBegins
        <5>3. Append(items, y) = <<y>>
          BY <4>3
        <5> QED
          BY <2>1, <3>1, <5>1, <5>2, <5>3
      <4>4. CASE items # <<>>
        <5>1. PICK l : Holds(r, r0, e.type, items, l, TRUE)
          BY <2>1, <4>2, <4>4 DEF Ready
        <5>2. Holds(Listed(r, e), r0, e.type, Append(items, e.data), e.length, FALSE)
          BY <2>1, <2>3, <5>1, ListGoesOn
        <5> QED
          BY <2>1, <3>1, <5>2
      <4> QED
        BY <4>3, <4>4
    <3>2. CASE wire # <<>> /\ at < N /\ \E l : So(wire, at, l)
      <4>1. Holds(r, r0, type, Append(items, x), MaxLength, FALSE)
        BY <3>2
      <4> HIDE DEF e, r, y, x
      <4>2. Holds(Listed(r, e), r0, e.type, Append(items, x \o e.data), e.length, FALSE)
        BY <2>1, <2>3, <4>1, ItemGoesOn
      <4> QED
        BY <2>1, <4>2
    <3> HIDE DEF So, N, e, r, y, x
    <3> QED
      BY <2>2, <3>1, <3>2
  <2>7. So(Append(wire, e), end, e.length)
    <3> HIDE DEF e, end, N
    <3> QED
      BY <2>1, <2>5, <2>6
  <2>8. Append(wire, e) \in Seq(WireEntries) /\ Append(wire, e) # <<>> /\ end \in Nat
    <3> HIDE DEF e, end, N, So
    <3>1. e \in WireEntries /\ end \in Nat
      BY <2>1, <2>2
    <3> QED
      BY <3>1, AppendProperties
  <2> HIDE DEF So, e, end
  <2>9. <<end, Append(wire, e)>> \in Good
    BY <2>7, <2>8
  <2> QED
    BY <2>9 DEF e, end
<1>3. <<N, EncodeItem(type, data)>> \in Good /\ EncodeItem(type, data) # <<>>
  <2> HIDE DEF Good
  <2> QED
    BY <1>1, <1>2, ItemInduction
<1>4. SubSeq(data, 1, N) = data
  BY SubSeqFull
<1>5. \E l : So(EncodeItem(type, data), N, l)
  <2> HIDE DEF So, N
  <2> QED
    BY <1>3
<1> QED
  BY <1>4, <1>5

LEMMA EntriesAssociate == \A x, y, z \in Seq(WireEntries) : x \o (y \o z) = (x \o y) \o z
BY ConcatAssociative

\* A list that the decoder has not met is read item by item.
LEMMA ItemsListed ==
  ASSUME NEW w \in Seq(WireEntries), NEW type \in Nat,
         ~ListedAll(w).failed, type \notin DOMAIN ListedAll(w).result
  PROVE  \A items \in Seq(Seq(Nat)) :
           items # <<>> /\ (type = 0 => \A k \in 1..Len(items) : items[k] # <<>>) =>
             \E l : Holds(ListedAll(w \o EncodeItems(type, items)), ListedAll(w), type, items, l, FALSE)
<1> DEFINE r0 == ListedAll(w)
           Clear(s) == type = 0 => \A k \in 1..Len(s) : s[k] # <<>>
           So(s) == \E l : Holds(ListedAll(w \o EncodeItems(type, s)), r0, type, s, l, FALSE)
           Good == {s \in Seq(Seq(Nat)) : s # <<>> /\ Clear(s) => So(s)}
<1>1. <<>> \in Good
  BY EmptySeq
<1>2. ASSUME NEW s \in Seq(Seq(Nat)), NEW data \in Seq(Nat), s \in Good
      PROVE  Append(s, data) \in Good
  <2> DEFINE v == EncodeItems(type, s)
             d == IF s # <<>> THEN <<Delimiter>> ELSE <<>>
             i == EncodeItem(type, data)
             t == Append(s, data)
             vd == v \o d
             u == w \o vd
  <2>1. t \in Seq(Seq(Nat)) /\ EncodeItems(type, t) = vd \o i
    <3>1. t \in Seq(Seq(Nat))
      BY AppendProperties
    <3>2. EncodeItems(type, Append(s, data)) = v \o d \o i
      BY ItemsGoOn
    <3> QED
      BY <3>1, <3>2
  <2>2. ASSUME Clear(t) PROVE So(t)
    <3>1. /\ type = 0 => data # <<>>
          /\ Clear(s)
      <4>1. /\ Len(t) = Len(s) + 1 /\ Len(s) \in Nat /\ t[Len(s) + 1] = data
            /\ \A k \in 1..Len(s) : t[k] = s[k]
        BY AppendProperties, LenProperties
      <4> HIDE DEF t
      <4>2. Len(s) + 1 \in 1..Len(t) /\ \A k \in 1..Len(s) : k \in 1..Len(t)
        BY <4>1
      <4> QED
        BY <2>2, <4>1, <4>2
    <3>2. v \in Seq(WireEntries) /\ d \in Seq(WireEntries) /\ i \in Seq(WireEntries)
      <4>1. Delimiter \in WireEntries
        BY WireEntryTyped, EmptySeq DEF Delimiter
      <4>2. d \in Seq(WireEntries)
        BY <4>1
      <4> QED
        BY <4>2, ItemsTyped, ItemTyped
    <3>3. u \in Seq(WireEntries) /\ w \o (vd \o i) = u \o i
      <4> HIDE DEF v, d, i
      <4>1. vd \in Seq(WireEntries)
        BY <3>2, ConcatProperties
      <4> HIDE DEF vd
      <4>2. w \o (vd \o i) = (w \o vd) \o i
        BY <3>2, <4>1, EntriesAssociate
      <4>3. w \o vd \in Seq(WireEntries)
        BY <4>1, ConcatProperties
      <4> QED
        BY <4>2, <4>3
    <3>4. Ready(ListedAll(u), r0, type, s)
      <4>1. CASE s = <<>>
        <5>1. v = <<>> /\ d = <<>>
          BY <4>1, EmptyRuns
        <5>2. u = w
          BY <5>1, ConcatEmptySeq, EmptySeq
        <5> QED
          BY <4>1, <5>2 DEF Ready
      <4>2. CASE s # <<>>
        <5>1. PICK l : Holds(ListedAll(w \o v), r0, type, s, l, FALSE)
          BY <1>2, <3>1, <4>2
        <5>2. Delimiter \in WireEntries /\ d = <<Delimiter>>
          BY <4>2, WireEntryTyped, EmptySeq DEF Delimiter
        <5> DEFINE e == Delimiter
                   wv == w \o v
        <5>3. wv \in Seq(WireEntries) /\ u = Append(wv, e)
          <6> HIDE DEF v, d, e
          <6>1. e \in WireEntries /\ d = <<e>>
            BY <5>2 DEF e
          <6>2. v \o <<e>> = Append(v, e)
            BY <3>2, <6>1, AppendIsConcat
          <6>3. w \o Append(v, e) = Append(wv, e) /\ wv \in Seq(WireEntries)
            BY <3>2, <6>1, AppendToConcat
          <6> QED
            BY <6>1, <6>2, <6>3
        <5> HIDE DEF u, wv
        <5>4. ListedAll(u) = Listed(ListedAll(wv), e)
          BY <5>2, <5>3, ListedGoesOn
        <5>5. Holds(Listed(ListedAll(wv), e), r0, type, s, l, TRUE)
          BY <5>1, DelimiterListed DEF wv
        <5> QED
          BY <4>2, <5>4, <5>5 DEF Ready
      <4> QED
        BY <4>1, <4>2
    <3> HIDE DEF u, i, vd, r0
    <3>5. \E l : Holds(ListedAll(u \o i), r0, type, Append(s, data), l, FALSE)
      BY <3>1, <3>3, <3>4, ItemListed DEF i
    <3> QED
      BY <2>1, <3>3, <3>5 DEF t
  <2> HIDE DEF So, Clear
  <2>3. t \in Good
    BY <2>1, <2>2
  <2> QED
    BY <2>3
<1> HIDE DEF Good
<1>3. \A s \in Seq(Seq(Nat)) : s \in Good
  BY <1>1, <1>2, SequenceInduction
<1> QED
  BY <1>3 DEF Good

-----------------------------------------------------------------------------
(* What decodeList has of a structure.                                     *)

\* The elements of a concatenation are those of its parts.
LEMMA ConcatElements ==
  ASSUME NEW S, NEW a \in Seq(S), NEW b \in Seq(S)
  PROVE  /\ Len(a) \in Nat
         /\ \A k \in 1..Len(a \o b) : \/ k \in 1..Len(a) /\ (a \o b)[k] = a[k]
                                      \/ k - Len(a) \in 1..Len(b) /\ (a \o b)[k] = b[k - Len(a)]
         /\ a # <<>> => (a \o b)[1] = a[1] /\ a \o b # <<>>
<1> DEFINE c == a \o b
           m == Len(a)
           n == Len(b)
<1>1. /\ m \in Nat /\ n \in Nat /\ Len(c) = m + n /\ c \in Seq(S)
      /\ \A k \in 1..(m + n) : c[k] = IF k <= m THEN a[k] ELSE b[k - m]
  <2>1. m \in Nat /\ n \in Nat
    BY LenProperties
  <2>2. /\ Len(c) = m + n /\ c \in Seq(S)
        /\ \A k \in 1..(m + n) : c[k] = IF k <= m THEN a[k] ELSE b[k - m]
    BY ConcatProperties
  <2> QED
    BY <2>1, <2>2
<1>2. a # <<>> => m # 0
  BY EmptySeq
<1>3. Len(c) # 0 => c # <<>>
  BY EmptySeq
<1> HIDE DEF c, m, n
<1>4. \A k \in 1..Len(c) : (k \in 1..m /\ c[k] = a[k]) \/ (k - m \in 1..n /\ c[k] = b[k - m])
  BY <1>1
<1>5. a # <<>> => c[1] = a[1] /\ c # <<>>
  BY <1>1, <1>2, <1>3
<1> QED
  BY <1>1, <1>4, <1>5 DEF c, m, n

LEMMA ItemTypes ==
  ASSUME NEW type \in Nat, NEW data \in Seq(Nat)
  PROVE  \A k \in 1..Len(EncodeItem(type, data)) : EncodeItem(type, data)[k].type = type
<1> DEFINE Good == {p \in Nat \X Seq(WireEntries) : \A k \in 1..Len(p[2]) : p[2][k].type = type}
<1>1. <<0, <<>>>> \in Good
  <2>1. <<0, <<>>>> \in Nat \X Seq(WireEntries)
    BY EmptySeq
  <2>2. Len(<<>>) = 0
    BY EmptySeq
  <2> QED
    BY <2>1, <2>2
<1>2. ASSUME NEW at \in 0..Len(data), NEW wire \in Seq(WireEntries), <<at, wire>> \in Good
      PROVE  <<EndOf(data, at), Append(wire, PieceOf(type, data, at))>> \in Good
  <2> DEFINE e == PieceOf(type, data, at)
             end == EndOf(data, at)
             t == Append(wire, e)
             n == Len(wire)
  <2>1. e \in WireEntries /\ e.type = type /\ end \in Nat
    <3>1. Len(data) \in Nat
      BY LenProperties
    <3>2. e \in WireEntries /\ e.type = type /\ end \in at..Len(data)
      BY PieceFacts
    <3> QED
      BY <3>1, <3>2
  <2>2. \A k \in 1..n : wire[k].type = type
    BY <1>2
  <2> HIDE DEF e, end
  <2>3. t \in Seq(WireEntries) /\ Len(t) = n + 1 /\ n \in Nat /\ t[n + 1] = e /\ \A k \in 1..n : t[k] = wire[k]
    BY <2>1, AppendProperties, LenProperties
  <2> HIDE DEF t, n
  <2>4. \A k \in 1..Len(t) : k = n + 1 \/ k \in 1..n
    BY <2>3
  <2>5. \A k \in 1..Len(t) : t[k].type = type
    BY <2>1, <2>2, <2>3, <2>4
  <2>6. <<end, t>> \in Good
    BY <2>1, <2>3, <2>5
  <2> QED
    BY <2>6 DEF e, end, t
<1>3. <<Len(data), EncodeItem(type, data)>> \in Good
  <2> HIDE DEF Good
  <2> QED
    BY <1>1, <1>2, ItemInduction
<1> QED
  BY <1>3

\* Of a list the first entry has the type, the others have it or are delimiters.
LEMMA ItemsTypes ==
  ASSUME NEW type \in Nat
  PROVE  \A items \in Seq(Seq(Nat)) :
           LET v == EncodeItems(type, items)
           IN  /\ v # <<>> => v[1].type = type
               /\ \A k \in 1..Len(v) : v[k].type = type \/ v[k].type = 0
<1> DEFINE So(v) == /\ v # <<>> => v[1].type = type
                    /\ \A k \in 1..Len(v) : v[k].type = type \/ v[k].type = 0
           Good == {s \in Seq(Seq(Nat)) : So(EncodeItems(type, s))}
<1>1. <<>> \in Good
  BY EmptyRuns, EmptySeq
<1>2. ASSUME NEW s \in Seq(Seq(Nat)), NEW data \in Seq(Nat), s \in Good
      PROVE  Append(s, data) \in Good
  <2> DEFINE v == EncodeItems(type, s)
             d == IF s # <<>> THEN <<Delimiter>> ELSE <<>>
             i == EncodeItem(type, data)
             t == Append(s, data)
             vd == v \o d
  <2>1. t \in Seq(Seq(Nat)) /\ EncodeItems(type, t) = vd \o i
    <3>1. t \in Seq(Seq(Nat))
      BY AppendProperties
    <3>2. EncodeItems(type, Append(s, data)) = v \o d \o i
      BY ItemsGoOn
    <3> QED
      BY <3>1, <3>2
  <2>2. /\ v \in Seq(WireEntries) /\ d \in Seq(WireEntries) /\ i \in Seq(WireEntries) /\ i # <<>>
        /\ s # <<>> => v # <<>>
    <3>1. Delimiter \in WireEntries
      BY WireEntryTyped, EmptySeq DEF Delimiter
    <3>2. d \in Seq(WireEntries)
      BY <3>1
    <3> QED
      BY <3>2, ItemsTyped, ItemTyped
  <2>3. /\ So(v) /\ \A k \in 1..Len(i) : i[k].type = type
        /\ \A k \in 1..Len(d) : d[k].type = 0
    <3>1. \A k \in 1..Len(d) : d[k].type = 0
      <4>1. Delimiter.type = 0
        BY DEF Delimiter, WireEntry
      <4>2. CASE s = <<>>
        BY <4>2, EmptySeq
      <4>3. CASE s # <<>>
        <5> DEFINE e == Delimiter
        <5> HIDE DEF e
        <5>1. d = <<e>> /\ e.type = 0
          BY <4>1, <4>3 DEF e
        <5> HIDE DEF d
        <5>2. \A k \in 1..Len(d) : d[k] = e
          BY <5>1
        <5> QED
          BY <5>1, <5>2
      <4> QED
        BY <4>2, <4>3
    <3> QED
      BY <1>2, <3>1, ItemTypes
  <2>4. s = <<>> => v = <<>> /\ d = <<>>
    BY EmptyRuns
  <2> HIDE DEF v, d, i, t
  <2>5. vd \in Seq(WireEntries) /\ So(vd) /\ (vd = <<>> <=> s = <<>>)
    <3>1. vd \in Seq(WireEntries)
      BY <2>2, ConcatProperties
    <3>2. \A k \in 1..Len(vd) : vd[k].type = type \/ vd[k].type = 0
      <4>1. \A k \in 1..Len(vd) : (k \in 1..Len(v) /\ vd[k] = v[k]) \/ (k - Len(v) \in 1..Len(d) /\ vd[k] = d[k - Len(v)])
        BY <2>2, ConcatElements
      <4> HIDE DEF vd
      <4> QED
        BY <2>3, <4>1
    <3>3. v # <<>> => vd # <<>> /\ vd[1] = v[1]
      BY <2>2, ConcatElements
    <3>4. s = <<>> => vd = <<>>
      BY <2>4, ConcatEmptySeq, EmptySeq
    <3> HIDE DEF vd
    <3> QED
      BY <2>2, <2>3, <3>1, <3>2, <3>3, <3>4
  <2> HIDE DEF vd
  <2> DEFINE w == vd \o i
  <2>6. So(w)
    <3>1. \A k \in 1..Len(w) : w[k].type = type \/ w[k].type = 0
      <4>1. \A k \in 1..Len(w) : (k \in 1..Len(vd) /\ w[k] = vd[k]) \/ (k - Len(vd) \in 1..Len(i) /\ w[k] = i[k - Len(vd)])
        BY <2>2, <2>5, ConcatElements
      <4> HIDE DEF w
      <4> QED
        BY <2>3, <2>5, <4>1
    <3>2. w[1].type = type
      <4>1. CASE vd = <<>>
        <5>1. w = i
          BY <2>2, <4>1, ConcatEmptySeq
        <5>2. 1 \in 1..Len(i)
          BY <2>2, EmptySeq
        <5> HIDE DEF w
        <5> QED
          BY <2>3, <5>1, <5>2
      <4>2. CASE vd # <<>>
        <5>1. w[1] = vd[1]
          BY <2>2, <2>5, <4>2, ConcatElements
        <5> HIDE DEF w
        <5> QED
          BY <2>5, <4>2, <5>1
      <4> QED
        BY <4>1, <4>2
    <3> HIDE DEF w
    <3> QED
      BY <3>1, <3>2
  <2> HIDE DEF So, w
  <2>7. t \in Good
    BY <2>1, <2>6 DEF w
  <2> QED
    BY <2>7 DEF t
<1> HIDE DEF Good
<1>3. \A s \in Seq(Seq(Nat)) : s \in Good
  BY <1>1, <1>2, SequenceInduction
<1> QED
  BY <1>3 DEF Good

\* One short item is one entry.
LEMMA ShortItem ==
  ASSUME NEW type \in Nat, NEW items \in Seq(Seq(Nat)), Len(items) = 1, Len(items[1]) <= MaxLength
  PROVE  Len(EncodeItems(type, items)) = 1
<1> DEFINE x == items[1]
           i == EncodeItem(type, x)
           none == <<>>
<1>1. x \in Seq(Nat)
  <2>1. 1 \in 1..Len(items)
    OBVIOUS
  <2> QED
    BY <2>1, ElementOfSeq
<1>2. items = Append(none, x)
  <2>1. items # <<>>
    BY EmptySeq
  <2>2. PICK s \in Seq(Seq(Nat)), y \in Seq(Nat) : items = Append(s, y)
    BY <2>1, SequenceEmptyOrAppend
  <2>3. Len(items) = Len(s) + 1 /\ Len(s) \in Nat /\ items[Len(s) + 1] = y
    BY <2>2, AppendProperties, LenProperties
  <2>4. Len(s) = 0
    <3> DEFINE m == Len(items)
               n == Len(s)
    <3>1. m = 1 /\ m = n + 1 /\ n \in Nat
      BY <2>3
    <3> HIDE DEF m, n
    <3>2. n = 0
      BY <3>1
    <3> QED
      BY <3>2 DEF n
  <2>5. s = <<>> /\ x = y
    BY <2>3, <2>4, EmptySeq
  <2> QED
    BY <2>2, <2>5
<1>3. i = <<WireEntry(type, x)>>
  BY DEF EncodeItem
<1>4. Len(i) = 1 /\ i \in Seq(WireEntries)
  <2>1. WireEntry(type, x) \in WireEntries
    BY <1>1, WireEntryTyped
  <2> DEFINE e == WireEntry(type, x)
  <2> HIDE DEF e
  <2>2. i = <<e>> /\ e \in WireEntries
    BY <1>3, <2>1 DEF e
  <2> HIDE DEF i
  <2> QED
    BY <2>2
<1> HIDE DEF i, x
<1>5. EncodeItems(type, Append(none, x)) = EncodeItems(type, none) \o (IF none # <<>> THEN <<Delimiter>> ELSE <<>>) \o i
  <2>1. none \in Seq(Seq(Nat))
    BY EmptySeq
  <2> HIDE DEF none
  <2> QED
    BY <1>1, <2>1, ItemsGoOn DEF i
<1>6. EncodeItems(type, items) = <<>> \o <<>> \o i
  BY <1>2, <1>5, EmptyRuns
<1>7. <<>> \o <<>> = <<>> /\ <<>> \o i = i
  BY <1>4, ConcatEmptySeq, EmptySeq
<1> QED
  BY <1>4, <1>6, <1>7

\* A structure that begins with an entry of type start, and has no other.
LEMMA OneStructure ==
  ASSUME NEW start \in Nat, NEW w \in Seq(WireEntries), w # <<>>, w[1].type = start,
         \A k \in 2..Len(w) : w[k].type # start,
         NEW u \in Seq(WireEntries), StructuredAll(start, u).failed = FALSE
  PROVE  StructuredAll(start, u \o w) =
           [finished |-> Finished(StructuredAll(start, u)), begun |-> TRUE,
            current |-> JoinedAll(w), failed |-> FALSE]
<1> DEFINE r == StructuredAll(start, u)
           N == Len(w)
           So(v) == StructuredAll(start, u \o v) =
                      [finished |-> Finished(r), begun |-> TRUE, current |-> JoinedAll(v), failed |-> FALSE]
           Good == {j \in 0..N : j = 0 \/ So(UpTo(w, j))}
<1>1. /\ N \in Nat /\ N # 0 /\ UpTo(w, 0) = <<>> /\ UpTo(w, N) = w
      /\ \A j \in 0..N : UpTo(w, j) \in Seq(WireEntries)
      /\ \A j \in 1..N : w[j] \in WireEntries /\ UpTo(w, j) = Append(UpTo(w, j - 1), w[j])
  BY Prefixed, EmptySeq
<1> HIDE DEF N
<1>2. ASSUME NEW j \in 1..N, j - 1 \in Good PROVE j \in Good
  <2> DEFINE v == UpTo(w, j - 1)
             e == w[j]
             t == UpTo(w, j)
             uv == u \o v
             R == StructuredAll(start, uv)
  <2>1. v \in Seq(WireEntries) /\ e \in WireEntries /\ t = Append(v, e)
    <3>1. j - 1 \in 0..N
      BY <1>1
    <3> QED
      BY <1>1, <3>1
  <2>2. (j = 1 /\ v = <<>> /\ e.type = start) \/ (j # 1 /\ So(v) /\ e.type # start)
    <3>1. CASE j = 1
      BY <1>1, <3>1
    <3>2. CASE j # 1
      <4>1. j \in 2..N /\ j - 1 # 0
        BY <1>1, <3>2
      <4>2. e.type # start
        BY <4>1 DEF N
      <4>3. So(v)
        BY <1>2, <4>1
      <4> QED
        BY <3>2, <4>2, <4>3
    <3> QED
      BY <3>1, <3>2
  <2> HIDE DEF v, e
  <2>3. uv \in Seq(WireEntries) /\ u \o Append(v, e) = Append(uv, e)
    BY <2>1, AppendToConcat
  <2>4. JoinedAll(Append(v, e)) = Joined(JoinedAll(v), e)
    BY <2>1, JoinedGoesOn
  <2>5. StructuredAll(start, u \o Append(v, e)) = Structured(start, R, e)
    <3> HIDE DEF uv
    <3> QED
      BY <2>1, <2>3, StructuredGoesOn
  <2>6. So(Append(v, e))
    <3>1. CASE j = 1 /\ v = <<>> /\ e.type = start
      <4>1. uv = u /\ JoinedAll(v) = NothingRead
        BY <3>1, ConcatEmptySeq, EmptyRuns
      <4>2. R = r
        BY <4>1
      <4> HIDE DEF r, R
      <4>3. r.failed = FALSE
        BY DEF r
      <4>4. Structured(start, R, e) = [finished |-> Finished(r), begun |-> TRUE,
                                       current |-> Joined(NothingRead, e), failed |-> r.failed]
        BY <3>1, <4>2 DEF Structured
      <4> QED
        BY <2>4, <2>5, <4>1, <4>3, <4>4
    <3>2. CASE j # 1 /\ So(v) /\ e.type # start
      <4> DEFINE F == Finished(r)
                 J == JoinedAll(v)
      <4>1. R = [finished |-> F, begun |-> TRUE, current |-> J, failed |-> FALSE]
        BY <3>2
      <4> HIDE DEF R, F, J
      <4>2. Structured(start, R, e) = [finished |-> R.finished, begun |-> R.begun, current |-> Joined(R.current, e),
                                       failed |-> R.failed \/ ~R.begun]
        BY <3>2 DEF Structured
      <4>3. Structured(start, R, e) = [finished |-> F, begun |-> TRUE, current |-> Joined(J, e), failed |-> FALSE]
        BY <4>1, <4>2
      <4> QED
        BY <2>4, <2>5, <4>3 DEF F, J
    <3> HIDE DEF So
    <3> QED
      BY <2>2, <3>1, <3>2
  <2> HIDE DEF So, t
  <2>7. So(t)
    BY <2>1, <2>6
  <2> QED
    BY <1>1, <2>7 DEF t
<1>3. 0 \in Good
  BY <1>1
<1>4. 0..N \subseteq Good
  <2> HIDE DEF Good
  <2> QED
    BY <1>1, <1>2, <1>3, InductionUpTo
<1>5. So(UpTo(w, N))
  <2> HIDE DEF So
  <2>1. N \in 0..N
    BY <1>1
  <2> QED
    BY <1>1, <1>4, <2>1
<1> QED
  BY <1>1, <1>5

-----------------------------------------------------------------------------
(* The messages that encode makes.                                         *)

Entries == [type : Types, items : ItemLists]

LEMMA ItemListsTyped ==
  \A items \in ItemLists : items \in Seq(Seq(Nat)) /\ items # <<>>
<1> SUFFICES ASSUME NEW items \in ItemLists PROVE items \in Seq(Seq(Nat)) /\ items # <<>>
  OBVIOUS
<1>1. PICK n \in 1..MaxItems : items \in [1..n -> Items]
  BY DEF ItemLists
<1>2. \A b \in Items : b \in Seq(Nat)
  BY TLVAssumption
<1>3. n \in Nat /\ n # 0 /\ items \in [1..n -> Seq(Nat)]
  BY <1>1, <1>2, TLVAssumption
<1>4. items \in Seq(Seq(Nat))
  BY <1>3, SeqDef
<1>5. 1 \in DOMAIN items
  BY <1>3
<1>6. DOMAIN items = 1..Len(items)
  BY <1>4, LenProperties
<1>7. Len(<<>>) = 0
  BY EmptySeq
<1> QED
  BY <1>4, <1>5, <1>6, <1>7

LEMMA EntriesGoOn ==
  ASSUME NEW es \in Seq(Entries), NEW e \in Entries
  PROVE  /\ Append(es, e) \in Seq(Entries) /\ Len(es) \in Nat /\ Len(Append(es, e)) = Len(es) + 1
         /\ \A k \in 1..Len(es) : k \in 1..(Len(es) + 1) /\ Append(es, e)[k] = es[k] /\ es[k] \in Entries
         /\ Len(es) + 1 \in 1..(Len(es) + 1) /\ Append(es, e)[Len(es) + 1] = e
         /\ \A k \in 1..(Len(es) + 1) : k = Len(es) + 1 \/ k \in 1..Len(es)
<1>1. /\ Append(es, e) \in Seq(Entries) /\ Len(es) \in Nat /\ Len(Append(es, e)) = Len(es) + 1
      /\ \A k \in 1..Len(es) : Append(es, e)[k] = es[k] /\ es[k] \in Entries
      /\ Append(es, e)[Len(es) + 1] = e
  BY AppendProperties, LenProperties, ElementOfSeq
<1> DEFINE n == Len(es)
<1>2. n \in Nat
  BY <1>1
<1> HIDE DEF n
<1>3. /\ \A k \in 1..n : k \in 1..(n + 1)
      /\ n + 1 \in 1..(n + 1) /\ \A k \in 1..(n + 1) : k = n + 1 \/ k \in 1..n
  BY <1>2
<1> QED
  BY <1>1, <1>3 DEF n

\* Another entry joins those that are there.
LEMMA JoinsOn ==
  ASSUME NEW w \in Seq(WireEntries), NEW es \in Seq(Entries), NEW e \in Entries, JoinsBack(w, es),
         \A k \in 1..Len(es) : es[k].type # e.type
  PROVE  JoinsBack(w \o EncodeItems(e.type, e.items), Append(es, e))
<1> DEFINE v == EncodeItems(e.type, e.items)
           t == Append(es, e)
           n == Len(es)
           x == Concatenated(e.items)
           J == JoinedAll(w)
           K == JoinedAll(w \o v)
           type == e.type
<1>1. type \in Nat /\ e.items \in Seq(Seq(Nat)) /\ e.items # <<>>
  BY TLVAssumption, ItemListsTyped DEF Entries
<1>2. v # <<>> /\ Adds(w, v, type, x) /\ x \in Seq(Nat)
  <2> DEFINE items == e.items
  <2>1. items \in Seq(Seq(Nat)) /\ items # <<>>
    BY <1>1
  <2> HIDE DEF items, type
  <2>2. EncodeItems(type, items) # <<>> /\ Adds(w, EncodeItems(type, items), type, Concatenated(items))
    BY <1>1, <2>1, ItemsTyped, AddsItems
  <2>3. Concatenated(items) \in Seq(Nat)
    BY <2>1, ConcatenatedTyped
  <2> QED
    BY <2>2, <2>3 DEF items, type
<1>3. /\ \A u \in Nat : ValueOf(K, u) = ValueOf(J, u) \o (IF u = type THEN x ELSE <<>>)
      /\ DOMAIN J \subseteq DOMAIN K /\ type \in DOMAIN K
  BY <1>2 DEF Adds
<1>4. \A u \in Nat : ValueOf(J, u) \in Seq(Nat)
  BY JoinedTyped
<1>5. /\ n \in Nat /\ Len(t) = n + 1
      /\ \A k \in 1..n : k \in 1..(n + 1) /\ t[k] = es[k] /\ es[k] \in Entries
      /\ n + 1 \in 1..(n + 1) /\ t[n + 1] = e /\ \A k \in 1..(n + 1) : k = n + 1 \/ k \in 1..n
  BY EntriesGoOn
<1>6. /\ \A k \in 1..n : es[k].type \in DOMAIN J /\ ValueOf(J, es[k].type) = Concatenated(es[k].items)
      /\ \A u \in Nat : (\A k \in 1..n : es[k].type # u) => ValueOf(J, u) = <<>>
  BY DEF JoinsBack
<1>7. \A k \in 1..n : es[k].type # type /\ es[k].type \in Nat
  BY <1>5, TLVAssumption DEF Entries
<1> HIDE DEF v, t, n, x, J, K
<1>8. \A u \in Nat : u # type => ValueOf(K, u) = ValueOf(J, u)
  <2> SUFFICES ASSUME NEW u \in Nat, u # type PROVE ValueOf(K, u) = ValueOf(J, u)
    OBVIOUS
  <2> DEFINE y == ValueOf(J, u)
  <2>1. y \in Seq(Nat) /\ ValueOf(K, u) = y \o <<>>
    BY <1>3, <1>4
  <2> HIDE DEF y
  <2>2. y \o <<>> = y
    BY <2>1, ConcatEmptySeq
  <2> QED
    BY <2>1, <2>2 DEF y
<1>9. ValueOf(K, type) = x
  <2>1. ValueOf(J, type) = <<>>
    BY <1>1, <1>6, <1>7
  <2>2. <<>> \o x = x
    BY <1>2, ConcatEmptySeq
  <2> QED
    BY <1>1, <1>3, <2>1, <2>2
<1>10. ASSUME NEW k \in 1..(n + 1)
       PROVE  t[k].type \in DOMAIN K /\ ValueOf(K, t[k].type) = Concatenated(t[k].items)
  <2>1. CASE k = n + 1
    BY <1>3, <1>5, <1>9, <2>1 DEF x
  <2>2. CASE k \in 1..n
    <3>1. t[k] = es[k] /\ es[k].type # type /\ es[k].type \in Nat /\ es[k].type \in DOMAIN K
      BY <1>3, <1>5, <1>6, <1>7, <2>2
    <3>2. ValueOf(K, es[k].type) = ValueOf(J, es[k].type)
      BY <1>8, <3>1
    <3> QED
      BY <1>6, <2>2, <3>1, <3>2
  <2> QED
    BY <1>5, <2>1, <2>2
<1>11. ASSUME NEW u \in Nat, \A k \in 1..(n + 1) : t[k].type # u
       PROVE  ValueOf(K, u) = <<>>
  <2>1. u # type /\ \A k \in 1..n : es[k].type # u
    BY <1>5, <1>11
  <2> QED
    BY <1>6, <1>8, <2>1
<1> QED
  BY <1>5, <1>10, <1>11 DEF JoinsBack, K, v, t

\* Another list follows those that are there.
LEMMA ListsOn ==
  ASSUME NEW w \in Seq(WireEntries), NEW es \in Seq(Entries), NEW e \in Entries,
         ListsBack(ListedAll(w), es), \A k \in 1..Len(es) : es[k].type # e.type,
         ~(e.type = 0 /\ Contains(e.items, <<>>))
  PROVE  ListsBack(ListedAll(w \o EncodeItems(e.type, e.items)), Append(es, e))
<1> DEFINE v == EncodeItems(e.type, e.items)
           t == Append(es, e)
           n == Len(es)
           r == ListedAll(w)
           R == ListedAll(w \o v)
           type == e.type
           items == e.items
           T == {es[k].type : k \in 1..n}
           U == {t[k].type : k \in 1..(n + 1)}
<1>1. type \in Nat /\ items \in Seq(Seq(Nat)) /\ items # <<>>
  BY TLVAssumption, ItemListsTyped DEF Entries
<1>2. /\ n \in Nat /\ Len(t) = n + 1
      /\ \A k \in 1..n : k \in 1..(n + 1) /\ t[k] = es[k]
      /\ n + 1 \in 1..(n + 1) /\ t[n + 1] = e /\ \A k \in 1..(n + 1) : k = n + 1 \/ k \in 1..n
  BY EntriesGoOn
<1>3. /\ ~r.failed /\ r.result = [u \in T |-> r.result[u]]
      /\ \A k \in 1..n : r.result[es[k].type] = es[k].items
  BY DEF ListsBack
<1>4. type \notin T /\ \A k \in 1..n : es[k].type # type
  OBVIOUS
<1>5. type = 0 => \A k \in 1..Len(items) : items[k] # <<>>
  BY DEF Contains
<1>6. PICK l : Holds(R, r, type, items, l, FALSE)
  <2> HIDE DEF type, items, r
  <2>1. type \notin DOMAIN r.result
    BY <1>3, <1>4
  <2>2. \E l : Holds(ListedAll(w \o EncodeItems(type, items)), r, type, items, l, FALSE)
    BY <1>1, <1>3, <1>5, <2>1, ItemsListed DEF r
  <2> QED
    BY <2>2 DEF type, items
<1>7. U = T \cup {type}
  <2> HIDE DEF t, n
  <2> QED
    BY <1>2
<1> HIDE DEF r, R, T, U, n, t, items, type
<1> DEFINE f == With(r.result, type, items)
<1>8. R = [result |-> f, lastType |-> type, lastLength |-> l, delimited |-> FALSE, failed |-> FALSE]
  BY <1>6 DEF Holds
<1>9. DOMAIN r.result = T
  BY <1>3
<1>10. /\ f = [u \in U |-> f[u]] /\ f[type] = items
       /\ \A u \in T : u # type => f[u] = r.result[u]
  BY <1>7, <1>9 DEF With
<1> HIDE DEF f
<1>11. ~R.failed /\ ~R.delimited /\ R.result = f
  BY <1>8
<1>12. ASSUME NEW k \in 1..(n + 1)
       PROVE  f[t[k].type] = t[k].items
  <2>1. CASE k = n + 1
    BY <1>2, <1>10, <2>1 DEF type, items
  <2>2. CASE k \in 1..n
    <3>1. t[k] = es[k] /\ es[k].type # type /\ es[k].type \in T
      BY <1>2, <1>4, <2>2 DEF T
    <3>2. f[es[k].type] = r.result[es[k].type]
      BY <1>10, <3>1
    <3>3. r.result[es[k].type] = es[k].items
      BY <1>3, <2>2
    <3> QED
      BY <3>1, <3>2, <3>3
  <2> QED
    BY <1>2, <2>1, <2>2
<1>13. /\ ~R.failed /\ ~R.delimited
       /\ R.result = [u \in {t[k].type : k \in 1..Len(t)} |-> R.result[u]]
       /\ \A k \in 1..Len(t) : R.result[t[k].type] = t[k].items
  BY <1>2, <1>10, <1>11, <1>12 DEF U
<1>14. ListsBack(R, t)
  BY <1>13 DEF ListsBack
<1> QED
  BY <1>14 DEF R, t

\* The first entry stays the first one, and other types do not repeat its type.
LEMMA BeginsOn ==
  ASSUME NEW w \in Seq(WireEntries), NEW es \in Seq(Entries), NEW e \in Entries, BeginsApart(w, es),
         \A k \in 1..Len(es) : es[k].type # e.type
  PROVE  BeginsApart(w \o EncodeItems(e.type, e.items), Append(es, e))
<1> DEFINE v == EncodeItems(e.type, e.items)
           t == Append(es, e)
           n == Len(es)
           type == e.type
           items == e.items
           u == w \o v
<1>1. type \in Nat /\ items \in Seq(Seq(Nat)) /\ items # <<>>
  BY TLVAssumption, ItemListsTyped DEF Entries
<1>2. /\ v \in Seq(WireEntries) /\ v # <<>> /\ v[1].type = type
      /\ \A k \in 1..Len(v) : v[k].type = type \/ v[k].type = 0
      /\ Len(items) = 1 /\ Len(items[1]) <= MaxLength => Len(v) = 1
  <2> HIDE DEF type, items
  <2> DEFINE x == EncodeItems(type, items)
  <2>1. x \in Seq(WireEntries) /\ x # <<>>
    BY <1>1, ItemsTyped
  <2>2. /\ x # <<>> => x[1].type = type
        /\ \A k \in 1..Len(x) : x[k].type = type \/ x[k].type = 0
    BY <1>1, ItemsTypes
  <2>3. Len(items) = 1 /\ Len(items[1]) <= MaxLength => Len(x) = 1
    BY <1>1, ShortItem
  <2>4. v = x
    BY DEF type, items
  <2> HIDE DEF v, x
  <2> QED
    BY <2>1, <2>2, <2>3, <2>4
<1>3. /\ n \in Nat /\ Len(t) = n + 1
      /\ \A k \in 1..n : k \in 1..(n + 1) /\ t[k] = es[k] /\ es[k] \in Entries
      /\ n + 1 \in 1..(n + 1) /\ t[n + 1] = e /\ \A k \in 1..(n + 1) : k = n + 1 \/ k \in 1..n
  BY EntriesGoOn
<1>4. t # <<>> /\ (es = <<>> => n = 0) /\ (n = 0 => es = <<>>)
  BY AppendProperties, EmptySeq
<1>5. /\ \A k \in 1..Len(u) : \/ k \in 1..Len(w) /\ u[k] = w[k]
                              \/ k - Len(w) \in 1..Len(v) /\ u[k] = v[k - Len(w)]
      /\ w # <<>> => u[1] = w[1] /\ u # <<>>
      /\ Len(w) \in Nat
  <2> HIDE DEF v
  <2> QED
    BY <1>2, ConcatElements
<1> DEFINE Rest(x, first) == first.type # 0 /\ Len(first.items) = 1 /\ Len(first.items[1]) <= MaxLength =>
                               \A k \in 2..Len(x) : x[k].type # first.type
           So == u # <<>> /\ u[1].type = t[1].type /\ Rest(u, t[1])
<1>6. ASSUME es = <<>> PROVE So
  <2>1. w = <<>>
    BY <1>6 DEF BeginsApart
  <2>2. u = v
    BY <1>2, <2>1, ConcatEmptySeq
  <2>3. t[1] = e
    BY <1>3, <1>4, <1>6
  <2> HIDE DEF u, v, t
  <2>4. Rest(u, e)
    <3> HIDE DEF n
    <3>1. ASSUME Len(items) = 1, Len(items[1]) <= MaxLength PROVE \A k \in 2..Len(u) : u[k].type # e.type
      <4>1. Len(u) = 1
        BY <1>2, <2>2, <3>1
      <4> QED
        BY <4>1
    <3> QED
      BY <3>1
  <2> QED
    BY <1>2, <2>2, <2>3, <2>4
<1>7. ASSUME es # <<>> PROVE So
  <2>1. w # <<>> /\ w[1].type = es[1].type /\ Rest(w, es[1])
    BY <1>7 DEF BeginsApart
  <2>2. 1 \in 1..n /\ t[1] = es[1] /\ es[1].type # type
    <3>1. 1 \in 1..n
      <4> HIDE DEF n, t
      <4> QED
        BY <1>3, <1>4, <1>7
    <3> QED
      BY <1>3, <3>1
  <2> DEFINE first == es[1]
  <2> HIDE DEF first, v
  <2>3. Rest(u, first)
    <3>1. ASSUME first.type # 0, Len(first.items) = 1, Len(first.items[1]) <= MaxLength, NEW k \in 2..Len(u)
          PROVE  u[k].type # first.type
      <4>1. \A m \in 2..Len(w) : w[m].type # first.type
        BY <2>1, <3>1 DEF first
      <4>2. k \in 1..Len(u)
        OBVIOUS
      <4>3. CASE k \in 1..Len(w) /\ u[k] = w[k]
        <5>1. k \in 2..Len(w)
          BY <4>3
        <5> QED
          BY <4>1, <4>3, <5>1
      <4>4. CASE k - Len(w) \in 1..Len(v) /\ u[k] = v[k - Len(w)]
        <5>1. u[k].type = type \/ u[k].type = 0
          BY <1>2, <4>4
        <5> QED
          BY <2>2, <3>1, <5>1 DEF first
      <4> QED
        BY <1>5, <4>2, <4>3, <4>4
    <3> QED
      BY <3>1
  <2>4. u # <<>> /\ u[1].type = t[1].type
    <3> HIDE DEF u, t
    <3> QED
      BY <1>5, <2>1, <2>2
  <2> QED
    BY <2>2, <2>3, <2>4 DEF first
<1>8. So
  BY <1>6, <1>7
<1>9. BeginsApart(u, t)
  <2> HIDE DEF u, t
  <2> QED
    BY <1>4, <1>8 DEF BeginsApart
<1> QED
  BY <1>9

LEMMA WiredOn ==
  ASSUME NEW w, NEW es \in Seq(Entries), NEW e \in Entries, Wired(w, es), Different(es),
         \A k \in 1..Len(es) : es[k].type # e.type
  PROVE  Wired(w \o EncodeItems(e.type, e.items), Append(es, e)) /\ Different(Append(es, e))
<1> DEFINE v == EncodeItems(e.type, e.items)
           t == Append(es, e)
           n == Len(es)
<1>1. v \in Seq(WireEntries)
  <2>1. e.type \in Nat /\ e.items \in Seq(Seq(Nat))
    BY TLVAssumption, ItemListsTyped DEF Entries
  <2> QED
    BY <2>1, ItemsTyped
<1>2. w \in Seq(WireEntries) /\ JoinsBack(w, es) /\ BeginsApart(w, es) /\ (~AmbiguousIn(es) => ListsBack(ListedAll(w), es))
  BY DEF Wired
<1>3. /\ n \in Nat /\ Len(t) = n + 1
      /\ \A k \in 1..n : k \in 1..(n + 1) /\ t[k] = es[k] /\ es[k] \in Entries
      /\ n + 1 \in 1..(n + 1) /\ t[n + 1] = e /\ \A k \in 1..(n + 1) : k = n + 1 \/ k \in 1..n
  BY EntriesGoOn
<1>4. w \o v \in Seq(WireEntries)
  <2> HIDE DEF v
  <2> QED
    BY <1>1, <1>2, ConcatProperties
<1>5. JoinsBack(w \o v, t)
  BY <1>2, JoinsOn
<1>6. BeginsApart(w \o v, t)
  BY <1>2, BeginsOn
<1>7. ASSUME ~AmbiguousIn(t) PROVE ListsBack(ListedAll(w \o v), t)
  <2>1. ~AmbiguousIn(es) /\ ~(e.type = 0 /\ Contains(e.items, <<>>))
    <3> HIDE DEF t, n
    <3>1. \A k \in 1..(n + 1) : ~(t[k].type = 0 /\ Contains(t[k].items, <<>>))
      BY <1>3, <1>7 DEF AmbiguousIn
    <3>2. \A k \in 1..n : ~(es[k].type = 0 /\ Contains(es[k].items, <<>>))
      BY <1>3, <3>1
    <3> QED
      BY <1>3, <3>1, <3>2 DEF AmbiguousIn, n
  <2> QED
    BY <1>2, <2>1, ListsOn
<1>8. Different(t)
  <2> HIDE DEF t, n
  <2> SUFFICES ASSUME NEW j \in 1..(n + 1), NEW k \in 1..(n + 1), j # k PROVE t[j].type # t[k].type
    BY <1>3 DEF Different
  <2>1. \A i \in 1..n : t[i].type # e.type
    BY <1>3 DEF n
  <2>2. CASE j \in 1..n /\ k \in 1..n
    BY <1>3, <2>2 DEF Different, n
  <2>3. CASE j = n + 1 \/ k = n + 1
    BY <1>3, <2>1, <2>3
  <2> QED
    BY <1>3, <2>2, <2>3
<1> QED
  BY <1>4, <1>5, <1>6, <1>7, <1>8 DEF Wired

-----------------------------------------------------------------------------
LEMMA TLVInitOK == TLVInit => TLVIInv
<1> SUFFICES ASSUME TLVInit PROVE TLVIInv
  OBVIOUS
<1>1. entries = <<>> /\ tlv = <<>> /\ cut = 0
  BY DEF TLVInit
<1>2. Len(<<>>) = 0 /\ \A S : <<>> \in Seq(S)
  BY EmptySeq
<1>3. Bytes(<<>>) = <<>> /\ JoinedAll(<<>>) = NothingRead /\ ListedAll(<<>>) = NothingListed
  BY EmptyRuns
<1>4. EntriesOf(<<>>) = <<>>
  BY <1>2, <1>3, ReadBack
<1>5. TLVTypeOK
  BY <1>1, <1>2 DEF TLVTypeOK
<1>6. JoinsBack(<<>>, <<>>)
  <2>1. \A t : ValueOf(NothingRead, t) = <<>>
    BY DEF ValueOf, NothingRead
  <2> DEFINE none == <<>>
  <2>2. Len(none) = 0 /\ JoinedAll(none) = NothingRead
    BY <1>2, <1>3
  <2> HIDE DEF none
  <2>3. JoinsBack(none, none)
    BY <2>1, <2>2, <1>1 DEF JoinsBack, none
  <2> QED
    BY <2>3 DEF none
<1>7. ListsBack(NothingListed, <<>>)
  <2> DEFINE none == <<>>
             T == {none[k].type : k \in 1..Len(none)}
  <2>1. T = {} /\ Len(none) = 0
    BY <1>2
  <2>2. NothingListed.result = NothingRead /\ ~NothingListed.failed /\ ~NothingListed.delimited
    BY DEF NothingListed
  <2>3. NothingRead = [t \in {} |-> NothingRead[t]]
    BY DEF NothingRead
  <2> HIDE DEF none
  <2>4. ListsBack(NothingListed, none)
    BY <2>1, <2>2, <2>3 DEF ListsBack
  <2> QED
    BY <2>4 DEF none
<1>8. BeginsApart(<<>>, <<>>)
  BY DEF BeginsApart
<1>9. Wired(<<>>, <<>>)
  BY <1>2, <1>3, <1>6, <1>7, <1>8 DEF Wired
<1>10. Different(<<>>)
  BY <1>2 DEF Different
<1> QED
  BY <1>1, <1>3, <1>4, <1>5, <1>9, <1>10 DEF TLVIInv

LEMMA AddEntryKeeps ==
  ASSUME NEW type \in Types, NEW items \in ItemLists, TLVIInv, AddEntry(type, items)
  PROVE  TLVIInv'
<1> DEFINE e == [type |-> type, items |-> items]
           w == EntriesOf(tlv)
           v == EncodeItems(type, items)
<1>1. /\ entries \in Seq(Entries) /\ tlv \in Seq(Nat) /\ Different(entries)
      /\ tlv = Bytes(w) /\ Wired(w, entries) /\ w \in Seq(WireEntries)
  BY DEF TLVIInv, TLVTypeOK, Entries, Wired
<1>2. /\ \A k \in DOMAIN entries : entries[k].type # type
      /\ entries' = Append(entries, e) /\ tlv' = tlv \o Bytes(v) /\ cut' = Len(tlv')
  BY DEF AddEntry
<1>3. e \in Entries /\ e.type = type /\ e.items = items
  BY DEF Entries
<1> HIDE DEF e, w, v
<1>4. \A k \in 1..Len(entries) : entries[k].type # e.type
  BY <1>1, <1>2, <1>3, LenProperties
<1>5. Wired(w \o v, entries') /\ Different(entries')
  <2>1. v = EncodeItems(e.type, e.items)
    BY <1>3 DEF v
  <2> QED
    BY <1>1, <1>2, <1>3, <1>4, <2>1, WiredOn
<1>6. v \in Seq(WireEntries)
  <2>1. type \in Nat /\ items \in Seq(Seq(Nat))
    BY TLVAssumption, ItemListsTyped
  <2> QED
    BY <2>1, ItemsTyped DEF v
<1>7. tlv' = Bytes(w \o v)
  BY <1>1, <1>2, <1>6, BytesOfConcat
<1>8. w \o v \in Seq(WireEntries)
  BY <1>5 DEF Wired
<1>9. EntriesOf(tlv') = w \o v /\ tlv' \in Seq(Nat)
  BY <1>7, <1>8, ReadBack, BytesTyped
<1>10. cut' \in 0..Len(tlv')
  <2>1. Len(tlv') \in Nat
    BY <1>9, LenProperties
  <2> QED
    BY <1>2, <2>1
<1>11. entries' \in Seq(Entries)
  BY <1>1, <1>2, <1>3, AppendProperties
<1>12. TLVTypeOK'
  BY <1>9, <1>10, <1>11 DEF TLVTypeOK, Entries
<1> QED
  BY <1>5, <1>7, <1>9, <1>12 DEF TLVIInv

LEMMA TLVNextOK == TLVIInv /\ [TLVNext]_tlvVars => TLVIInv'
<1> SUFFICES ASSUME TLVIInv, [TLVNext]_tlvVars PROVE TLVIInv'
  OBVIOUS
<1>1. ASSUME NEW type \in Types, NEW items \in ItemLists, AddEntry(type, items) PROVE TLVIInv'
  BY <1>1, AddEntryKeeps
<1>2. ASSUME NEW length \in 0..Len(tlv), CutShort(length) PROVE TLVIInv'
  <2>1. entries' = entries /\ tlv' = tlv /\ cut' = length
    BY <1>2 DEF CutShort
  <2>2. TLVTypeOK'
    BY <2>1 DEF TLVIInv, TLVTypeOK
  <2> QED
    BY <2>1, <2>2 DEF TLVIInv
<1>3. CASE UNCHANGED tlvVars
  BY <1>3 DEF TLVIInv, TLVTypeOK, tlvVars
<1> QED
  BY <1>1, <1>2, <1>3 DEF TLVNext

-----------------------------------------------------------------------------
(* What the invariant says of the decoders.                                *)

LEMMA WholeRead ==
  ASSUME NEW w \in Seq(WireEntries)
  PROVE  /\ Decode8(Bytes(w)) = Decoded(JoinedAll(w))
         /\ ~ListedAll(w).failed => DecodeWithLists(Bytes(w)) = Decoded(ListedAll(w).result)
<1> DEFINE B == Bytes(w)
           J == JoinedAll(w)
           r == ListedAll(w)
<1>1. EntriesOf(B) = w
  BY ReadBack
<1>2. \A k \in DOMAIN w : w[k].whole
  <2>1. \A k \in DOMAIN w : w[k] \in WireEntries
    BY LenProperties, ElementOfSeq
  <2> QED
    BY <2>1, WireEntryTyped
<1> HIDE DEF B, J, r
<1>3. Decode8(B) = Decoded(J)
  BY <1>1, <1>2 DEF Decode8, J
<1>4. ~r.failed => DecodeWithLists(B) = Decoded(r.result)
  BY <1>1, <1>2 DEF DecodeWithLists, r
<1> QED
  BY <1>3, <1>4 DEF B, J, r

LEMMA RoundTripFollows == TLVIInv => TLVRoundTrip
<1> SUFFICES ASSUME TLVIInv, ~Ambiguous
             PROVE  /\ DecodeWithLists(tlv) = Decoded(Encoded)
                    /\ \A t \in DOMAIN Encoded : Decode8(tlv).read[t] = Concatenated(Encoded[t])
  BY DEF TLVRoundTrip
<1> DEFINE w == EntriesOf(tlv)
           r == ListedAll(w)
           J == JoinedAll(w)
           n == Len(entries)
           T == {entries[k].type : k \in 1..n}
<1>1. /\ tlv = Bytes(w) /\ w \in Seq(WireEntries) /\ JoinsBack(w, entries) /\ Different(entries)
      /\ ~AmbiguousIn(entries) => ListsBack(r, entries)
      /\ entries \in Seq(Entries)
  BY DEF TLVIInv, Wired, TLVTypeOK, Entries
<1>2. DOMAIN entries = 1..n
  BY <1>1, LenProperties
<1>3. ~AmbiguousIn(entries)
  BY <1>2 DEF AmbiguousIn, Ambiguous
<1>4. /\ ~r.failed /\ r.result = [t \in T |-> r.result[t]]
      /\ \A k \in 1..n : r.result[entries[k].type] = entries[k].items
  BY <1>1, <1>3 DEF ListsBack
<1>5. /\ Decode8(tlv) = Decoded(J) /\ DecodeWithLists(tlv) = Decoded(r.result)
  <2> HIDE DEF w
  <2>1. Decode8(Bytes(w)) = Decoded(J) /\ DecodeWithLists(Bytes(w)) = Decoded(r.result)
    BY <1>1, <1>4, WholeRead
  <2> QED
    BY <1>1, <2>1
<1>6. \A k \in 1..n : /\ entries[k].type \in Nat /\ entries[k].type \in DOMAIN J
                      /\ ValueOf(J, entries[k].type) = Concatenated(entries[k].items)
  <2>1. \A k \in 1..n : entries[k] \in Entries
    BY <1>1, ElementOfSeq
  <2> QED
    BY <1>1, <2>1, TLVAssumption DEF Entries, JoinsBack
<1> DEFINE E == Encoded
<1>7. E = [t \in T |-> entries[CHOOSE k \in 1..n : entries[k].type = t].items]
  BY <1>2 DEF Encoded
<1> HIDE DEF w, r, J, n, E
<1>8. ASSUME NEW k \in 1..n
      PROVE  entries[k].type \in T /\ E[entries[k].type] = entries[k].items
  <2> DEFINE type == entries[k].type
             m == CHOOSE i \in 1..n : entries[i].type = type
  <2>1. m \in 1..n /\ entries[m].type = type
    OBVIOUS
  <2> HIDE DEF m
  <2>2. m = k
    BY <1>1, <2>1 DEF Different, n
  <2>3. type \in T
    OBVIOUS
  <2>4. E[type] = entries[m].items
    <3> HIDE DEF T, type
    <3> QED
      BY <1>7, <2>3 DEF m
  <2> QED
    BY <2>2, <2>3, <2>4
<1>9. E = r.result
  <2>1. \A t \in T : E[t] = r.result[t]
    <3> SUFFICES ASSUME NEW t \in T PROVE E[t] = r.result[t]
      OBVIOUS
    <3>1. PICK k \in 1..n : t = entries[k].type
      OBVIOUS
    <3> QED
      BY <1>4, <1>8, <3>1
  <2>2. E = [t \in T |-> E[t]]
    <3> HIDE DEF T
    <3> QED
      BY <1>7
  <2> HIDE DEF T
  <2> QED
    BY <1>4, <2>1, <2>2
<1>10. ASSUME NEW t \in DOMAIN E
       PROVE  J[t] = Concatenated(E[t])
  <2>1. t \in T
    <3> HIDE DEF T
    <3> QED
      BY <1>7
  <2>2. PICK k \in 1..n : t = entries[k].type
    BY <2>1
  <2>3. E[t] = entries[k].items
    BY <1>8, <2>2
  <2>4. J[t] = Concatenated(entries[k].items)
    BY <1>6, <2>2 DEF ValueOf
  <2> QED
    BY <2>3, <2>4
<1>11. Decode8(tlv).read = J
  BY <1>5 DEF Decoded
<1> QED
  BY <1>5, <1>9, <1>10, <1>11 DEF E

LEMMA CutFollows == TLVIInv => CutIsNoticed
<1> DEFINE c == SubSeq(tlv, 1, cut)
           met == EntriesOf(c)
           w == EntriesOf(tlv)
<1> SUFFICES ASSUME TLVIInv, ~Decode8(c).refused
             PROVE  met = SubSeq(w, 1, Len(met))
  BY DEF CutIsNoticed
<1>1. tlv = Bytes(w) /\ w \in Seq(WireEntries) /\ cut \in 0..Len(tlv)
  BY DEF TLVIInv, Wired, TLVTypeOK
<1>2. \A k \in DOMAIN met : met[k].whole
  <2> HIDE DEF c
  <2>1. CutOff.refused
    BY DEF CutOff
  <2> QED
    BY <2>1 DEF Decode8
<1>3. PICK j \in 0..Len(w) : \/ met = UpTo(w, j)
                             \/ \E e : ~e.whole /\ met = Append(UpTo(w, j), e)
  <2>1. \E j \in 0..Len(w) :
           \/ At(w, j) = cut /\ met = UpTo(w, j)
           \/ cut # Len(Bytes(w)) /\ \E e : ~e.whole /\ met = Append(UpTo(w, j), e)
    <3> HIDE DEF w
    <3>1. cut \in 0..Len(Bytes(w)) /\ c = SubSeq(Bytes(w), 1, cut)
      BY <1>1
    <3> HIDE DEF c
    <3> QED
      BY <1>1, <3>1, CutRead
  <2> QED
    BY <2>1
<1> HIDE DEF c, met, w
<1>4. UpTo(w, j) \in Seq(WireEntries) /\ Len(UpTo(w, j)) = j /\ j \in Nat
  <2>1. Len(w) \in Nat
    BY <1>1, Prefixed
  <2> QED
    BY <1>1, <2>1, Prefixed
<1>5. met = UpTo(w, j)
  <2> SUFFICES ASSUME NEW e, ~e.whole, met = Append(UpTo(w, j), e) PROVE FALSE
    BY <1>3
  <2> DEFINE S == WireEntries \cup {e}
             u == UpTo(w, j)
  <2>1. u \in Seq(S)
    BY <1>4, SeqMonotonic
  <2> HIDE DEF S
  <2>2. e \in S
    BY DEF S
  <2> HIDE DEF u
  <2>3. met \in Seq(S) /\ Len(met) = j + 1 /\ met[j + 1] = e
    <3>1. Append(u, e) \in Seq(S) /\ Len(Append(u, e)) = Len(u) + 1 /\ Append(u, e)[Len(u) + 1] = e
      BY <2>1, <2>2, AppendProperties
    <3> QED
      BY <1>4, <3>1 DEF u
  <2>4. j + 1 \in DOMAIN met
    <3>1. DOMAIN met = 1..Len(met)
      BY <2>3, LenProperties
    <3> QED
      BY <1>4, <2>3, <3>1
  <2> QED
    BY <1>2, <2>3, <2>4
<1> QED
  BY <1>4, <1>5 DEF UpTo

LEMMA AppendToOne ==
  ASSUME NEW S, NEW x \in S, NEW y \in S
  PROVE  Append(<<x>>, y) = <<x, y>>
<1> DEFINE s == <<x>>
           u == <<x, y>>
           t == Append(s, y)
<1>1. s \in Seq(S) /\ Len(s) = 1 /\ s[1] = x
  OBVIOUS
<1>2. u \in Seq(S) /\ Len(u) = 2 /\ u[1] = x /\ u[2] = y
  OBVIOUS
<1> HIDE DEF s, u
<1>3. /\ t \in Seq(S) /\ Len(t) = Len(s) + 1 /\ t[Len(s) + 1] = y
      /\ \A i \in 1..Len(s) : t[i] = s[i]
  <2>1. s \in Seq(S)
    BY <1>1
  <2>2. \A v \in Seq(S) : /\ Append(v, y) \in Seq(S) /\ Len(Append(v, y)) = Len(v) + 1
                          /\ Append(v, y)[Len(v) + 1] = y /\ \A i \in 1..Len(v) : Append(v, y)[i] = v[i]
    BY AppendProperties
  <2> QED
    BY <2>1, <2>2
<1> HIDE DEF t
<1>4. Len(t) = 2 /\ t[2] = y /\ t[1] = x
  <2>1. 1 \in 1..Len(s) /\ Len(s) + 1 = 2
    BY <1>1
  <2> QED
    BY <1>1, <1>3, <2>1
<1>5. \A i \in 1..Len(t) : t[i] = u[i]
  BY <1>2, <1>4
<1>6. t = u
  BY <1>2, <1>3, <1>4, <1>5, SeqEqual
<1> QED
  BY <1>6 DEF s, t, u

LEMMA ApartFollows == TLVIInv => StructuresApart
<1> DEFINE w == EntriesOf(tlv)
           start == entries[1].type
           D == Decode8(tlv).read
<1> SUFFICES ASSUME TLVIInv, entries # <<>>, entries[1].type # 0,
                    Len(entries[1].items) = 1, Len(entries[1].items[1]) <= MaxLength
             PROVE  DecodeList(tlv \o tlv, start) = Decoded(<<D, D>>)
  BY DEF StructuresApart
<1>1. tlv = Bytes(w) /\ w \in Seq(WireEntries) /\ BeginsApart(w, entries) /\ entries \in Seq(Entries)
  BY DEF TLVIInv, Wired, TLVTypeOK, Entries
<1>2. w # <<>> /\ w[1].type = start /\ \A k \in 2..Len(w) : w[k].type # start
  BY <1>1 DEF BeginsApart
<1>3. start \in Nat
  <2>1. Len(entries) \in Nat /\ Len(entries) # 0
    BY <1>1, EmptySeq, LenProperties
  <2>2. 1 \in 1..Len(entries)
    BY <2>1
  <2>3. entries[1] \in Entries
    BY <1>1, <2>2, ElementOfSeq
  <2> QED
    BY <2>3, TLVAssumption DEF Entries
<1> DEFINE J == JoinedAll(w)
           ww == w \o w
<1> HIDE DEF w, start
<1>4. D = J
  <2>1. Decode8(tlv) = Decoded(J)
    BY <1>1, WholeRead
  <2> QED
    BY <2>1 DEF Decoded
<1>5. ww \in Seq(WireEntries) /\ tlv \o tlv = Bytes(ww)
  <2>1. ww \in Seq(WireEntries)
    BY <1>1, ConcatProperties
  <2>2. Bytes(ww) = Bytes(w) \o Bytes(w)
    BY <1>1, BytesOfConcat
  <2> QED
    BY <1>1, <2>1, <2>2
<1>6. EntriesOf(tlv \o tlv) = ww
  <2> HIDE DEF ww
  <2> QED
    BY <1>5, ReadBack
<1> DEFINE none == <<>>
           a == StructuredAll(start, none)
           b == StructuredAll(start, w)
           c == StructuredAll(start, ww)
<1>7. a = NoStructure
  BY EmptyRuns
<1>8. a.failed = FALSE /\ Finished(a) = none
  BY <1>7 DEF NoStructure, Finished
<1>9. b = [finished |-> none, begun |-> TRUE, current |-> J, failed |-> FALSE]
  <2>1. none \in Seq(WireEntries) /\ none \o w = w
    BY <1>1, EmptySeq, ConcatEmptySeq
  <2> HIDE DEF none
  <2>2. StructuredAll(start, none \o w) = [finished |-> Finished(a), begun |-> TRUE, current |-> J, failed |-> FALSE]
    BY <1>1, <1>2, <1>3, <1>8, <2>1, OneStructure
  <2> QED
    BY <1>8, <2>1, <2>2
<1>10. c = [finished |-> Finished(b), begun |-> TRUE, current |-> J, failed |-> FALSE]
  <2>1. b.failed = FALSE
    BY <1>9
  <2> QED
    BY <1>1, <1>2, <1>3, <2>1, OneStructure
<1> HIDE DEF J, b, c
<1>11. Finished(b) = <<J>>
  BY <1>9 DEF Finished
<1>12. ~c.failed /\ Finished(c) = <<J, J>>
  <2>1. c.begun /\ c.finished = <<J>> /\ c.current = J /\ ~c.failed
    BY <1>10, <1>11
  <2>2. Finished(c) = Append(<<J>>, J)
    BY <2>1 DEF Finished
  <2>3. Append(<<J>>, J) = <<J, J>>
    <3>1. J \in {J}
      OBVIOUS
    <3> QED
      BY <3>1, AppendToOne
  <2> QED
    BY <2>1, <2>2, <2>3
<1>13. DecodeList(tlv \o tlv, start) = Decoded(Finished(c))
  BY <1>6, <1>12 DEF DecodeList, c
<1> QED
  BY <1>4, <1>12, <1>13

\* tlv.ts, for every message, every length of an entry and every cut: decode and decodeWithLists read
\* back what arrives whole, unless an empty item of type 0 is taken for a delimiter; decode refuses a
\* message cut short or reads whole entries of it; decodeList tells structures apart that begin with
\* the same undivided entry.
THEOREM StructuresAlwaysSurvive == TLVSpec => []StructuresSurvive
<1>1. TLVIInv => StructuresSurvive
  BY RoundTripFollows, CutFollows, ApartFollows DEF StructuresSurvive, TLVIInv
<1> QED
  BY <1>1, TLVInitOK, TLVNextOK, PTL DEF TLVSpec
=================================================================================
