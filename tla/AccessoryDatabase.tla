---------------------------- MODULE AccessoryDatabase ----------------------------
(***************************************************************************)
(* The accessory database a bridge serves: the accessories and services    *)
(* the plugin adds and removes, the ids IdentifierCache keeps for them,    *)
(* the configuration number that tells controllers to read the database    *)
(* again, and the controllers' /accessories requests.                      *)
(*                                                                         *)
(* A service stands for itself with its characteristics.  The cache and    *)
(* the configuration number are saved by the code that changes them, so a  *)
(* restart finds both as they were.                                        *)
(***************************************************************************)
EXTENDS Naturals, FiniteSets, SequencesExt

CONSTANTS
  Root, Bridged,      \* the bridge; the accessories that may be bridged
  Services,
  PurgeUnused,        \* FALSE when the plugin calls disableUnusedIDPurge first
  AwaitsAdvertiser,   \* whether publish awaits isAvailable of the advertiser (Avahi, resolved): a set
  MaxConfigVersion,   \* 0xFFFF
  MaxChanges,         \* bound: changes of the plugin
  MaxRestarts,        \* bound: restarts of the process
  MaxFetches          \* bound: /accessories requests

ASSUME DatabaseAssumption ==
  /\ Root \notin Bridged
  /\ IsFiniteSet(Bridged) /\ IsFiniteSet(Services)
  /\ PurgeUnused \in BOOLEAN /\ AwaitsAdvertiser \subseteq BOOLEAN
  /\ MaxConfigVersion \in Nat \ {0}
  /\ MaxChanges \in Nat /\ MaxRestarts \in Nat /\ MaxFetches \in Nat

VARIABLES
  phase,          \* of publish
  awaitsAdvertiser,
  bridged,        \* bridgedAccessories
  services,       \* accessory -> its services
  wasBridged,     \* accessories whose object was linked to the storage of the bridge, which is for good
  linkedTwice,    \* some object was linked twice before that storage was loaded
  malformed,      \* bridged accessories with permissions HomeKit rejects
  quarantined,    \* those with permsQuarantined
  purge,          \* shouldPurgeUnusedIDs
  aid, iid,       \* the ids the objects carry; 0: null
  cache,          \* _cache of IdentifierCache; 0: no such key
  configVersion, configHash,
  timer,          \* configurationChangeDebounceTimeout
  missed,         \* history: a change since the number was last checked that no update is made for
  fetching,       \* the /accessories request in progress
  answer,         \* the answer to the last one
  fetched,        \* the database the controller has
  current,        \* the configuration number is what it was when it asked for that
  settled,        \* no configuration update was pending or missed when it asked, nor when it got it
  given,          \* history: all ids that were served, with what they stood for
  changes, restarts, fetches

plugin     == <<bridged, services, wasBridged, linkedTwice, malformed, changes>>
ids        == <<aid, iid, cache>>
config     == <<configVersion, configHash>>
update     == <<timer, missed>>
controller == <<fetching, answer, fetched, settled, given, fetches>>
databaseVars       == <<phase, awaitsAdvertiser, plugin, quarantined, purge, ids, config, update,
                        controller, current, restarts>>

Accessories == {Root} \cup Bridged
NoIds == [a \in Accessories |-> [s \in Services |-> 0]]
NotFetching == "none"

DatabaseTypeOK ==
  /\ phase \in {"down", "publishing", "published", "failed"}
  /\ awaitsAdvertiser \in AwaitsAdvertiser
  /\ bridged \subseteq Bridged
  /\ services \in [Accessories -> SUBSET Services]
  /\ bridged \subseteq wasBridged /\ wasBridged \subseteq Bridged
  /\ linkedTwice \in BOOLEAN
  /\ malformed \subseteq Bridged
  /\ quarantined \subseteq bridged
  /\ purge \in BOOLEAN
  /\ aid \in [Accessories -> Nat]
  /\ iid \in [Accessories -> [Services -> Nat]]
  /\ cache \in [aid: [Bridged -> Nat], iid: [Accessories -> [Services -> Nat]],
                nextAID: Nat, nextIID: [Accessories -> Nat]]
  /\ configVersion \in 1..MaxConfigVersion
  /\ timer \in BOOLEAN /\ missed \in BOOLEAN
  /\ answer \in {"none", "accessories", "INTERNAL_SERVER_ERROR"}
  /\ current \in BOOLEAN /\ settled \in BOOLEAN

DatabaseInit ==
  /\ phase = "down"
  /\ awaitsAdvertiser \in AwaitsAdvertiser
  /\ bridged \in SUBSET Bridged
  /\ services \in [Accessories -> SUBSET Services]
  /\ wasBridged = bridged
  /\ linkedTwice = FALSE
  /\ malformed = {}
  /\ quarantined = {}
  /\ purge = PurgeUnused
  /\ aid = [a \in Accessories |-> 0]
  /\ iid = NoIds
  /\ cache = [aid |-> [a \in Bridged |-> 0], iid |-> NoIds,
              nextAID |-> 0, nextIID |-> [a \in Accessories |-> 0]]
  /\ configVersion = 1
  /\ configHash = {}
  /\ timer = FALSE
  /\ missed = FALSE
  /\ fetching = NotFetching
  /\ answer = "none"
  /\ fetched = {}
  /\ current = FALSE
  /\ settled = FALSE
  /\ given = {}
  /\ changes = 0
  /\ restarts = 0
  /\ fetches = 0

-----------------------------------------------------------------------------
(* Identifiers.                                                            *)

Attached == {Root} \cup bridged

\* Position of x in a fixed order of S: the order in which new ids are handed out.
Position(x, S) == CHOOSE i \in 1..Cardinality(S) : SetToSeq(S)[i] = x

\* The id of x: the cached one, or the next of those that are free.
IdOf(x, cached, next, new) == IF cached # 0 THEN cached ELSE next + Position(x, new) - 1

\* Mutant of Start: the next id is not remembered.
StartOver(next) == 2

\* nextAID and nextIID start at 2: 1 is the bridge, and the Accessory Information service.
Start(next) == IF next = 0 THEN 2 ELSE next

NewAccessories == {a \in bridged : cache.aid[a] = 0}
NewServices(a) == {s \in services[a] : cache.iid[a][s] = 0}

AidOf(a) == IF a = Root THEN 1 ELSE IdOf(a, cache.aid[a], Start(cache.nextAID), NewAccessories)
IidOf(a, s) == IdOf(s, cache.iid[a][s], Start(cache.nextIID[a]), NewServices(a))

\* Mutant of UsedKey: a key is not tracked when it is looked up, only when it is set.
SetKey(id, new, expire) == IF new \/ ~expire THEN id ELSE 0

\* What is left of a key that was looked up, and found or newly set.
UsedKey(id, new, expire) == id

\* What is left of a key that was not looked up.
UnusedKey(id, expire) == IF expire THEN 0 ELSE id

\* The next id after taken ones; its key is unused when no id was looked up.
NextId(next, looked, taken, expire) ==
  IF looked THEN Start(next) + taken ELSE UnusedKey(next, expire)

\* _assignIDs, with the keys that were not looked up expired or kept.  nextAID is looked up by
\* getAID, hence only when an accessory is bridged.
AssignIDs(expire) ==
  /\ aid' = [a \in Accessories |-> IF a \in Attached THEN AidOf(a) ELSE aid[a]]
  /\ iid' = [a \in Accessories |-> [s \in Services |->
               IF a \in Attached /\ s \in services[a] THEN IidOf(a, s) ELSE iid[a][s]]]
  /\ cache' =
       [aid |-> [a \in Bridged |->
           IF a \in bridged THEN UsedKey(AidOf(a), a \in NewAccessories, expire)
           ELSE UnusedKey(cache.aid[a], expire)],
        iid |-> [a \in Accessories |-> [s \in Services |->
           IF a \in Attached /\ s \in services[a]
           THEN UsedKey(IidOf(a, s), s \in NewServices(a), expire)
           ELSE UnusedKey(cache.iid[a][s], expire)]],
        nextAID |-> NextId(cache.nextAID, bridged # {}, Cardinality(NewAccessories), expire),
        nextIID |-> [a \in Accessories |->
           NextId(cache.nextIID[a], a \in Attached, Cardinality(NewServices(a)), expire)]]

-----------------------------------------------------------------------------
(* What is served, and its configuration number.                           *)

\* servedBridgedAccessories
Served == bridged \ malformed

\* An accessory as controllers see it: its id and those of its services, with their types.
View(a, aids, iids) == <<aids[a], {<<iids[a][s], s>> : s \in services[a]}>>
Database(aids, iids) == {View(a, aids, iids) : a \in {Root} \cup Served}

\* Building a representation notices which accessories are to be left out, and enqueues an update
\* when that changed.
Noticed == quarantined' = bridged \cap malformed

\* ensureConfigVersionBounds
Bounded(version) == IF version % (MaxConfigVersion + 1) = 0 THEN 1 ELSE version % (MaxConfigVersion + 1)

\* Mutant of CheckIncrement: the new hash is not kept.
CheckIncrementForgets ==
  LET hash == Database(aid', iid')
  IN /\ configVersion' = IF hash = configHash THEN configVersion ELSE Bounded(configVersion + 1)
     /\ configHash' = IF configHash = {} THEN hash ELSE configHash
     /\ current' = (current /\ hash = configHash)
     /\ missed' = FALSE

\* checkForCurrentConfigurationNumberIncrement
CheckIncrement ==
  LET hash == Database(aid', iid')
  IN /\ configVersion' = IF hash = configHash THEN configVersion ELSE Bounded(configVersion + 1)
     /\ configHash' = hash
     /\ current' = (current /\ hash = configHash)
     /\ missed' = FALSE

-----------------------------------------------------------------------------
(* The plugin.                                                             *)

\* A change of the plugin; most enqueue an update.
PluginChanges ==
  /\ changes < MaxChanges
  /\ changes' = changes + 1
  /\ UNCHANGED <<phase, purge, cache, config, controller, current, restarts, awaitsAdvertiser>>

Changed ==
  /\ PluginChanges
  /\ timer' = TRUE
  /\ UNCHANGED <<wasBridged, linkedTwice, aid, iid, missed>>

\* linkAccessory throws on an object that was linked before: a removed one stays linked, and its
\* storage was initialized when the bridge was published.
LinkThrows(a, fresh) == phase # "down" /\ a \in wasBridged /\ ~fresh

\* The update is enqueued once the accessory is linked.
AddOutcome(a, fresh) ==
  IF LinkThrows(a, fresh)
  THEN missed' = TRUE /\ UNCHANGED timer
  ELSE timer' = TRUE /\ UNCHANGED missed

\* addBridgedAccessory, of the object that was bridged before or a fresh one.
AddBridgedAccessory(a, fresh) ==
  /\ a \notin bridged
  /\ fresh => a \in wasBridged
  /\ PluginChanges
  /\ bridged' = bridged \cup {a}
  /\ wasBridged' = wasBridged \cup {a}
  /\ linkedTwice' = (linkedTwice \/ (phase = "down" /\ a \in wasBridged /\ ~fresh))
  /\ aid' = IF fresh THEN [aid EXCEPT ![a] = 0] ELSE aid
  /\ iid' = IF fresh THEN [iid EXCEPT ![a] = NoIds[a]] ELSE iid
  /\ AddOutcome(a, fresh)
  /\ UNCHANGED <<services, malformed, quarantined>>

RemoveBridgedAccessory(a) ==
  /\ a \in bridged
  /\ bridged' = bridged \ {a}
  /\ quarantined' = quarantined \ {a}
  /\ Changed
  /\ UNCHANGED <<services, malformed>>

AddService(a, s) ==
  /\ a \in Attached
  /\ s \notin services[a]
  /\ services' = [services EXCEPT ![a] = @ \cup {s}]
  /\ Changed
  /\ UNCHANGED <<bridged, malformed, quarantined>>

RemoveService(a, s) ==
  /\ a \in Attached
  /\ s \in services[a]
  /\ services' = [services EXCEPT ![a] = @ \ {s}]
  /\ Changed
  /\ UNCHANGED <<bridged, malformed, quarantined>>

\* props.perms is assigned directly, which reaches no event.
AssignPerms(a) ==
  /\ a \in bridged
  /\ PluginChanges
  /\ malformed' = IF a \in malformed THEN malformed \ {a} ELSE malformed \cup {a}
  /\ UNCHANGED <<bridged, services, wasBridged, linkedTwice, quarantined, aid, iid, update>>

\* purgeUnusedIDs purges whatever shouldPurgeUnusedIDs says; the plugin may also purge by hand.
PurgeUnusedIDs ==
  /\ phase = "published"
  /\ PurgeUnused
  /\ AssignIDs(TRUE)
  /\ UNCHANGED <<phase, plugin, quarantined, purge, config, update, controller, current, restarts,
                 awaitsAdvertiser>>

-----------------------------------------------------------------------------
(* Publishing.                                                             *)

\* publish up to the creation of the advertiser.
Publish ==
  /\ phase = "down"
  /\ ~linkedTwice
  /\ phase' = IF awaitsAdvertiser THEN "publishing" ELSE "published"
  /\ purge' = (purge /\ bridged # {})
  /\ AssignIDs(purge /\ bridged # {})
  /\ Noticed
  /\ timer' = (timer \/ quarantined' # quarantined)
  /\ CheckIncrement
  /\ UNCHANGED <<plugin, controller, restarts, awaitsAdvertiser>>

\* The storage throws when it is loaded, and says later that it was; no ids are assigned.
PublishFails ==
  /\ phase = "down"
  /\ linkedTwice
  /\ phase' = "failed"
  /\ purge' = (purge /\ bridged # {})
  /\ UNCHANGED <<plugin, quarantined, ids, config, update, controller, current, restarts, awaitsAdvertiser>>

\* The advertiser is created and the server listens.
AdvertiserAvailable ==
  /\ phase = "publishing"
  /\ phase' = "published"
  /\ UNCHANGED <<plugin, quarantined, purge, ids, config, update, controller, current, restarts,
                 awaitsAdvertiser>>

\* The debounced update; without an advertiser there is nobody to tell.
ConfigurationUpdate ==
  /\ timer
  /\ IF phase = "published"
     THEN /\ AssignIDs(purge)
          /\ Noticed
          /\ timer' = (quarantined' # quarantined)
          /\ CheckIncrement
     ELSE /\ timer' = FALSE
          /\ missed' = TRUE
          /\ UNCHANGED <<quarantined, ids, config, current>>
  /\ UNCHANGED <<phase, plugin, purge, controller, restarts, awaitsAdvertiser>>

\* The process ends; the next one builds its accessories, not always the same, and publishes.
Restart(B, S) ==
  /\ phase # "down"
  /\ restarts < MaxRestarts
  /\ restarts' = restarts + 1
  /\ phase' = "down"
  /\ bridged' = B
  /\ services' = S
  /\ wasBridged' = B
  /\ linkedTwice' = FALSE
  /\ malformed' = {}
  /\ quarantined' = {}
  /\ purge' = PurgeUnused
  /\ aid' = [a \in Accessories |-> 0]
  /\ iid' = NoIds
  /\ timer' = FALSE
  /\ fetching' = NotFetching
  /\ UNCHANGED <<missed, cache, config, current, answer, fetched, settled, given, changes, fetches,
                 awaitsAdvertiser>>

-----------------------------------------------------------------------------
(* /accessories                                                            *)

\* handleAccessories assigns the ids and builds the bridge's own part.
HandleAccessories ==
  /\ phase = "published"
  /\ fetching = NotFetching
  /\ fetches < MaxFetches
  /\ fetches' = fetches + 1
  /\ AssignIDs(purge)
  /\ fetching' = View(Root, aid', iid')
  /\ current' = TRUE
  /\ settled' = (~timer /\ ~missed)
  /\ fetched' = {}
  /\ UNCHANGED <<phase, plugin, quarantined, purge, config, update, answer, given, restarts,
                 awaitsAdvertiser>>

\* Accessories and services that were never given ids; the code asserts that there are none.
Unassigned == {a \in Served : aid[a] = 0 \/ \E s \in services[a] : iid[a][s] = 0}

\* Once the bridge's own services have their values, the bridged accessories are built.
AccessoriesBuilt ==
  /\ fetching # NotFetching
  /\ fetching' = NotFetching
  /\ Noticed
  /\ timer' = (timer \/ quarantined' # quarantined)
  /\ IF Unassigned = {}
     THEN /\ answer' = "accessories"
          /\ fetched' = {fetching} \cup {View(a, aid, iid) : a \in Served}
          /\ settled' = (settled /\ ~timer' /\ ~missed)
          /\ given' = given \cup {<<fetching[1], p[1], Root, p[2]>> : p \in fetching[2]}
                           \cup UNION {{<<aid[a], iid[a][s], a, s>> : s \in services[a]} : a \in Served}
     ELSE /\ answer' = "INTERNAL_SERVER_ERROR"
          /\ UNCHANGED <<fetched, settled, given>>
  /\ UNCHANGED <<phase, plugin, purge, ids, config, missed, current, fetches, restarts, awaitsAdvertiser>>

DatabaseNext ==
  \/ \E a \in Bridged : RemoveBridgedAccessory(a) \/ AssignPerms(a)
  \/ \E a \in Bridged, fresh \in BOOLEAN : AddBridgedAccessory(a, fresh)
  \/ \E a \in Accessories, s \in Services : AddService(a, s) \/ RemoveService(a, s)
  \/ PurgeUnusedIDs
  \/ Publish
  \/ PublishFails
  \/ AdvertiserAvailable
  \/ ConfigurationUpdate
  \/ \E B \in SUBSET Bridged, S \in [Accessories -> SUBSET Services] : Restart(B, S)
  \/ HandleAccessories
  \/ AccessoriesBuilt

DatabaseSpec == DatabaseInit /\ [][DatabaseNext]_databaseVars
-----------------------------------------------------------------------------
(* Properties.                                                             *)

\* Ids "need to remain stable": an accessory or a service that stays keeps its ids, whatever else
\* is added, removed or purged.
StableIds ==
  [][phase # "down" /\ phase' # "down" =>
       /\ \A a \in bridged \cap bridged' :
            aid[a] # 0 /\ aid[a] = cache.aid[a] => aid'[a] = aid[a] /\ cache'.aid[a] = aid[a]
       /\ \A a \in Attached \cap ({Root} \cup bridged') : \A s \in services[a] \cap services'[a] :
            iid[a][s] # 0 /\ iid[a][s] = cache.iid[a][s]
              => iid'[a][s] = iid[a][s] /\ cache'.iid[a][s] = iid[a][s]]_databaseVars

\* While nothing is purged, a service is always served with the same ids, across restarts and
\* however often it was removed and added again.
IdsKept == \A x, y \in given : x[3] = y[3] /\ x[4] = y[4] => x[1] = y[1] /\ x[2] = y[2]

\* No two services ever have the same ids, not even one that is long gone and a new one: what the
\* next ids in the cache are never expired for.
IdsNotReused ==
  \A x, y \in given : x[1] = y[1] /\ x[2] = y[2] => x[3] = y[3] /\ x[4] = y[4]

\* The bridge has noticed which permissions are malformed now.
PermissionsNoticed == quarantined = bridged \cap malformed

\* A controller that has the database and is told of no newer one has the database that is
\* served, as soon as no update is pending.
HasCurrent ==
  (phase = "published" /\ ~timer /\ fetching = NotFetching /\ PermissionsNoticed
     /\ current /\ fetched # {})
  => fetched = Database(aid, iid)

\* The same for a controller that asked and got its answer while no update was pending.
ConfigurationAnnounced == settled => HasCurrent

\* A bridge that is published is served, whatever was added and removed before.
PublishSucceeds == phase # "failed"

\* assert(this.aid, "aid cannot be undefined for accessory"), and the same of iids.
IdsAssigned == answer # "INTERNAL_SERVER_ERROR"

\* A controller that asked for the database and got it while no update was pending has the database
\* that is served, or is told of a newer one, once nothing is on its way.  Not so when an update was
\* missed since the number was last checked: one that is due before publish has its advertiser is
\* dropped, and one is never enqueued when the accessory added is the object that was removed.
DatabaseAnnounced == DatabaseTypeOK /\ (~missed => ConfigurationAnnounced)

\* An id stands for one accessory or service for ever, and each has one id.
IdsForEver == DatabaseTypeOK /\ IdsNotReused /\ IdsKept
=============================================================================
