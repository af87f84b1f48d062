---------------------------- MODULE ControllerStorage ----------------------------
(***************************************************************************)
(* The state of controllers kept over restarts: the ControllerStorage of a *)
(* published accessory (Bridge) and those of the accessories it bridges,   *)
(* written to one file by a timer.  Each accessory has one controller,     *)
(* which the plugin configures before or after the accessory is published. *)
(*                                                                         *)
(* A controller that is not there when the file is loaded has its data     *)
(* marked (purgeOnNextLoad) and, if it is marked already, dropped.         *)
(***************************************************************************)
EXTENDS Naturals

CONSTANTS
  Bridge, BridgedAccessories,
  MaxData,         \* states of a controller besides the default, 0
  MaxStarts,       \* bound on starts of the process
  LateControllers, \* controllers are also configured after their storage was loaded
  EarlyChanges     \* controllers also change before their storage was loaded

ASSUME ControllerStorageAssumption ==
  /\ Bridge \notin BridgedAccessories
  /\ MaxData \in Nat /\ MaxStarts \in Nat \ {0}
  /\ LateControllers \in BOOLEAN /\ EarlyChanges \in BOOLEAN

KnownAccessories == {Bridge} \cup BridgedAccessories

\* Default state, and no data at all.
Default == 0
NotStored == MaxData + 1

VARIABLES
  storageFile,           \* accessory -> what the file has for it
  published,      \* the storage of the bridge is loaded
  linked,         \* accessories linked to the bridge, which is for good
  linkedAgain,    \* one was linked twice before the load: added, removed and added
  initialized,    \* accessories whose storage is initialized
  controllerData, \* accessory -> what its storage has in memory
  restoredAccessories,  \* accessory -> data kept for accessories that are not linked yet
  sameObject,     \* accessories whose data in memory is the object in restoredAccessories
  controllerState, \* accessory -> state of its controller, NotStored when there is none
  saveQueued,     \* queuedSaveTimeout is set
  destroyed,      \* Accessory.destroy() was called
  starts,
  deleted,        \* history: accessories whose data was deleted in memory after it was loaded
  everUsed,       \* history: accessories whose controller was configured in every run that loaded
  dropped         \* history: accessories whose data was dropped at a load

links == <<published, linked, linkedAgain, initialized>>
memory == <<links, controllerData, restoredAccessories, sameObject, controllerState, saveQueued, destroyed>>
storageVars == <<storageFile, memory, starts, deleted, everUsed, dropped>>

Entry(d, purge) == [data |-> d, purgeOnNextLoad |-> purge]
NoEntry == Entry(NotStored, FALSE)
Entries == {NoEntry} \cup {Entry(d, p) : d \in 1..MaxData, p \in BOOLEAN}
NoEntries == [a \in KnownAccessories |-> NoEntry]

ControllerStorageTypeOK ==
  /\ storageFile \in [KnownAccessories -> Entries]
  /\ published \in BOOLEAN
  /\ linked \subseteq BridgedAccessories
  /\ linkedAgain \in BOOLEAN
  /\ initialized \subseteq KnownAccessories
  /\ controllerData \in [KnownAccessories -> Entries]
  /\ restoredAccessories \in [KnownAccessories -> Entries]
  /\ sameObject \subseteq KnownAccessories
  /\ controllerState \in [KnownAccessories -> 0..NotStored]
  /\ saveQueued \in BOOLEAN /\ destroyed \in BOOLEAN
  /\ starts \in 1..MaxStarts
  /\ deleted \subseteq KnownAccessories /\ everUsed \subseteq KnownAccessories /\ dropped \subseteq KnownAccessories

FreshProcess ==
  /\ published = FALSE
  /\ linked = {}
  /\ linkedAgain = FALSE
  /\ initialized = {}
  /\ controllerData = NoEntries
  /\ restoredAccessories = NoEntries
  /\ sameObject = {}
  /\ controllerState = [a \in KnownAccessories |-> NotStored]
  /\ saveQueued = FALSE
  /\ destroyed = FALSE

ControllerStorageInit ==
  /\ storageFile = NoEntries
  /\ FreshProcess
  /\ starts = 1
  /\ deleted = {} /\ everUsed = KnownAccessories /\ dropped = {}

-----------------------------------------------------------------------------

\* Mutant of EnqueueSave: a bridged accessory does not hand the request to its bridge.
EnqueueSaveOfBridge(a) == saveQueued' = (saveQueued \/ (a \in initialized /\ a = Bridge))

\* A save is asked for; before the load nothing is.
EnqueueSave(a) == saveQueued' = (saveQueued \/ a \in initialized)

\* The data in memory becomes e; the object may be the one that restoredAccessories has.
Put(a, e) ==
  /\ controllerData' = [controllerData EXCEPT ![a] = e]
  /\ restoredAccessories' = IF a \in sameObject THEN [restoredAccessories EXCEPT ![a] = e]
                            ELSE restoredAccessories
  /\ deleted' = deleted \ {a}
  /\ UNCHANGED sameObject

\* The data is deleted from memory, not from restoredAccessories.
Delete(a) ==
  /\ controllerData' = [controllerData EXCEPT ![a] = NoEntry]
  /\ sameObject' = sameObject \ {a}
  /\ deleted' = IF a \in initialized THEN deleted \cup {a} ELSE deleted
  /\ UNCHANGED restoredAccessories

\* What a controller gets from the data of its storage.
RestoredData(e) == IF e = NoEntry THEN Default ELSE e.data

\* configureController: the controller is tracked until the load, or restored at once.
ConfigureController(a) ==
  /\ controllerState[a] = NotStored /\ ~destroyed
  /\ a \in initialized => LateControllers
  /\ controllerState' = [controllerState EXCEPT ![a] = IF a \in initialized THEN RestoredData(controllerData[a]) ELSE Default]
  /\ IF a \in initialized /\ controllerData[a] # NoEntry
     THEN Put(a, [controllerData[a] EXCEPT !.purgeOnNextLoad = FALSE])
     ELSE UNCHANGED <<controllerData, restoredAccessories, sameObject, deleted>>
  /\ UNCHANGED <<storageFile, links, saveQueued, destroyed, starts, everUsed, dropped>>

\* removeController
UntrackController(a) ==
  /\ controllerState[a] # NotStored
  /\ controllerState' = [controllerState EXCEPT ![a] = NotStored]
  /\ Delete(a)
  /\ EnqueueSave(a)
  /\ everUsed' = everUsed \ {a}
  /\ UNCHANGED <<storageFile, links, destroyed, starts, dropped>>

StateTold(a, d) == IF d = Default THEN Delete(a) ELSE Put(a, [controllerData[a] EXCEPT !.data = d])

\* handleStateChange: the default state has nothing to save.
HandleStateChange(a, d) ==
  /\ controllerState[a] \notin {NotStored, d} /\ ~destroyed
  /\ a \in initialized \/ EarlyChanges
  /\ controllerState' = [controllerState EXCEPT ![a] = d]
  /\ StateTold(a, d)
  /\ EnqueueSave(a)
  /\ UNCHANGED <<storageFile, links, destroyed, starts, everUsed, dropped>>

\* The last pairing is gone: the controllers of the bridge and of what it bridges start over.  A
\* bridge whose load failed serves nobody.
Unpaired ==
  LET gone == {a \in linked \cup {Bridge} : controllerState[a] # NotStored}
  IN /\ published /\ ~linkedAgain /\ ~destroyed
     /\ controllerState' = [a \in KnownAccessories |-> IF a \in gone THEN Default ELSE controllerState[a]]
     /\ controllerData' = [a \in KnownAccessories |-> IF a \in gone THEN NoEntry ELSE controllerData[a]]
     /\ sameObject' = sameObject \ gone
     /\ deleted' = deleted \cup gone
     /\ saveQueued' = (saveQueued \/ gone # {})
     /\ UNCHANGED <<storageFile, links, restoredAccessories, destroyed, starts, everUsed, dropped>>

\* The data found for a storage, else what its controller has told it before.
Found(a, saved) == IF saved[a] # NoEntry THEN saved[a] ELSE controllerData[a]

\* init: data whose controller is there is unmarked; other data is marked, or dropped if it was marked.
AfterInit(a, saved) ==
  LET e == Found(a, saved)
  IN CASE e = NoEntry -> NoEntry
       [] e # NoEntry /\ controllerState[a] # NotStored -> [e EXCEPT !.purgeOnNextLoad = FALSE]
       [] e # NoEntry /\ controllerState[a] = NotStored /\ e.purgeOnNextLoad -> NoEntry
       [] OTHER -> [e EXCEPT !.purgeOnNextLoad = TRUE]

DroppedAt(as, saved) == {a \in as : Found(a, saved) # NoEntry /\ AfterInit(a, saved) = NoEntry}

\* The storages of as get what was saved for them.
InitStorages(as, saved) ==
  /\ controllerData' = [a \in KnownAccessories |-> IF a \in as THEN AfterInit(a, saved) ELSE controllerData[a]]
  /\ controllerState' = [a \in KnownAccessories |->
       IF a \in as /\ controllerState[a] # NotStored /\ Found(a, saved) # NoEntry
       THEN RestoredData(AfterInit(a, saved)) ELSE controllerState[a]]
  /\ saveQueued' = (saveQueued \/ DroppedAt(as, saved) # {})
  /\ dropped' = dropped \cup DroppedAt(as, saved)
  /\ deleted' = deleted \cup DroppedAt(as, saved)

\* addBridgedAccessory: before the load the accessory waits for it; afterwards it gets what was kept,
\* or, if it was linked before, linkAccessory throws and changes nothing.
LinkAccessory(a) ==
  LET kept == AfterInit(a, restoredAccessories)
      uses == restoredAccessories[a] # NoEntry /\ kept # NoEntry
  IN /\ ~destroyed
     /\ linked' = linked \cup {a}
     /\ linkedAgain' = (linkedAgain \/ (a \in linked /\ ~published))
     /\ IF published /\ a \notin initialized
        THEN /\ initialized' = initialized \cup {a}
             /\ InitStorages({a}, restoredAccessories)
             /\ sameObject' = IF uses THEN sameObject \cup {a} ELSE sameObject
             /\ restoredAccessories' = IF uses THEN [restoredAccessories EXCEPT ![a] = kept] ELSE restoredAccessories
        ELSE UNCHANGED <<initialized, controllerData, controllerState, saveQueued, dropped, deleted,
                         sameObject, restoredAccessories>>
     /\ UNCHANGED <<storageFile, published, destroyed, starts, everUsed>>

\* Storages a load initializes: those of all accessories, or, as it throws at one that is linked
\* again, of that one and others before it.
LoadedAccessories == IF linkedAgain THEN {as \in SUBSET linked : as # {}} ELSE {linked}

\* publish: the data of accessories that are not linked is kept only for a bridge without any, and
\* not when the load fails.
Load ==
  /\ ~published /\ ~destroyed
  /\ published' = TRUE
  /\ \E as \in LoadedAccessories :
       /\ initialized' = as \cup {Bridge}
       /\ InitStorages(as \cup {Bridge}, storageFile)
  /\ restoredAccessories' = [a \in KnownAccessories |->
       IF linked = {} /\ a # Bridge THEN storageFile[a] ELSE NoEntry]
  /\ UNCHANGED <<storageFile, linked, linkedAgain, sameObject, destroyed, starts, everUsed>>

\* What a save writes for an accessory: data of memory, else what restoredAccessories still has.
Written(a) == IF a \in linked \cup {Bridge} /\ controllerData[a] # NoEntry
              THEN controllerData[a] ELSE restoredAccessories[a]

KeepsRestored == \E a \in KnownAccessories : restoredAccessories[a] # NoEntry

\* The timer fires, also after the accessory was destroyed.  The layout that is written is
\* restoredAccessories itself when there is one.
Save ==
  /\ saveQueued
  /\ saveQueued' = FALSE
  /\ storageFile' = [a \in KnownAccessories |-> Written(a)]
  /\ restoredAccessories' = IF KeepsRestored THEN [a \in KnownAccessories |-> Written(a)] ELSE restoredAccessories
  /\ sameObject' = IF KeepsRestored
       THEN sameObject \cup {a \in linked \cup {Bridge} : controllerData[a] # NoEntry} ELSE sameObject
  /\ UNCHANGED <<links, controllerData, controllerState, destroyed, starts, deleted, everUsed, dropped>>

\* Accessory.destroy() removes the file and starts a storage anew; the timer of the old one stays.
Destroy ==
  /\ published /\ ~destroyed
  /\ destroyed' = TRUE
  /\ storageFile' = NoEntries
  /\ UNCHANGED <<links, controllerData, restoredAccessories, sameObject, controllerState, saveQueued,
                 starts, deleted, everUsed, dropped>>

\* The process ends at any time, without a last save, and starts again.
RestartProcess ==
  /\ starts < MaxStarts
  /\ starts' = starts + 1
  /\ everUsed' = IF published THEN {a \in everUsed : controllerState[a] # NotStored} ELSE everUsed
  /\ published' = FALSE
  /\ linked' = {}
  /\ linkedAgain' = FALSE
  /\ initialized' = {}
  /\ controllerData' = NoEntries
  /\ restoredAccessories' = NoEntries
  /\ sameObject' = {}
  /\ controllerState' = [a \in KnownAccessories |-> NotStored]
  /\ saveQueued' = FALSE
  /\ destroyed' = FALSE
  /\ deleted' = {}
  /\ UNCHANGED <<storageFile, dropped>>

ControllerStorageNext ==
  \/ \E a \in KnownAccessories :
       \/ ConfigureController(a) \/ UntrackController(a)
       \/ \E d \in 0..MaxData : HandleStateChange(a, d)
  \/ \E a \in BridgedAccessories : LinkAccessory(a)
  \/ Unpaired \/ Load \/ Save \/ Destroy \/ RestartProcess

ControllerStorageSpec == ControllerStorageInit /\ [][ControllerStorageNext]_storageVars

-----------------------------------------------------------------------------
(* Properties.                                                             *)

\* What a controller was given and what its storage has agree, however configuration, load, link and
\* changes are ordered.
StorageFollowsController ==
  \A a \in KnownAccessories :
    a \in initialized /\ controllerState[a] # NotStored => controllerState[a] = RestoredData(controllerData[a])

\* When no save is queued the file has every state a controller is in, and nothing that was deleted,
\* but for accessories whose data was kept for a later link.
FileFollowsStorage ==
  published /\ ~saveQueued /\ ~destroyed =>
    \A a \in KnownAccessories : a \in initialized =>
      /\ controllerData[a] # NoEntry => storageFile[a].data = controllerData[a].data
      /\ a \in deleted /\ restoredAccessories[a] = NoEntry => storageFile[a] = NoEntry

\* "When storage is loaded, there is no fixed time frame after which Controllers need to be
\* configured": data of a controller that is configured in every run is never dropped.
UsedIsKept == \A a \in dropped \cap everUsed : controllerState[a] = NotStored

\* "removed accessories won't ever be deleted?": nothing that was deleted is written again.
DeletedIsGone ==
  published /\ ~saveQueued /\ ~destroyed =>
    \A a \in deleted : a \in initialized => storageFile[a] = NoEntry

\* "Removes this Accessory": the file of a destroyed accessory stays removed.
DestroyedIsGone == destroyed => storageFile = NoEntries

\* Controller, storage and file agree once no save is queued.
StorageKept == ControllerStorageTypeOK /\ StorageFollowsController /\ FileFollowsStorage
=============================================================================
