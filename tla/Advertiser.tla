-------------------------------- MODULE Advertiser --------------------------------
(***************************************************************************)
(* The two advertisers that talk to a daemon over D-Bus: AvahiAdvertiser   *)
(* and ResolvedAdvertiser, as the accessory uses them.                     *)
(*                                                                         *)
(* Their methods are async functions; each waits for the answer of one     *)
(* call at a time, and nothing keeps two of them apart: the accessory      *)
(* calls updateAdvertisement without awaiting it.  An async function in    *)
(* progress is the call it waits for; the bus answers calls in order.      *)
(* Both read this.path after the answer, where another function may have   *)
(* changed it.                                                             *)
(***************************************************************************)
EXTENDS Naturals, Sequences, FiniteSets

CONSTANTS
  Backends,     \* subset of {"avahi", "resolved"}
  MaxTxt,       \* bound on the changes of what is advertised
  MaxPaths,     \* bound on the objects the daemon hands out
  MaxCalls,     \* bound on the functions in progress; 1: no two overlap
  NoPath

ASSUME AdvertiserAssumption ==
  /\ Backends \subseteq {"avahi", "resolved"}
  /\ MaxTxt \in Nat /\ MaxPaths \in Nat /\ MaxCalls \in Nat \ {0}
  /\ NoPath \notin Nat \cup [txt : 0..MaxTxt, committed : BOOLEAN]

VARIABLES
  backend,
  advertised,    \* the current TXT record (configuration number, paired flag), as a counter
  port,          \* initPort was called
  bus,           \* the bus is open
  path,
  stateListener, \* the StateChanged listener is registered
  calls,         \* the calls not yet answered, oldest first
  daemon,        \* the daemon runs
  records,       \* path -> what the daemon announces for it, NoPath for nothing
  nextPath,
  interrupted,   \* history: what has befallen the daemon since the last registration
  unhandled      \* a rejected promise nobody handles: the process ends

advertiserVars == <<backend, advertised, port, bus, path, stateListener, calls, daemon, records,
                    nextPath, interrupted, unhandled>>

Members == {"RegisterService", "UnregisterService",
            "EntryGroupNew", "AddService", "Commit", "GetInterface", "UpdateServiceTxt", "Free"}
Call(member, function, object, txt) ==
  [member |-> member, function |-> function, object |-> object, txt |-> txt]

AdvertiserTypeOK ==
  /\ backend \in Backends
  /\ advertised \in 0..MaxTxt
  /\ port \in BOOLEAN /\ bus \in BOOLEAN /\ stateListener \in BOOLEAN
  /\ path \in 1..MaxPaths \cup {NoPath}
  /\ \A k \in DOMAIN calls :
       /\ calls[k].member \in Members /\ calls[k].function \in {"start", "update", "destroy"}
       /\ calls[k].object \in 1..MaxPaths \cup {NoPath} /\ calls[k].txt \in 0..MaxTxt
  /\ daemon \in BOOLEAN
  /\ records \in [1..MaxPaths -> [txt : 0..MaxTxt, committed : BOOLEAN] \cup {NoPath}]
  /\ nextPath \in 1..(MaxPaths + 1)
  /\ interrupted \in {"no", "stopped", "settled"} /\ unhandled \in BOOLEAN

AdvertiserInit ==
  /\ backend \in Backends
  /\ advertised = 0
  /\ port = FALSE /\ bus = TRUE /\ path = NoPath /\ stateListener = FALSE
  /\ calls = <<>>
  /\ daemon = TRUE
  /\ records = [p \in 1..MaxPaths |-> NoPath]
  /\ nextPath = 1
  /\ interrupted = "no" /\ unhandled = FALSE

-----------------------------------------------------------------------------
(* The functions up to their first await.                                  *)

Alive == bus /\ ~unhandled

FirstCall(function) ==
  IF backend = "avahi" THEN Call("EntryGroupNew", function, NoPath, advertised)
                       ELSE Call("RegisterService", function, NoPath, advertised)

(* onListening: initPort and startAdvertising *)
StartAdvertising ==
  /\ Alive /\ ~port /\ Len(calls) < MaxCalls
  /\ port' = TRUE
  /\ calls' = Append(calls, FirstCall("start"))
  /\ UNCHANGED <<backend, advertised, bus, path, stateListener, daemon, records, nextPath, interrupted,
                 unhandled>>

(* Without a path avahi returns, and resolved registers -- which throws without a port. *)
UpdateAdvertisement ==
  /\ Alive /\ advertised < MaxTxt /\ Len(calls) < MaxCalls
  /\ advertised' = advertised + 1
  /\ calls' = CASE path # NoPath /\ backend = "avahi" ->
                     Append(calls, Call("UpdateServiceTxt", "update", path, advertised'))
                [] path # NoPath /\ backend = "resolved" ->
                     Append(calls, Call("UnregisterService", "update", path, advertised'))
                [] path = NoPath /\ backend = "resolved" /\ port ->
                     Append(calls, Call("RegisterService", "update", NoPath, advertised'))
                [] OTHER -> calls
  /\ unhandled' = (path = NoPath /\ backend = "resolved" /\ ~port)
  /\ UNCHANGED <<backend, port, bus, path, stateListener, daemon, records, nextPath, interrupted>>

CloseBus ==
  /\ bus' = FALSE /\ stateListener' = FALSE /\ calls' = <<>>

DestroyAdvertiser ==
  /\ Alive /\ Len(calls) < MaxCalls
  /\ IF path # NoPath
       THEN /\ calls' = Append(calls, Call(IF backend = "avahi" THEN "Free" ELSE "UnregisterService",
                                           "destroy", path, advertised))
            /\ UNCHANGED <<bus, stateListener>>
       ELSE CloseBus
  /\ UNCHANGED <<backend, advertised, port, path, daemon, records, nextPath, interrupted, unhandled>>

(* handleStateChangedEvent: the daemon runs (again) *)
HandleStateChanged ==
  IF Alive /\ stateListener /\ path # NoPath
    THEN calls' = Append(calls, FirstCall("start"))
    ELSE UNCHANGED calls

-----------------------------------------------------------------------------
(* The answers: what the daemon does, and the function up to its next await. *)

ServicesAnnounced(p) == records[p] # NoPath /\ records[p].committed

(* FALSE: the daemon answers with an error; of one name it takes one service *)
Accepts(c) ==
  /\ daemon
  /\ c.member \in {"EntryGroupNew", "GetInterface", "RegisterService"} \/ records[c.object] # NoPath
  /\ c.member \in {"AddService", "RegisterService"} => \A p \in 1..MaxPaths : ~ServicesAnnounced(p)

Effect(c) ==
  CASE c.member = "RegisterService" ->
         [records EXCEPT ![nextPath] = [txt |-> c.txt, committed |-> TRUE]]
    [] c.member = "EntryGroupNew" ->
         [records EXCEPT ![nextPath] = [txt |-> c.txt, committed |-> FALSE]]
    [] c.member \in {"AddService", "UpdateServiceTxt"} -> [records EXCEPT ![c.object].txt = c.txt]
    [] c.member = "Commit" -> [records EXCEPT ![c.object].committed = TRUE]
    [] c.member \in {"UnregisterService", "Free"} -> [records EXCEPT ![c.object] = NoPath]
    [] OTHER -> records

New(c) == c.member \in {"RegisterService", "EntryGroupNew"}

\* Mutant of CallContinues: what was advertised when the update began is registered again.
CallContinuesAsAsked(c, ok, newPath) ==
  CASE c.member = "EntryGroupNew" /\ ok -> <<Call("AddService", c.function, newPath, advertised)>>
    [] c.member = "AddService" /\ ok    -> <<Call("Commit", c.function, newPath, c.txt)>>
    [] c.member = "Commit" /\ ok /\ ~stateListener -> <<Call("GetInterface", c.function, NoPath, c.txt)>>
    [] c.member = "UnregisterService" /\ c.function = "update" ->
         <<Call("RegisterService", "update", NoPath, c.txt)>>
    [] OTHER -> <<>>

(* After the answer: the next call of the function, if it makes another.   *)
CallContinues(c, ok, newPath) ==
  CASE c.member = "EntryGroupNew" /\ ok -> <<Call("AddService", c.function, newPath, advertised)>>
    [] c.member = "AddService" /\ ok    -> <<Call("Commit", c.function, newPath, c.txt)>>
    [] c.member = "Commit" /\ ok /\ ~stateListener -> <<Call("GetInterface", c.function, NoPath, c.txt)>>
    [] c.member = "UnregisterService" /\ c.function = "update" ->
         <<Call("RegisterService", "update", NoPath, advertised)>>
    [] OTHER -> <<>>

PathAfter(c, ok) ==
  CASE New(c) /\ ok -> nextPath
    [] c.member \in {"UnregisterService", "Free"} -> NoPath
    [] OTHER -> path

Answered ==
  /\ Alive /\ calls # <<>>
  /\ LET c == Head(calls)
         ok == Accepts(c)
     IN  /\ New(c) /\ ok => nextPath <= MaxPaths
         /\ nextPath' = IF New(c) /\ ok THEN nextPath + 1 ELSE nextPath
         /\ records' = IF ok THEN Effect(c) ELSE records
         /\ path' = PathAfter(c, ok)
         /\ unhandled' = (c.member = "RegisterService" /\ c.function = "update" /\ ~ok)
         /\ interrupted' = IF interrupted = "stopped" /\ ok /\ c.member \in {"RegisterService", "Commit"}
                            THEN "no" ELSE interrupted
         /\ IF c.function = "destroy"
              THEN CloseBus
              ELSE /\ calls' = Tail(calls) \o CallContinues(c, ok, path')
                   /\ stateListener' = (stateListener \/ (c.member = "GetInterface" /\ ok))
                   /\ UNCHANGED bus
  /\ UNCHANGED <<backend, advertised, port, daemon>>

-----------------------------------------------------------------------------
(* The daemon.                                                             *)

DaemonStops ==
  /\ Alive /\ daemon
  /\ daemon' = FALSE
  /\ records' = [p \in 1..MaxPaths |-> NoPath]
  /\ interrupted' = "stopped"
  /\ UNCHANGED <<backend, advertised, port, bus, path, stateListener, calls, nextPath, unhandled>>

DaemonStarts ==
  /\ Alive /\ ~daemon /\ Len(calls) < MaxCalls
  /\ daemon' = TRUE
  /\ HandleStateChanged
  /\ UNCHANGED <<backend, advertised, port, bus, path, stateListener, records, nextPath, interrupted,
                 unhandled>>

(* avahi reports RUNNING also when the name of the host has been settled anew *)
HostNameSettled ==
  /\ Alive /\ backend = "avahi" /\ daemon /\ stateListener /\ Len(calls) < MaxCalls
  /\ HandleStateChanged
  /\ interrupted' = "settled"
  /\ UNCHANGED <<backend, advertised, port, bus, path, stateListener, daemon, records, nextPath,
                 unhandled>>

AdvertiserNext ==
  \/ StartAdvertising \/ UpdateAdvertisement \/ DestroyAdvertiser
  \/ Answered
  \/ DaemonStops \/ DaemonStarts \/ HostNameSettled

AdvertiserSpec == AdvertiserInit /\ [][AdvertiserNext]_advertiserVars

-----------------------------------------------------------------------------
\* No call is in progress, the daemon runs and what befell it has been answered by a registration.
CallSettled == Alive /\ port /\ calls = <<>> /\ daemon /\ interrupted = "no"

(* Once the calls are answered the network hears of the accessory once, of *)
(* its current record and under the path the advertiser can update and     *)
(* withdraw (the paired flag of the record decides whether a controller    *)
(* offers to pair).  With avahi that holds however updates have crossed    *)
(* registrations, and for both after a restart of the daemon that a        *)
(* registration has followed.  It is not claimed after a restart none      *)
(* followed or a new name of the host, where avahi registers beside its    *)
(* own record (RestartIsNoticed), nor once the process has ended, as it    *)
(* does when resolved refuses to register again what crossing updates      *)
(* have registered (AdvertiserStaysUp).                                    *)
AnnouncedIsCurrent ==
  /\ AdvertiserTypeOK
  /\ CallSettled =>
       /\ path # NoPath
       /\ records[path] = [txt |-> advertised, committed |-> TRUE]
       /\ \A p \in 1..MaxPaths \ {path} : ~ServicesAnnounced(p)

(* With its listener avahi always gets to a record under the current path. *)
RestartIsNoticed ==
  Alive /\ port /\ calls = <<>> /\ daemon /\ stateListener => path # NoPath /\ ServicesAnnounced(path)

(* The failure of an update does not end the process.                      *)
AdvertiserStaysUp == ~unhandled
=============================================================================
