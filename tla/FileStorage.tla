------------------------------- MODULE FileStorage -------------------------------
(***************************************************************************)
(* HAPFileStorage: one file per key, read once when the storage is         *)
(* initialised and served from memory afterwards.  Processes, such as      *)
(* child bridges, share the directory.  The file operations of a write are *)
(* steps of their own: a process may end, and another one run, between any *)
(* two of them, and each may fail.                                         *)
(***************************************************************************)
EXTENDS Naturals, FiniteSets

CONSTANTS
  Processes, Keys, Values,
  Writer,       \* key -> the processes that write it
  Aliased,      \* keys whose value is an object its user goes on changing (IdentifierCache)
  MaxWrites     \* bound: calls of setItemSync and removeItemSync

Absent == "absent"
Truncated == "truncated"

ASSUME StorageAssumption ==
  /\ Writer \in [Keys -> SUBSET Processes]
  /\ Aliased \subseteq Keys
  /\ Absent \notin Values /\ Truncated \notin Values
  /\ MaxWrites \in Nat

VARIABLES
  file,         \* contents of the file of a key
  temporary,    \* contents of the temporary file of a process and a key
  data,         \* process -> its Map
  pc,           \* process -> where it is in setItemSync, "ended" for one that does not run
  key, value,   \* process -> arguments of its setItemSync
  completed,    \* history: key -> what the last call that returned left
  attempted,    \* history: key -> what an interrupted call would have left
  writes        \* number of calls

arguments == <<key, value>>
history   == <<completed, attempted>>
vars      == <<file, temporary, data, pc, arguments, history, writes>>

Contents == Values \cup {Absent, Truncated}

TypeOK ==
  /\ file \in [Keys -> Contents]
  /\ temporary \in [Processes \X Keys -> Contents]
  /\ \A p \in Processes : pc[p] = "opened" => temporary[p, key[p]] = Truncated
  /\ data \in [Processes -> [Keys -> Values \cup {Absent}]]
  /\ pc \in [Processes -> {"ended", "idle", "opened", "written", "renamed"}]
  /\ key \in [Processes -> Keys]
  /\ value \in [Processes -> Values]
  /\ completed \in [Keys -> Values \cup {Absent}]
  /\ attempted \in [Keys -> SUBSET (Values \cup {Absent})]
  /\ writes \in 0..MaxWrites

Init ==
  /\ file = [k \in Keys |-> Absent]
  /\ temporary = [f \in Processes \X Keys |-> Absent]
  /\ data = [p \in Processes |-> [k \in Keys |-> Absent]]
  /\ pc = [p \in Processes |-> "ended"]
  /\ key \in [Processes -> Keys]
  /\ value \in [Processes -> Values]
  /\ completed = [k \in Keys |-> Absent]
  /\ attempted = [k \in Keys |-> {}]
  /\ writes = 0

-----------------------------------------------------------------------------

\* parse leaves a file it cannot read undefined.
Parsed(contents) == IF contents = Truncated THEN Absent ELSE contents

\* initSync reads every file whose name does not start with a dot: no temporary one.
InitSync(p) ==
  /\ pc[p] = "ended"
  /\ pc' = [pc EXCEPT ![p] = "idle"]
  /\ data' = [data EXCEPT ![p] = [k \in Keys |-> Parsed(file[k])]]
  /\ UNCHANGED <<file, temporary, arguments, history, writes>>

\* Mutant of TemporaryFile: the name has no pid, so that processes use the same file.
TemporaryOfKey(p, k) == <<CHOOSE q \in Processes : TRUE, k>>

TemporaryFile(p, k) == <<p, k>>

\* Mutant of CachedAtOnce: every value is cached before it is on the disk.
CachedEarly(k) == TRUE

\* A value the map shares with its user changes before it is saved.
CachedAtOnce(k) == k \in Aliased

\* setItemSync opens the temporary file, which truncates it.
SetItemSync(p, k, v) ==
  /\ pc[p] = "idle"
  /\ p \in Writer[k]
  /\ writes < MaxWrites
  /\ writes' = writes + 1
  /\ pc' = [pc EXCEPT ![p] = "opened"]
  /\ key' = [key EXCEPT ![p] = k]
  /\ value' = [value EXCEPT ![p] = v]
  /\ attempted' = [attempted EXCEPT ![k] = @ \cup {v}]
  /\ temporary' = [temporary EXCEPT ![TemporaryFile(p, k)] = Truncated]
  /\ data' = IF CachedAtOnce(k) /\ data[p][k] # Absent THEN [data EXCEPT ![p][k] = v] ELSE data
  /\ UNCHANGED <<file, completed>>

WriteTemporary(p) ==
  /\ pc[p] = "opened"
  /\ pc' = [pc EXCEPT ![p] = "written"]
  /\ temporary' = [temporary EXCEPT ![TemporaryFile(p, key[p])] = value[p]]
  /\ UNCHANGED <<file, data, arguments, history, writes>>

\* renameSync moves whatever the temporary file has by now; it fails when there is none.
RenameTemporary(p) ==
  LET f == TemporaryFile(p, key[p])
  IN /\ pc[p] = "written"
     /\ temporary[f] # Absent
     /\ pc' = [pc EXCEPT ![p] = "renamed"]
     /\ file' = [file EXCEPT ![key[p]] = temporary[f]]
     /\ temporary' = [temporary EXCEPT ![f] = Absent]
     /\ UNCHANGED <<data, arguments, history, writes>>

\* The value is cached now that it is on the disk, and setItemSync returns.
CacheItem(p) ==
  /\ pc[p] = "renamed"
  /\ pc' = [pc EXCEPT ![p] = "idle"]
  /\ data' = [data EXCEPT ![p][key[p]] = value[p]]
  /\ completed' = [completed EXCEPT ![key[p]] = value[p]]
  /\ attempted' = [attempted EXCEPT ![key[p]] = {}]
  /\ UNCHANGED <<file, temporary, arguments, writes>>

\* Mutant of WriteFails: the error is swallowed and setItemSync goes on.
WriteFailsSilently(p) ==
  /\ pc[p] \in {"opened", "written"}
  /\ pc' = [pc EXCEPT ![p] = "renamed"]
  /\ temporary' = [temporary EXCEPT ![TemporaryFile(p, key[p])] = Absent]
  /\ UNCHANGED <<file, data, arguments, history, writes>>

\* Opening, writing or renaming fails: the temporary file is unlinked and the error thrown.
WriteFails(p) ==
  /\ pc[p] \in {"opened", "written"}
  /\ pc' = [pc EXCEPT ![p] = "idle"]
  /\ temporary' = [temporary EXCEPT ![TemporaryFile(p, key[p])] = Absent]
  /\ UNCHANGED <<file, data, arguments, history, writes>>

RemoveItemSync(p, k) ==
  /\ pc[p] = "idle"
  /\ p \in Writer[k]
  /\ writes < MaxWrites
  /\ writes' = writes + 1
  /\ file' = [file EXCEPT ![k] = Absent]
  /\ data' = [data EXCEPT ![p][k] = Absent]
  /\ completed' = [completed EXCEPT ![k] = Absent]
  /\ attempted' = [attempted EXCEPT ![k] = {}]
  /\ UNCHANGED <<temporary, pc, arguments>>

\* The process ends; its temporary file stays, and the next process may get its pid.
Crash(p) ==
  /\ pc[p] # "ended"
  /\ pc' = [pc EXCEPT ![p] = "ended"]
  /\ UNCHANGED <<file, temporary, data, arguments, history, writes>>

Next ==
  \E p \in Processes :
    \/ InitSync(p)
    \/ \E k \in Keys : RemoveItemSync(p, k) \/ \E v \in Values : SetItemSync(p, k, v)
    \/ WriteTemporary(p)
    \/ RenameTemporary(p)
    \/ CacheItem(p)
    \/ WriteFails(p)
    \/ Crash(p)

Spec == Init /\ [][Next]_vars

-----------------------------------------------------------------------------
(* Properties.                                                             *)

\* "an interrupted write leaves the previous contents intact instead of a truncated file", also
\* when two processes write the same key.
NeverTruncated == \A k \in Keys : file[k] # Truncated

Owned(p, k) == Writer[k] = {p}

\* "a failed write cannot leave an accessory which reads as paired now and unpaired after a
\* restart": whenever a process runs, outside setItemSync, it reads what the next one will.
ReadsAreDurable ==
  \A p \in Processes, k \in Keys :
    Owned(p, k) /\ pc[p] = "idle" => data[p][k] = Parsed(file[k])

\* A write that returned is found after any crash, unless a later one, perhaps interrupted,
\* replaced it.
CompletedSurvives ==
  \A p \in Processes, k \in Keys :
    Owned(p, k) => file[k] = completed[k] \/ file[k] \in attempted[k]

=============================================================================
