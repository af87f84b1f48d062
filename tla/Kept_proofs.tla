------------------------------- MODULE Kept_proofs -------------------------------
(***************************************************************************)
(* Proofs about what an accessory keeps from one run of the program to the *)
(* next, for any processes, keys, accessories and bounds: its files        *)
(* (FileStorage), the data of its controllers (ControllerStorage), its ids *)
(* (AccessoryDatabase) and its services (AccessoryServices).               *)
(***************************************************************************)
EXTENDS FileStorage, ControllerStorage, AccessoryDatabase, AccessoryServices, Induction_proofs, FiniteSetTheorems, SequenceTheorems, TLAPS

-----------------------------------------------------------------------------
(***************************************************************************)
(* The inductive invariant.  That a file is whole depends on what is       *)
(* renamed to it: a temporary file belongs to one process and key, so what *)
(* the process wrote is still there when it renames.  The rest relates a   *)
(* call in progress to the file and to its history.                        *)
(***************************************************************************)

Busy == {"opened", "written", "renamed"}

WrittenIsWhole == \A p \in Processes : pc[p] = "written" => temporary[p, key[p]] = value[p]

WritersWrite == \A p \in Processes : pc[p] \in Busy => p \in Writer[key[p]]

RenamedIsThere ==
  \A p \in Processes : pc[p] = "renamed" /\ Owned(p, key[p]) => file[key[p]] = value[p]

InProgress ==
  \A p \in Processes : pc[p] \in Busy /\ Owned(p, key[p]) => value[p] \in attempted[key[p]]

\* Memory equals disk but between the rename and the end of a call.
MemoryIsDisk ==
  \A p \in Processes, k \in Keys :
    Owned(p, k) /\ pc[p] # "ended"
      => data[p][k] = Parsed(file[k]) \/ (pc[p] = "renamed" /\ key[p] = k)

WInv == TypeOK /\ WrittenIsWhole /\ NeverTruncated

HInv == WritersWrite /\ RenamedIsThere /\ InProgress /\ CompletedSurvives

-----------------------------------------------------------------------------
\* A storage that was never used is typed.
LEMMA TypeInit == Init => TypeOK
BY StorageAssumption DEF StorageAssumption, Init, TypeOK, Contents

\* Every step of a process preserves the types, and leaves what it has written to its temporary
\* file alone until it renames it.
LEMMA TypePreserved == WInv /\ [Next]_vars => TypeOK'
<1> SUFFICES ASSUME WInv, [Next]_vars PROVE TypeOK'
  OBVIOUS
<1>1. ASSUME NEW p \in Processes, InitSync(p) PROVE TypeOK'
  BY <1>1 DEF WInv, TypeOK, InitSync, Parsed, NeverTruncated, Contents, arguments, history
<1>2. ASSUME NEW p \in Processes, NEW k \in Keys, NEW v \in Values, SetItemSync(p, k, v)
      PROVE  TypeOK'
  <2>1. data' \in [Processes -> [Keys -> Values \cup {Absent}]]
    BY <1>2 DEF WInv, TypeOK, SetItemSync
  <2>2. attempted' \in [Keys -> SUBSET (Values \cup {Absent})]
    BY <1>2 DEF WInv, TypeOK, SetItemSync
  <2>3. temporary' \in [Processes \X Keys -> Contents]
    BY <1>2 DEF WInv, TypeOK, SetItemSync, TemporaryFile, Contents
  <2>4. \A q \in Processes : pc'[q] = "opened" => temporary'[q, key'[q]] = Truncated
    BY <1>2 DEF WInv, TypeOK, SetItemSync, TemporaryFile
  <2>5. key' \in [Processes -> Keys] /\ value' \in [Processes -> Values]
    BY <1>2 DEF WInv, TypeOK, SetItemSync
  <2>6. pc' \in [Processes -> {"ended", "idle", "opened", "written", "renamed"}]
    BY <1>2 DEF WInv, TypeOK, SetItemSync
  <2>8. writes' \in 0..MaxWrites
    <3>1. writes \in 0..MaxWrites /\ writes < MaxWrites /\ writes' = writes + 1
      BY <1>2 DEF WInv, TypeOK, SetItemSync
    <3> QED
      BY <3>1, StorageAssumption DEF StorageAssumption
  <2>7. file' \in [Keys -> Contents] /\ completed' \in [Keys -> Values \cup {Absent}]
    BY <1>2 DEF WInv, TypeOK, SetItemSync
  <2> QED
    BY <2>1, <2>2, <2>3, <2>4, <2>5, <2>6, <2>7, <2>8 DEF TypeOK
<1>3. ASSUME NEW p \in Processes, WriteTemporary(p) PROVE TypeOK'
  BY <1>3 DEF WInv, TypeOK, WriteTemporary, TemporaryFile, Contents, arguments, history
<1>4. ASSUME NEW p \in Processes, RenameTemporary(p) PROVE TypeOK'
  BY <1>4 DEF WInv, TypeOK, RenameTemporary, TemporaryFile, Contents, arguments, history
<1>5. ASSUME NEW p \in Processes, CacheItem(p) PROVE TypeOK'
  BY <1>5 DEF WInv, TypeOK, CacheItem, arguments
<1>6. ASSUME NEW p \in Processes, WriteFails(p) PROVE TypeOK'
  BY <1>6 DEF WInv, TypeOK, WriteFails, TemporaryFile, Contents, arguments, history
<1>7. ASSUME NEW p \in Processes, NEW k \in Keys, RemoveItemSync(p, k) PROVE TypeOK'
  <2>1. data' \in [Processes -> [Keys -> Values \cup {Absent}]]
    BY <1>7 DEF WInv, TypeOK, RemoveItemSync
  <2>2. /\ file' \in [Keys -> Contents]
        /\ completed' \in [Keys -> Values \cup {Absent}]
        /\ attempted' \in [Keys -> SUBSET (Values \cup {Absent})]
    BY <1>7 DEF WInv, TypeOK, RemoveItemSync, Contents
  <2>3. writes' \in 0..MaxWrites
    <3>1. writes \in 0..MaxWrites /\ writes < MaxWrites /\ writes' = writes + 1
      BY <1>7 DEF WInv, TypeOK, RemoveItemSync
    <3> QED
      BY <3>1, StorageAssumption DEF StorageAssumption
  <2> QED
    BY <1>7, <2>1, <2>2, <2>3 DEF WInv, TypeOK, RemoveItemSync, arguments
<1>8. ASSUME NEW p \in Processes, Crash(p) PROVE TypeOK'
  BY <1>8 DEF WInv, TypeOK, Crash, arguments, history
<1>9. CASE UNCHANGED vars
  BY <1>9 DEF WInv, TypeOK, vars, arguments, history
<1> QED
  BY <1>1, <1>2, <1>3, <1>4, <1>5, <1>6, <1>7, <1>8, <1>9 DEF Next

\* What a process wrote stays in its temporary file, and only that gets its key's name.
LEMMA WholePreserved == WInv /\ [Next]_vars => (WrittenIsWhole /\ NeverTruncated)'
<1> SUFFICES ASSUME WInv, [Next]_vars PROVE (WrittenIsWhole /\ NeverTruncated)'
  OBVIOUS
<1> USE DEF WInv, TypeOK, WrittenIsWhole, NeverTruncated, arguments, history
<1>1. ASSUME NEW p \in Processes, InitSync(p) PROVE (WrittenIsWhole /\ NeverTruncated)'
  BY <1>1 DEF InitSync
<1>2. ASSUME NEW p \in Processes, NEW k \in Keys, NEW v \in Values, SetItemSync(p, k, v)
      PROVE  (WrittenIsWhole /\ NeverTruncated)'
  BY <1>2 DEF SetItemSync, TemporaryFile
<1>3. ASSUME NEW p \in Processes, WriteTemporary(p) PROVE (WrittenIsWhole /\ NeverTruncated)'
  BY <1>3 DEF WriteTemporary, TemporaryFile
<1>4. ASSUME NEW p \in Processes, RenameTemporary(p) PROVE (WrittenIsWhole /\ NeverTruncated)'
  <2>1. temporary[TemporaryFile(p, key[p])] = value[p]
    BY <1>4 DEF RenameTemporary, TemporaryFile
  <2>2. \A k \in Keys : file'[k] # Truncated
    BY <1>4, <2>1, StorageAssumption DEF RenameTemporary, StorageAssumption
  <2>3. ASSUME NEW q \in Processes, pc'[q] = "written"
        PROVE  temporary'[q, key'[q]] = value'[q]
    <3>1. q # p /\ pc[q] = "written"
      BY <1>4, <2>3 DEF RenameTemporary
    <3>2. temporary'[q, key[q]] = temporary[q, key[q]]
      BY <1>4, <3>1 DEF RenameTemporary, TemporaryFile
    <3> QED
      BY <1>4, <3>1, <3>2 DEF RenameTemporary
  <2> QED
    BY <2>2, <2>3
<1>5. ASSUME NEW p \in Processes, CacheItem(p) PROVE (WrittenIsWhole /\ NeverTruncated)'
  BY <1>5 DEF CacheItem
<1>6. ASSUME NEW p \in Processes, WriteFails(p) PROVE (WrittenIsWhole /\ NeverTruncated)'
  BY <1>6 DEF WriteFails, TemporaryFile
<1>7. ASSUME NEW p \in Processes, NEW k \in Keys, RemoveItemSync(p, k)
      PROVE  (WrittenIsWhole /\ NeverTruncated)'
  BY <1>7 DEF RemoveItemSync, Absent, Truncated
<1>8. ASSUME NEW p \in Processes, Crash(p) PROVE (WrittenIsWhole /\ NeverTruncated)'
  BY <1>8 DEF Crash
<1>9. CASE UNCHANGED vars
  BY <1>9 DEF vars
<1> QED
  BY <1>1, <1>2, <1>3, <1>4, <1>5, <1>6, <1>7, <1>8, <1>9 DEF Next

\* In every reachable state types are kept, a finished temporary file has the value of its call,
\* and no file is truncated.
THEOREM Whole == Spec => []WInv
<1>1. Init => WInv
  BY TypeInit DEF WInv, Init, TypeOK, WrittenIsWhole, NeverTruncated, Absent, Truncated
<1>2. WInv /\ [Next]_vars => WInv'
  BY TypePreserved, WholePreserved DEF WInv
<1> QED
  BY <1>1, <1>2, PTL DEF Spec

\* In every reachable state the variables have their types.
THEOREM TypeCorrect == Spec => []TypeOK
<1>1. WInv => TypeOK
  BY DEF WInv
<1> QED
  BY <1>1, Whole, PTL

\* An interrupted or concurrent setItemSync never leaves a truncated file.
THEOREM FilesAreWhole == Spec => []NeverTruncated
<1>1. WInv => NeverTruncated
  BY DEF WInv
<1> QED
  BY <1>1, Whole, PTL

-----------------------------------------------------------------------------
\* What is written to a key's file is the value of the call.
LEMMA RenamedValue ==
  ASSUME WInv, NEW p \in Processes, RenameTemporary(p)
  PROVE  file' = [file EXCEPT ![key[p]] = value[p]]
BY DEF WInv, WrittenIsWhole, RenameTemporary, TemporaryFile

\* Two processes cannot both be the only writer of a key.
LEMMA OneOwner ==
  ASSUME NEW p \in Processes, NEW q \in Processes, NEW k \in Keys, Owned(q, k), p \in Writer[k]
  PROVE  p = q
BY DEF Owned

\* A process only writes the keys it may write.
LEMMA WritersPreserved == WInv /\ WritersWrite /\ [Next]_vars => WritersWrite'
<1> SUFFICES ASSUME WInv, WritersWrite, [Next]_vars PROVE WritersWrite'
  OBVIOUS
<1> USE DEF WInv, TypeOK, WritersWrite, Busy, arguments, history
<1>1. ASSUME NEW p \in Processes, InitSync(p) PROVE WritersWrite'
  BY <1>1 DEF InitSync
<1>2. ASSUME NEW p \in Processes, NEW k \in Keys, NEW v \in Values, SetItemSync(p, k, v)
      PROVE  WritersWrite'
  BY <1>2 DEF SetItemSync
<1>3. ASSUME NEW p \in Processes, WriteTemporary(p) \/ RenameTemporary(p) PROVE WritersWrite'
  BY <1>3 DEF WriteTemporary, RenameTemporary
<1>4. ASSUME NEW p \in Processes, CacheItem(p) \/ WriteFails(p) \/ Crash(p) PROVE WritersWrite'
  BY <1>4 DEF CacheItem, WriteFails, Crash
<1>5. ASSUME NEW p \in Processes, NEW k \in Keys, RemoveItemSync(p, k) PROVE WritersWrite'
  BY <1>5 DEF RemoveItemSync
<1>6. CASE UNCHANGED vars
  BY <1>6 DEF vars
<1> QED
  BY <1>1, <1>2, <1>3, <1>4, <1>5, <1>6 DEF Next

\* A call leaves the file of its key with its value from the rename to its return, and remembers
\* from its start what it attempts.  Another process never touches the key of an only writer.
LEMMA HistoryPreserved == WInv /\ HInv /\ [Next]_vars => (RenamedIsThere /\ InProgress /\ CompletedSurvives)'
<1> DEFINE Kept == RenamedIsThere /\ InProgress /\ CompletedSurvives
<1> SUFFICES ASSUME WInv, HInv, [Next]_vars PROVE Kept'
  OBVIOUS
<1> USE DEF WInv, HInv, TypeOK, WritersWrite, RenamedIsThere, InProgress, CompletedSurvives, Busy,
            Owned, arguments, history
<1>1. ASSUME NEW p \in Processes, InitSync(p) PROVE Kept'
  BY <1>1 DEF InitSync
<1>2. ASSUME NEW p \in Processes, NEW k \in Keys, NEW v \in Values, SetItemSync(p, k, v)
      PROVE  Kept'
  <2>1. RenamedIsThere'
    BY <1>2 DEF SetItemSync
  <2>2. InProgress'
    BY <1>2 DEF SetItemSync
  <2>3. CompletedSurvives'
    BY <1>2 DEF SetItemSync
  <2> QED
    BY <2>1, <2>2, <2>3
<1>3. ASSUME NEW p \in Processes, WriteTemporary(p) PROVE Kept'
  BY <1>3 DEF WriteTemporary
<1>4. ASSUME NEW p \in Processes, RenameTemporary(p) PROVE Kept'
  <2>1. file' = [file EXCEPT ![key[p]] = value[p]] /\ pc[p] = "written" /\ p \in Writer[key[p]]
    BY <1>4, RenamedValue DEF RenameTemporary
  <2>2. pc' = [pc EXCEPT ![p] = "renamed"] /\ UNCHANGED <<key, value, completed, attempted>>
    BY <1>4 DEF RenameTemporary
  <2>3. \A q \in Processes, k \in Keys : Owned(q, k) /\ q # p => k # key[p] /\ file'[k] = file[k]
    <3> SUFFICES ASSUME NEW q \in Processes, NEW k \in Keys, Owned(q, k), q # p
                 PROVE  k # key[p] /\ file'[k] = file[k]
      OBVIOUS
    <3>1. k # key[p]
      BY <2>1, OneOwner
    <3> QED
      BY <2>1, <3>1
  <2>4. file'[key[p]] = value[p]
    BY <2>1
  <2>5. RenamedIsThere'
    <3> SUFFICES ASSUME NEW q \in Processes, pc'[q] = "renamed", Owned(q, key[q])
                 PROVE  file'[key[q]] = value[q]
      BY <2>2
    <3> QED
      BY <2>2, <2>3, <2>4
  <2>6. InProgress'
    BY <2>1, <2>2
  <2>7. CompletedSurvives'
    <3> SUFFICES ASSUME NEW q \in Processes, NEW k \in Keys, Owned(q, k)
                 PROVE  file'[k] = completed[k] \/ file'[k] \in attempted[k]
      BY <2>2
    <3>1. CASE k = key[p]
      BY <2>1, <2>4, <3>1
    <3>2. CASE k # key[p]
      BY <2>1, <3>2
    <3> QED
      BY <3>1, <3>2
  <2> QED
    BY <2>5, <2>6, <2>7
<1>5. ASSUME NEW p \in Processes, CacheItem(p) PROVE Kept'
  <2>1. RenamedIsThere'
    BY <1>5 DEF CacheItem
  <2>2. InProgress'
    BY <1>5 DEF CacheItem
  <2>3. CompletedSurvives'
    BY <1>5 DEF CacheItem
  <2> QED
    BY <2>1, <2>2, <2>3
<1>6. ASSUME NEW p \in Processes, WriteFails(p) \/ Crash(p) PROVE Kept'
  BY <1>6 DEF WriteFails, Crash
<1>7. ASSUME NEW p \in Processes, NEW k \in Keys, RemoveItemSync(p, k) PROVE Kept'
  <2>1. RenamedIsThere'
    BY <1>7 DEF RemoveItemSync
  <2>2. InProgress'
    BY <1>7 DEF RemoveItemSync
  <2>3. CompletedSurvives'
    BY <1>7 DEF RemoveItemSync
  <2> QED
    BY <2>1, <2>2, <2>3
<1>8. CASE UNCHANGED vars
  BY <1>8 DEF vars
<1> QED
  BY <1>1, <1>2, <1>3, <1>4, <1>5, <1>6, <1>7, <1>8 DEF Next

\* What the history says of files and calls holds in every reachable state.
THEOREM History == Spec => [](WInv /\ HInv)
<1>1. Init => HInv
  BY DEF HInv, Init, WritersWrite, RenamedIsThere, InProgress, CompletedSurvives, Busy
<1>2. WInv /\ HInv /\ [Next]_vars => HInv'
  BY WritersPreserved, HistoryPreserved DEF HInv
<1> QED
  BY <1>1, <1>2, Whole, PTL DEF Spec

\* A write that returned survives every crash and every interrupted or failed write after it.
THEOREM WritesSurvive == Spec => []CompletedSurvives
<1>1. WInv /\ HInv => CompletedSurvives
  BY DEF HInv
<1> QED
  BY <1>1, History, PTL

-----------------------------------------------------------------------------
\* When no value is shared with its user, a step leaves the memory of a process as the disk is.
LEMMA MemoryPreserved ==
  ASSUME Aliased = {}
  PROVE  WInv /\ HInv /\ MemoryIsDisk /\ [Next]_vars => MemoryIsDisk'
<1> SUFFICES ASSUME WInv, HInv, MemoryIsDisk, [Next]_vars PROVE MemoryIsDisk'
  OBVIOUS
<1> USE DEF WInv, HInv, TypeOK, MemoryIsDisk, WritersWrite, Busy, Owned, arguments, history
<1>1. ASSUME NEW p \in Processes, InitSync(p) PROVE MemoryIsDisk'
  BY <1>1 DEF InitSync
<1>2. ASSUME NEW p \in Processes, NEW k \in Keys, NEW v \in Values, SetItemSync(p, k, v)
      PROVE  MemoryIsDisk'
  BY <1>2 DEF SetItemSync, CachedAtOnce
<1>3. ASSUME NEW p \in Processes, WriteTemporary(p) PROVE MemoryIsDisk'
  BY <1>3 DEF WriteTemporary
<1>4. ASSUME NEW p \in Processes, RenameTemporary(p) PROVE MemoryIsDisk'
  <2>1. file' = [file EXCEPT ![key[p]] = value[p]] /\ pc[p] = "written" /\ p \in Writer[key[p]]
    BY <1>4, RenamedValue DEF RenameTemporary
  <2>2. pc' = [pc EXCEPT ![p] = "renamed"] /\ UNCHANGED <<data, key>>
    BY <1>4 DEF RenameTemporary
  <2>3. ASSUME NEW q \in Processes, NEW k \in Keys, Owned(q, k), pc'[q] # "ended"
        PROVE  data[q][k] = Parsed(file'[k]) \/ (pc'[q] = "renamed" /\ key[q] = k)
    <3>1. data[q][k] = Parsed(file[k]) \/ (pc[q] = "renamed" /\ key[q] = k)
      BY <2>1, <2>2, <2>3
    <3>2. CASE k = key[p]
      <4>1. q = p
        BY <2>1, <2>3, <3>2, OneOwner
      <4> QED
        BY <2>2, <3>2, <4>1
    <3>3. CASE k # key[p]
      <4>1. file'[k] = file[k]
        BY <2>1, <3>3
      <4> QED
        BY <2>1, <2>2, <3>1, <3>3, <4>1
    <3> QED
      BY <3>2, <3>3
  <2> QED
    BY <2>2, <2>3
<1>5. ASSUME NEW p \in Processes, CacheItem(p) PROVE MemoryIsDisk'
  <2>1. Owned(p, key[p]) => value[p] = Parsed(file[key[p]])
    <3>1. Owned(p, key[p]) => file[key[p]] = value[p]
      BY <1>5 DEF CacheItem, RenamedIsThere
    <3>2. value[p] \in Values
      OBVIOUS
    <3>3. value[p] # Truncated
      BY <3>2, StorageAssumption DEF StorageAssumption
    <3> QED
      BY <3>1, <3>3 DEF Parsed
  <2>2. /\ pc[p] = "renamed" /\ pc' = [pc EXCEPT ![p] = "idle"]
        /\ data' = [data EXCEPT ![p][key[p]] = value[p]]
        /\ key' = key /\ file' = file
    BY <1>5 DEF CacheItem
  <2>3. ASSUME NEW q \in Processes, NEW k \in Keys, Owned(q, k), pc'[q] # "ended"
        PROVE  data'[q][k] = Parsed(file[k]) \/ (pc'[q] = "renamed" /\ key[q] = k)
    <3>1. pc[q] # "ended"
      BY <2>2, <2>3
    <3>2. data[q][k] = Parsed(file[k]) \/ (pc[q] = "renamed" /\ key[q] = k)
      BY <2>3, <3>1
    <3>3. CASE q # p
      BY <2>2, <3>2, <3>3
    <3>4. CASE q = p /\ k = key[p]
      BY <2>1, <2>2, <2>3, <3>4
    <3>5. CASE q = p /\ k # key[p]
      BY <2>2, <3>2, <3>5
    <3> QED
      BY <3>3, <3>4, <3>5
  <2> QED
    BY <2>2, <2>3
<1>6. ASSUME NEW p \in Processes, WriteFails(p) \/ Crash(p) PROVE MemoryIsDisk'
  BY <1>6 DEF WriteFails, Crash
<1>7. ASSUME NEW p \in Processes, NEW k \in Keys, RemoveItemSync(p, k) PROVE MemoryIsDisk'
  <2>1. Parsed(Absent) = Absent
    BY DEF Parsed, Absent, Truncated
  <2> QED
    BY <1>7, <2>1 DEF RemoveItemSync
<1>8. CASE UNCHANGED vars
  BY <1>8 DEF vars
<1> QED
  BY <1>1, <1>2, <1>3, <1>4, <1>5, <1>6, <1>7, <1>8 DEF Next

\* A failed write does not leave memory and disk apart: a running process outside setItemSync
\* reads what the next one will, as long as no user changes the objects it stored.
THEOREM MemoryIsDurable ==
  ASSUME Aliased = {}
  PROVE  Spec => []ReadsAreDurable
<1>1. Init => MemoryIsDisk
  BY DEF Init, MemoryIsDisk
<1>2. WInv /\ HInv /\ MemoryIsDisk /\ [Next]_vars => MemoryIsDisk'
  BY MemoryPreserved
<1>3. MemoryIsDisk => ReadsAreDurable
  BY DEF MemoryIsDisk, ReadsAreDurable
<1> QED
  BY <1>1, <1>2, <1>3, History, PTL DEF Spec

-----------------------------------------------------------------------------
(***************************************************************************)
(* Controller data.  Entries move between the file, the accessories read   *)
(* from it and not yet published, and the storages of the published ones.  *)
(* The invariant says of each accessory which of the three has its data:   *)
(* NotLoadedYet or Loaded; what a save writes is then what a start reads.  *)
(***************************************************************************)

\* An entry without data is NoEntry, and marking or changing an entry makes one with data.
LEMMA EntriesUpdate ==
  ASSUME NEW e \in Entries
  PROVE  /\ e # NoEntry => e.data \in 1..MaxData
         /\ \A p \in BOOLEAN : e # NoEntry => /\ [e EXCEPT !.purgeOnNextLoad = p] \in Entries \ {NoEntry}
                                              /\ [e EXCEPT !.purgeOnNextLoad = p].data = e.data
         /\ \A d \in 1..MaxData : /\ [e EXCEPT !.data = d] \in Entries \ {NoEntry}
                                  /\ [e EXCEPT !.data = d].data = d
<1>1. ASSUME NEW d \in 1..MaxData, NEW p \in BOOLEAN
      PROVE  Entry(d, p) \in Entries \ {NoEntry} /\ Entry(d, p).data = d
  <2>1. Entry(d, p).data = d /\ NoEntry.data = NotStored
    BY DEF Entry, NoEntry
  <2>2. d # NotStored
    BY ControllerStorageAssumption DEF NotStored
  <2>3. Entry(d, p) \in Entries
    BY DEF Entries
  <2> QED
    BY <2>1, <2>2, <2>3
<1>2. CASE e = NoEntry
  <2>1. ASSUME NEW d \in 1..MaxData
        PROVE  [e EXCEPT !.data = d] \in Entries \ {NoEntry} /\ [e EXCEPT !.data = d].data = d
    <3>1. PICK p \in BOOLEAN : p = FALSE
      OBVIOUS
    <3>2. e = Entry(NotStored, p)
      BY <1>2, <3>1 DEF NoEntry
    <3>3. [e EXCEPT !.data = d] = Entry(d, p)
      BY <3>2 DEF Entry
    <3> QED
      BY <1>1, <3>3
  <2> QED
    BY <1>2, <2>1
<1>3. CASE e # NoEntry
  <2>1. PICK d \in 1..MaxData, p \in BOOLEAN : e = Entry(d, p)
    BY <1>3 DEF Entries
  <2>2. ASSUME NEW q \in BOOLEAN
        PROVE  [e EXCEPT !.purgeOnNextLoad = q] = Entry(d, q)
    BY <2>1 DEF Entry
  <2>3. ASSUME NEW c \in 1..MaxData
        PROVE  [e EXCEPT !.data = c] = Entry(c, p)
    BY <2>1 DEF Entry
  <2>4. e.data = d
    BY <1>1, <2>1
  <2>5. \A q \in BOOLEAN : [e EXCEPT !.purgeOnNextLoad = q] \in Entries \ {NoEntry}
                           /\ [e EXCEPT !.purgeOnNextLoad = q].data = e.data
    BY <1>1, <2>2, <2>4
  <2>6. \A c \in 1..MaxData : [e EXCEPT !.data = c] \in Entries \ {NoEntry} /\ [e EXCEPT !.data = c].data = c
    BY <1>1, <2>3
  <2> QED
    BY <2>4, <2>5, <2>6
<1> QED
  BY <1>2, <1>3

\* Loading an entry drops it or keeps its data; that of a controller that is there is kept.
LEMMA AfterInitEntry ==
  ASSUME NEW a, NEW saved, Found(a, saved) \in Entries
  PROVE  /\ AfterInit(a, saved) \in Entries
         /\ AfterInit(a, saved) # NoEntry => Found(a, saved) # NoEntry /\ AfterInit(a, saved).data = Found(a, saved).data
         /\ Found(a, saved) # NoEntry /\ controllerState[a] # NotStored => AfterInit(a, saved) # NoEntry
<1> DEFINE e == Found(a, saved)
<1>1. NoEntry \in Entries
  BY DEF Entries
<1> HIDE DEF e
<1>2. /\ e \in Entries
      /\ e # NoEntry => /\ [e EXCEPT !.purgeOnNextLoad = FALSE] \in Entries \ {NoEntry}
                        /\ [e EXCEPT !.purgeOnNextLoad = FALSE].data = e.data
                        /\ [e EXCEPT !.purgeOnNextLoad = TRUE] \in Entries \ {NoEntry}
                        /\ [e EXCEPT !.purgeOnNextLoad = TRUE].data = e.data
  BY EntriesUpdate DEF e
<1>3. AfterInit(a, saved) =
        CASE e = NoEntry -> NoEntry
          [] e # NoEntry /\ controllerState[a] # NotStored -> [e EXCEPT !.purgeOnNextLoad = FALSE]
          [] e # NoEntry /\ controllerState[a] = NotStored /\ e.purgeOnNextLoad -> NoEntry
          [] OTHER -> [e EXCEPT !.purgeOnNextLoad = TRUE]
  BY DEF AfterInit, e
<1>4. CASE e = NoEntry
  <2>1. AfterInit(a, saved) = NoEntry
    BY <1>3, <1>4
  <2> QED
    BY <1>1, <1>4, <2>1 DEF e
<1>5. CASE e # NoEntry /\ controllerState[a] # NotStored
  <2>1. AfterInit(a, saved) = [e EXCEPT !.purgeOnNextLoad = FALSE]
    BY <1>3, <1>5
  <2> QED
    BY <1>2, <1>5, <2>1 DEF e
<1>6. CASE e # NoEntry /\ controllerState[a] = NotStored
  <2>1. AfterInit(a, saved) = NoEntry \/ AfterInit(a, saved) = [e EXCEPT !.purgeOnNextLoad = TRUE]
    BY <1>3, <1>6
  <2> QED
    BY <1>1, <1>2, <1>6, <2>1 DEF e
<1> QED
  BY <1>4, <1>5, <1>6

\* What is known of an accessory whose data was not loaded yet: its storage is empty, its controller
\* in the default state, and data kept for it is what the file has.
NotLoadedYet(a) ==
  /\ controllerData[a] = NoEntry /\ controllerState[a] \in {NotStored, Default}
  /\ a \notin sameObject /\ a \notin deleted
  /\ published /\ ~destroyed /\ restoredAccessories[a] # NoEntry => storageFile[a] = restoredAccessories[a]

\* The same of one whose data was loaded.
Loaded(a) ==
  /\ controllerState[a] # NotStored => controllerState[a] = RestoredData(controllerData[a])
  /\ a \in deleted => controllerData[a] = NoEntry
  /\ ~saveQueued /\ ~destroyed =>
       /\ controllerData[a] # NoEntry => storageFile[a].data = controllerData[a].data
       /\ a \in deleted /\ restoredAccessories[a] = NoEntry => storageFile[a] = NoEntry

\* A storage is initialized by the load or a later link; unless the load failed, of all accessories.
LinksLoaded ==
  /\ initialized \subseteq linked \cup {Bridge}
  /\ ~published => initialized = {}
  /\ published /\ ~linkedAgain => linked \cup {Bridge} \subseteq initialized

StorageIInv ==
  /\ ControllerStorageTypeOK
  /\ LinksLoaded
  /\ \A a \in KnownAccessories : IF a \in initialized THEN Loaded(a) ELSE NotLoadedYet(a)

\* The initial state, and that of each new process.
LEMMA StorageInitIInv == ControllerStorageInit => StorageIInv
<1> SUFFICES ASSUME ControllerStorageInit PROVE StorageIInv
  OBVIOUS
<1> USE ControllerStorageAssumption DEF links, ControllerStorageInit, FreshProcess
<1>1. NoEntries \in [KnownAccessories -> Entries] /\ \A a \in KnownAccessories : NoEntries[a] = NoEntry
  BY DEF NoEntries, Entries
<1>2. ControllerStorageTypeOK
  <2>1. /\ published \in BOOLEAN /\ saveQueued \in BOOLEAN /\ destroyed \in BOOLEAN
    OBVIOUS
  <2>2. controllerState \in [KnownAccessories -> 0..NotStored]
    BY DEF NotStored
  <2>3. /\ linked \subseteq BridgedAccessories /\ initialized \subseteq KnownAccessories /\ linkedAgain \in BOOLEAN /\ sameObject \subseteq KnownAccessories
        /\ deleted \subseteq KnownAccessories /\ everUsed \subseteq KnownAccessories /\ dropped \subseteq KnownAccessories
    OBVIOUS
  <2>4. starts \in 1..MaxStarts
    OBVIOUS
  <2>5. /\ storageFile \in [KnownAccessories -> Entries] /\ controllerData \in [KnownAccessories -> Entries]
        /\ restoredAccessories \in [KnownAccessories -> Entries]
    BY <1>1
  <2> QED
    BY <2>1, <2>2, <2>3, <2>4, <2>5 DEF ControllerStorageTypeOK
<1>3. ASSUME NEW a \in KnownAccessories
      PROVE  a \notin initialized /\ NotLoadedYet(a)
  BY <1>1 DEF NotLoadedYet
<1> QED
  BY <1>2, <1>3 DEF StorageIInv, LinksLoaded

\* A step that leaves the file, the load and the links alone, and what is kept of the accessories
\* but one, preserves the invariant if it does for that one.
LEMMA OneAccessory ==
  ASSUME StorageIInv, NEW a \in KnownAccessories,
         UNCHANGED <<storageFile, links, destroyed, starts, dropped>>,
         everUsed' \subseteq everUsed,
         saveQueued' \in BOOLEAN, saveQueued => saveQueued',
         controllerData' \in [KnownAccessories -> Entries],
         restoredAccessories' \in [KnownAccessories -> Entries],
         controllerState' \in [KnownAccessories -> 0..NotStored],
         sameObject' \subseteq KnownAccessories, deleted' \subseteq KnownAccessories,
         \A b \in KnownAccessories \ {a} :
            /\ controllerData'[b] = controllerData[b] /\ controllerState'[b] = controllerState[b]
            /\ restoredAccessories'[b] = restoredAccessories[b]
            /\ b \in sameObject' <=> b \in sameObject
            /\ b \in deleted' <=> b \in deleted,
         a \in initialized => Loaded(a)',
         a \notin initialized => NotLoadedYet(a)'
  PROVE  StorageIInv'
<1>1. ControllerStorageTypeOK' /\ LinksLoaded'
  BY DEF StorageIInv, ControllerStorageTypeOK, LinksLoaded, links
<1>2. ASSUME NEW b \in KnownAccessories
      PROVE  /\ b \in initialized' <=> b \in initialized
             /\ b \in initialized => Loaded(b)'
             /\ b \notin initialized => NotLoadedYet(b)'
  <2>1. b \in initialized' <=> b \in initialized
    BY DEF links
  <2>2. CASE b = a
    BY <2>1, <2>2
  <2>3. CASE b # a
    <3>1. /\ controllerData'[b] = controllerData[b] /\ controllerState'[b] = controllerState[b]
          /\ restoredAccessories'[b] = restoredAccessories[b]
          /\ b \in sameObject' <=> b \in sameObject
          /\ b \in deleted' <=> b \in deleted
      BY <2>3
    <3>2. CASE b \in initialized
      <4>1. Loaded(b)
        BY <3>2 DEF StorageIInv
      <4>2. saveQueued \in BOOLEAN
        BY DEF StorageIInv, ControllerStorageTypeOK
      <4> QED
        BY <2>1, <3>1, <3>2, <4>1, <4>2 DEF Loaded, RestoredData
    <3>3. CASE b \notin initialized
      <4>1. NotLoadedYet(b)
        BY <3>3 DEF StorageIInv
      <4> QED
        BY <2>1, <3>1, <3>3, <4>1 DEF NotLoadedYet, links
    <3> QED
      BY <3>2, <3>3
  <2> QED
    BY <2>2, <2>3
<1> QED
  BY <1>1, <1>2 DEF StorageIInv

\* configureController of an accessory that is loaded restores its controller.
LEMMA ConfigureIInv ==
  ASSUME StorageIInv, NEW a \in KnownAccessories, ConfigureController(a)
  PROVE  StorageIInv'
<1> USE ControllerStorageAssumption DEF links
<1>1. /\ controllerData \in [KnownAccessories -> Entries] /\ restoredAccessories \in [KnownAccessories -> Entries]
      /\ controllerState \in [KnownAccessories -> 0..NotStored] /\ saveQueued \in BOOLEAN
      /\ sameObject \subseteq KnownAccessories /\ deleted \subseteq KnownAccessories
      /\ controllerData[a] \in Entries /\ storageFile \in [KnownAccessories -> Entries]
  BY DEF StorageIInv, ControllerStorageTypeOK
<1>2. UNCHANGED <<storageFile, links, saveQueued, destroyed, starts, everUsed, dropped>>
  BY DEF ConfigureController
<1>3. CASE a \in initialized /\ controllerData[a] # NoEntry
  <2> DEFINE e == [controllerData[a] EXCEPT !.purgeOnNextLoad = FALSE]
  <2>1. e \in Entries /\ e # NoEntry /\ e.data = controllerData[a].data /\ e.data \in 1..MaxData
    BY <1>1, <1>3, EntriesUpdate
  <2>2. /\ controllerState' = [controllerState EXCEPT ![a] = controllerData[a].data]
        /\ controllerData' = [controllerData EXCEPT ![a] = e]
        /\ restoredAccessories' = IF a \in sameObject THEN [restoredAccessories EXCEPT ![a] = e]
                                  ELSE restoredAccessories
        /\ deleted' = deleted \ {a} /\ sameObject' = sameObject
    BY <1>3 DEF ConfigureController, Put, RestoredData
  <2> HIDE DEF e
  <2>3. controllerState'[a] = e.data /\ controllerData'[a] = e /\ a \notin deleted'
    BY <1>1, <2>1, <2>2
  <2>4. Loaded(a)
    BY <1>3 DEF StorageIInv
  <2>5. Loaded(a)'
    <3>1. controllerState'[a] = RestoredData(controllerData'[a])
      BY <2>1, <2>3 DEF RestoredData
    <3>2. ~saveQueued' /\ ~destroyed' => storageFile'[a].data = controllerData'[a].data
      BY <1>2, <1>3, <2>1, <2>3, <2>4 DEF Loaded
    <3> QED
      BY <2>3, <3>1, <3>2 DEF Loaded, RestoredData
  <2>6. controllerState' \in [KnownAccessories -> 0..NotStored]
    BY <1>1, <2>1, <2>2 DEF NotStored
  <2>7. controllerData' \in [KnownAccessories -> Entries] /\ restoredAccessories' \in [KnownAccessories -> Entries]
    BY <1>1, <2>1, <2>2
  <2>8. \A b \in KnownAccessories \ {a} :
            /\ controllerData'[b] = controllerData[b] /\ controllerState'[b] = controllerState[b]
            /\ restoredAccessories'[b] = restoredAccessories[b]
            /\ b \in sameObject' <=> b \in sameObject
            /\ b \in deleted' <=> b \in deleted
    BY <1>1, <2>2
  <2> QED
    BY <1>1, <1>2, <1>3, <2>2, <2>5, <2>6, <2>7, <2>8, OneAccessory
<1>4. CASE ~(a \in initialized /\ controllerData[a] # NoEntry)
  <2>0. a \notin initialized => NotLoadedYet(a)
    BY DEF StorageIInv
  <2>1. controllerData[a] = NoEntry
    BY <1>4, <2>0 DEF NotLoadedYet
  <2>2. /\ controllerState' = [controllerState EXCEPT ![a] = Default]
        /\ UNCHANGED <<controllerData, restoredAccessories, sameObject, deleted>>
    BY <1>4, <2>1 DEF ConfigureController, RestoredData
  <2>3. controllerState' \in [KnownAccessories -> 0..NotStored] /\ controllerState'[a] = Default
    BY <1>1, <2>2 DEF NotStored, Default
  <2>4. a \in initialized => Loaded(a)'
    BY <1>2, <2>1, <2>2, <2>3 DEF Loaded, RestoredData, StorageIInv
  <2>5. a \notin initialized => NotLoadedYet(a)'
    BY <1>2, <2>0, <2>2, <2>3 DEF NotLoadedYet
  <2>6. \A b \in KnownAccessories \ {a} : controllerState'[b] = controllerState[b]
    BY <1>1, <2>2
  <2> QED
    BY <1>1, <1>2, <2>2, <2>3, <2>4, <2>5, <2>6, OneAccessory
<1> QED
  BY <1>3, <1>4

\* removeController of an accessory that is loaded deletes its data and has that saved.
LEMMA UntrackIInv ==
  ASSUME StorageIInv, NEW a \in KnownAccessories, UntrackController(a)
  PROVE  StorageIInv'
<1> USE ControllerStorageAssumption DEF links
<1>1. /\ controllerData \in [KnownAccessories -> Entries] /\ restoredAccessories \in [KnownAccessories -> Entries]
      /\ controllerState \in [KnownAccessories -> 0..NotStored] /\ saveQueued \in BOOLEAN
      /\ sameObject \subseteq KnownAccessories /\ deleted \subseteq KnownAccessories
      /\ NoEntry \in Entries
  BY DEF StorageIInv, ControllerStorageTypeOK, Entries
<1>2. /\ UNCHANGED <<storageFile, links, destroyed, starts, dropped, restoredAccessories>>
      /\ everUsed' \subseteq everUsed
      /\ controllerState' = [controllerState EXCEPT ![a] = NotStored]
      /\ controllerData' = [controllerData EXCEPT ![a] = NoEntry]
      /\ sameObject' = sameObject \ {a}
      /\ deleted' = IF a \in initialized THEN deleted \cup {a} ELSE deleted
      /\ saveQueued' = (saveQueued \/ a \in initialized)
  BY DEF UntrackController, Delete, EnqueueSave
<1>3. /\ controllerState' \in [KnownAccessories -> 0..NotStored] /\ controllerData' \in [KnownAccessories -> Entries]
      /\ controllerState'[a] = NotStored /\ controllerData'[a] = NoEntry
  BY <1>1, <1>2 DEF NotStored
<1>4. a \in initialized => Loaded(a)'
  BY <1>2, <1>3 DEF Loaded
<1>5. a \notin initialized => NotLoadedYet(a)'
  BY <1>2, <1>3 DEF NotLoadedYet, StorageIInv
<1>6. \A b \in KnownAccessories \ {a} :
            /\ controllerData'[b] = controllerData[b] /\ controllerState'[b] = controllerState[b]
            /\ restoredAccessories'[b] = restoredAccessories[b]
            /\ b \in sameObject' <=> b \in sameObject
            /\ b \in deleted' <=> b \in deleted
  BY <1>1, <1>2
<1>7. saveQueued' \in BOOLEAN /\ (saveQueued => saveQueued')
  BY <1>2
<1> QED
  BY <1>1, <1>2, <1>3, <1>4, <1>5, <1>6, <1>7, OneAccessory

\* A change of state that is told changes the data, or deletes it, and has that saved.
LEMMA StateChangeIInv ==
  ASSUME StorageIInv, EarlyChanges = FALSE,
         NEW a \in KnownAccessories, NEW d \in 0..MaxData, HandleStateChange(a, d)
  PROVE  StorageIInv'
<1> USE ControllerStorageAssumption DEF links
<1>1. /\ controllerData \in [KnownAccessories -> Entries] /\ restoredAccessories \in [KnownAccessories -> Entries]
      /\ controllerState \in [KnownAccessories -> 0..NotStored] /\ saveQueued \in BOOLEAN
      /\ sameObject \subseteq KnownAccessories /\ deleted \subseteq KnownAccessories
      /\ controllerData[a] \in Entries /\ NoEntry \in Entries
  BY DEF StorageIInv, ControllerStorageTypeOK, Entries
<1>2. /\ UNCHANGED <<storageFile, links, destroyed, starts, everUsed, dropped>>
      /\ controllerState' = [controllerState EXCEPT ![a] = d]
      /\ a \in initialized /\ saveQueued' = (saveQueued \/ a \in initialized)
      /\ StateTold(a, d)
  BY DEF HandleStateChange, EnqueueSave
<1>3. controllerState' \in [KnownAccessories -> 0..NotStored] /\ controllerState'[a] = d
  BY <1>1, <1>2 DEF NotStored
<1>4. CASE d = Default
  <2>1. /\ controllerData' = [controllerData EXCEPT ![a] = NoEntry]
        /\ sameObject' = sameObject \ {a} /\ deleted' = deleted \cup {a}
        /\ UNCHANGED restoredAccessories
    BY <1>2, <1>4 DEF StateTold, Delete
  <2>2. controllerData' \in [KnownAccessories -> Entries] /\ controllerData'[a] = NoEntry
    BY <1>1, <2>1
  <2>3. Loaded(a)'
    BY <1>2, <1>3, <1>4, <2>2 DEF Loaded, RestoredData
  <2>4. \A b \in KnownAccessories \ {a} :
            /\ controllerData'[b] = controllerData[b] /\ controllerState'[b] = controllerState[b]
            /\ restoredAccessories'[b] = restoredAccessories[b]
            /\ b \in sameObject' <=> b \in sameObject
            /\ b \in deleted' <=> b \in deleted
    BY <1>1, <1>2, <2>1
  <2> QED
    BY <1>1, <1>2, <1>3, <2>1, <2>2, <2>3, <2>4, OneAccessory
<1>5. CASE d # Default
  <2> DEFINE e == [controllerData[a] EXCEPT !.data = d]
  <2>1. d \in 1..MaxData
    BY <1>5 DEF Default
  <2>2. e \in Entries /\ e # NoEntry /\ e.data = d
    BY <1>1, <2>1, EntriesUpdate
  <2>3. /\ controllerData' = [controllerData EXCEPT ![a] = e]
        /\ restoredAccessories' = IF a \in sameObject THEN [restoredAccessories EXCEPT ![a] = e]
                                  ELSE restoredAccessories
        /\ deleted' = deleted \ {a} /\ sameObject' = sameObject
    BY <1>2, <1>5 DEF StateTold, Put
  <2> HIDE DEF e
  <2>4. /\ controllerData' \in [KnownAccessories -> Entries] /\ controllerData'[a] = e
        /\ restoredAccessories' \in [KnownAccessories -> Entries] /\ a \notin deleted'
    BY <1>1, <2>2, <2>3
  <2>5. Loaded(a)'
    BY <1>2, <1>3, <2>2, <2>4 DEF Loaded, RestoredData
  <2>6. \A b \in KnownAccessories \ {a} :
            /\ controllerData'[b] = controllerData[b] /\ controllerState'[b] = controllerState[b]
            /\ restoredAccessories'[b] = restoredAccessories[b]
            /\ b \in sameObject' <=> b \in sameObject
            /\ b \in deleted' <=> b \in deleted
    BY <1>1, <1>2, <2>3
  <2> QED
    BY <1>1, <1>2, <1>3, <2>3, <2>4, <2>5, <2>6, OneAccessory
<1> QED
  BY <1>4, <1>5

\* The types, for use in the steps below.
LEMMA StorageTypes ==
  ASSUME StorageIInv
  PROVE  /\ storageFile \in [KnownAccessories -> Entries]
         /\ controllerData \in [KnownAccessories -> Entries] /\ restoredAccessories \in [KnownAccessories -> Entries]
         /\ controllerState \in [KnownAccessories -> 0..NotStored]
         /\ saveQueued \in BOOLEAN /\ destroyed \in BOOLEAN /\ published \in BOOLEAN
         /\ sameObject \subseteq KnownAccessories /\ deleted \subseteq KnownAccessories
         /\ linked \subseteq BridgedAccessories /\ starts \in 1..MaxStarts
         /\ everUsed \subseteq KnownAccessories /\ dropped \subseteq KnownAccessories
         /\ LinksLoaded /\ linkedAgain \in BOOLEAN /\ initialized \subseteq KnownAccessories
         /\ NoEntry \in Entries /\ Bridge \in KnownAccessories /\ BridgedAccessories \subseteq KnownAccessories
  BY DEF StorageIInv, ControllerStorageTypeOK, Entries, KnownAccessories

\* What is saved for an accessory agrees with its controller and the file once it is loaded.
LEMMA InitStoragesLoads ==
  ASSUME StorageIInv, NEW as \in SUBSET KnownAccessories, NEW saved \in [KnownAccessories -> Entries],
         InitStorages(as, saved), \A a \in as : a \notin initialized, storageFile' = storageFile
  PROVE  /\ controllerData' \in [KnownAccessories -> Entries]
         /\ controllerState' \in [KnownAccessories -> 0..NotStored]
         /\ saveQueued' \in BOOLEAN /\ (saveQueued => saveQueued')
         /\ deleted' \subseteq KnownAccessories /\ dropped' \subseteq KnownAccessories
         /\ \A b \in as : (~destroyed' /\ saved[b] # NoEntry => storageFile[b].data = saved[b].data) => Loaded(b)'
         /\ \A b \in KnownAccessories \ as :
              /\ controllerData'[b] = controllerData[b] /\ controllerState'[b] = controllerState[b]
              /\ b \in deleted' <=> b \in deleted
<1> USE ControllerStorageAssumption DEF links
<1>1. /\ controllerData \in [KnownAccessories -> Entries]
      /\ controllerState \in [KnownAccessories -> 0..NotStored]
      /\ saveQueued \in BOOLEAN /\ NoEntry \in Entries
      /\ deleted \subseteq KnownAccessories /\ dropped \subseteq KnownAccessories
  BY StorageTypes
<1>2. /\ controllerData' = [a \in KnownAccessories |-> IF a \in as THEN AfterInit(a, saved) ELSE controllerData[a]]
      /\ controllerState' = [a \in KnownAccessories |->
           IF a \in as /\ controllerState[a] # NotStored /\ Found(a, saved) # NoEntry
           THEN RestoredData(AfterInit(a, saved)) ELSE controllerState[a]]
      /\ saveQueued' = (saveQueued \/ DroppedAt(as, saved) # {})
      /\ dropped' = dropped \cup DroppedAt(as, saved)
      /\ deleted' = deleted \cup DroppedAt(as, saved)
  BY DEF InitStorages
<1>3. DroppedAt(as, saved) \subseteq as
  BY DEF DroppedAt
<1>4. ASSUME NEW b \in as
      PROVE  /\ NotLoadedYet(b) /\ Found(b, saved) = saved[b]
             /\ AfterInit(b, saved) \in Entries
             /\ AfterInit(b, saved) # NoEntry => saved[b] # NoEntry /\ AfterInit(b, saved).data = saved[b].data
             /\ saved[b] # NoEntry /\ controllerState[b] # NotStored => AfterInit(b, saved) # NoEntry
  <2>1. NotLoadedYet(b)
    BY DEF StorageIInv
  <2>2. Found(b, saved) = saved[b]
    BY <2>1 DEF Found, NotLoadedYet
  <2>3. Found(b, saved) \in Entries
    BY <2>2
  <2> QED
    BY <2>1, <2>2, <2>3, AfterInitEntry
<1>5. controllerData' \in [KnownAccessories -> Entries]
  BY <1>1, <1>2, <1>4
<1>6. ASSUME NEW b \in as, controllerState[b] # NotStored, saved[b] # NoEntry
      PROVE  RestoredData(AfterInit(b, saved)) \in 0..NotStored
  <2>1. AfterInit(b, saved) \in Entries /\ AfterInit(b, saved) # NoEntry
    BY <1>4, <1>6
  <2>2. AfterInit(b, saved).data \in 1..MaxData
    BY <2>1, EntriesUpdate
  <2> QED
    BY <2>1, <2>2 DEF RestoredData, NotStored
<1>7. controllerState' \in [KnownAccessories -> 0..NotStored]
  <2>1. ASSUME NEW b \in KnownAccessories
        PROVE  (IF b \in as /\ controllerState[b] # NotStored /\ Found(b, saved) # NoEntry
                THEN RestoredData(AfterInit(b, saved)) ELSE controllerState[b]) \in 0..NotStored
    BY <1>1, <1>4, <1>6
  <2> QED
    BY <1>2, <2>1
<1>8. ASSUME NEW b \in as, ~destroyed' /\ saved[b] # NoEntry => storageFile[b].data = saved[b].data
      PROVE  Loaded(b)'
  <2>1. /\ controllerData'[b] = AfterInit(b, saved)
        /\ controllerState'[b] = IF controllerState[b] # NotStored /\ saved[b] # NoEntry
                                 THEN RestoredData(AfterInit(b, saved)) ELSE controllerState[b]
    BY <1>2, <1>4
  <2>2. controllerState[b] \in {NotStored, Default} /\ b \notin deleted
    BY <1>4 DEF NotLoadedYet
  <2>3. controllerState'[b] # NotStored => controllerState'[b] = RestoredData(controllerData'[b])
    <3>1. CASE saved[b] # NoEntry
      BY <2>1, <3>1
    <3>2. CASE saved[b] = NoEntry
      <4>1. controllerData'[b] = NoEntry
        BY <1>4, <2>1, <3>2
      <4> QED
        BY <2>1, <2>2, <3>2, <4>1 DEF RestoredData
    <3> QED
      BY <3>1, <3>2
  <2>4. b \in deleted' => b \in DroppedAt(as, saved)
    BY <1>2, <2>2
  <2>5. b \in deleted' => controllerData'[b] = NoEntry /\ saveQueued'
    BY <1>2, <2>1, <2>4 DEF DroppedAt
  <2>6. ~destroyed' /\ controllerData'[b] # NoEntry => storageFile'[b].data = controllerData'[b].data
    BY <1>4, <1>8, <2>1
  <2> QED
    BY <2>3, <2>5, <2>6 DEF Loaded, RestoredData
<1>9. ASSUME NEW b \in KnownAccessories \ as
      PROVE  /\ controllerData'[b] = controllerData[b] /\ controllerState'[b] = controllerState[b]
             /\ b \in deleted' <=> b \in deleted
  BY <1>2, <1>3
<1> QED
  BY <1>1, <1>2, <1>3, <1>5, <1>7, <1>8, <1>9

\* The file is loaded for the accessories that are there; data of others is kept as the file has it.
LEMMA LoadIInv ==
  ASSUME StorageIInv, Load
  PROVE  StorageIInv'
<1> USE ControllerStorageAssumption DEF links
<1>0. PICK loaded \in LoadedAccessories : initialized' = loaded \cup {Bridge} /\ InitStorages(loaded \cup {Bridge}, storageFile)
  BY DEF Load
<1>l. loaded \subseteq linked /\ (~linkedAgain => loaded = linked) /\ linked \subseteq BridgedAccessories
  BY <1>0, StorageTypes DEF LoadedAccessories
<1> DEFINE as == loaded \cup {Bridge}
<1>1. /\ published = FALSE /\ published' = TRUE /\ InitStorages(as, storageFile)
      /\ restoredAccessories' = [a \in KnownAccessories |->
           IF linked = {} /\ a # Bridge THEN storageFile[a] ELSE NoEntry]
      /\ UNCHANGED <<storageFile, linked, linkedAgain, sameObject, destroyed, starts, everUsed>>
  <2>1. published \in BOOLEAN
    BY StorageTypes
  <2> QED
    BY <1>0, <2>1 DEF Load
<1>2. as \in SUBSET KnownAccessories /\ \A a \in KnownAccessories : a \notin initialized /\ (a \in initialized' <=> a \in as)
  BY <1>0, <1>1, <1>l, StorageTypes DEF LinksLoaded
<1>a. LinksLoaded' /\ initialized' \subseteq KnownAccessories
  BY <1>0, <1>1, <1>2, <1>l DEF LinksLoaded
<1> HIDE DEF as
<1>3. /\ controllerData' \in [KnownAccessories -> Entries]
      /\ controllerState' \in [KnownAccessories -> 0..NotStored]
      /\ saveQueued' \in BOOLEAN
      /\ deleted' \subseteq KnownAccessories /\ dropped' \subseteq KnownAccessories
      /\ \A b \in as : Loaded(b)'
      /\ \A b \in KnownAccessories \ as :
              /\ controllerData'[b] = controllerData[b] /\ controllerState'[b] = controllerState[b]
              /\ b \in deleted' <=> b \in deleted
  <2>1. PICK saved \in [KnownAccessories -> Entries] : saved = storageFile
    BY StorageTypes
  <2>2. InitStorages(as, saved) /\ storageFile' = storageFile /\ \A a \in as : a \notin initialized
    BY <1>1, <1>2, <2>1
  <2> QED
    BY <1>2, <2>1, <2>2, InitStoragesLoads
<1>4. restoredAccessories' \in [KnownAccessories -> Entries]
  BY <1>1, StorageTypes
<1>5. ControllerStorageTypeOK'
  BY <1>1, <1>a, <1>3, <1>4, StorageTypes DEF ControllerStorageTypeOK
<1>6. ASSUME NEW b \in KnownAccessories \ as
      PROVE  NotLoadedYet(b)'
  <2>1. NotLoadedYet(b)
    BY <1>2 DEF StorageIInv
  <2>2. restoredAccessories'[b] # NoEntry => storageFile'[b] = restoredAccessories'[b]
    BY <1>1
  <2> QED
    BY <1>1, <1>3, <2>1, <2>2 DEF NotLoadedYet
<1> QED
  BY <1>2, <1>a, <1>3, <1>5, <1>6 DEF StorageIInv

\* An accessory that is linked after the load gets what was kept for it.
LEMMA LinkIInv ==
  ASSUME StorageIInv, NEW a \in BridgedAccessories, LinkAccessory(a)
  PROVE  StorageIInv'
<1> USE ControllerStorageAssumption DEF links
<1>1. /\ linked' = linked \cup {a} /\ a \in KnownAccessories /\ a # Bridge
      /\ linkedAgain' = (linkedAgain \/ (a \in linked /\ ~published))
      /\ UNCHANGED <<storageFile, published, destroyed, starts, everUsed>>
  BY StorageTypes DEF LinkAccessory
<1>2. linkedAgain' \in BOOLEAN /\ linked' \subseteq BridgedAccessories
  BY <1>1, StorageTypes
<1>3. CASE published /\ a \notin initialized
  <2>0. initialized' = initialized \cup {a}
    BY <1>3 DEF LinkAccessory
  <2>1. \A b \in KnownAccessories : b \in initialized' <=> b \in initialized \/ b = a
    BY <2>0
  <2>a. LinksLoaded' /\ initialized' \subseteq KnownAccessories
    BY <1>1, <1>3, <2>0, StorageTypes DEF LinksLoaded
  <2>2. InitStorages({a}, restoredAccessories)
    BY <1>3 DEF LinkAccessory
  <2> DEFINE kept == AfterInit(a, restoredAccessories)
             uses == restoredAccessories[a] # NoEntry /\ kept # NoEntry
  <2>3. /\ sameObject' = IF uses THEN sameObject \cup {a} ELSE sameObject
        /\ restoredAccessories' = IF uses THEN [restoredAccessories EXCEPT ![a] = kept] ELSE restoredAccessories
    BY <1>3 DEF LinkAccessory
  <2>4. NotLoadedYet(a)
    BY <1>1, <1>3 DEF StorageIInv
  <2>5. kept \in Entries
    <3>1. Found(a, restoredAccessories) = restoredAccessories[a]
      BY <2>4 DEF Found, NotLoadedYet
    <3>2. Found(a, restoredAccessories) \in Entries
      BY <1>1, <3>1, StorageTypes
    <3> QED
      BY <3>2, AfterInitEntry
  <2> HIDE DEF kept
  <2>6. /\ controllerData' \in [KnownAccessories -> Entries]
        /\ controllerState' \in [KnownAccessories -> 0..NotStored]
        /\ saveQueued' \in BOOLEAN /\ (saveQueued => saveQueued')
        /\ deleted' \subseteq KnownAccessories /\ dropped' \subseteq KnownAccessories
        /\ Loaded(a)'
        /\ \A b \in KnownAccessories \ {a} :
              /\ controllerData'[b] = controllerData[b] /\ controllerState'[b] = controllerState[b]
              /\ b \in deleted' <=> b \in deleted
    <3>1. PICK saved \in [KnownAccessories -> Entries] : saved = restoredAccessories
      BY StorageTypes
    <3>2. InitStorages({a}, saved) /\ storageFile' = storageFile /\ \A b \in {a} : b \notin initialized
      BY <1>1, <1>3, <2>2, <3>1
    <3>3. ~destroyed' /\ saved[a] # NoEntry => storageFile[a].data = saved[a].data
      BY <1>1, <1>3, <2>4, <3>1 DEF NotLoadedYet
    <3>4. {a} \in SUBSET KnownAccessories
      BY <1>1
    <3>5. /\ controllerData' \in [KnownAccessories -> Entries]
          /\ controllerState' \in [KnownAccessories -> 0..NotStored]
          /\ saveQueued' \in BOOLEAN /\ (saveQueued => saveQueued')
          /\ deleted' \subseteq KnownAccessories /\ dropped' \subseteq KnownAccessories
          /\ \A b \in {a} : (~destroyed' /\ saved[b] # NoEntry => storageFile[b].data = saved[b].data) => Loaded(b)'
          /\ \A b \in KnownAccessories \ {a} :
              /\ controllerData'[b] = controllerData[b] /\ controllerState'[b] = controllerState[b]
              /\ b \in deleted' <=> b \in deleted
      BY <3>2, <3>4, InitStoragesLoads
    <3>6. Loaded(a)'
      BY <3>3, <3>5
    <3> QED
      BY <3>5, <3>6
  <2>7. /\ restoredAccessories' \in [KnownAccessories -> Entries] /\ sameObject' \subseteq KnownAccessories
        /\ \A b \in KnownAccessories \ {a} : /\ restoredAccessories'[b] = restoredAccessories[b]
                                             /\ b \in sameObject' <=> b \in sameObject
    BY <1>1, <2>3, <2>5, StorageTypes
  <2>8. ControllerStorageTypeOK'
    <3>1. linked' \subseteq BridgedAccessories
      BY <1>1, StorageTypes
    <3> QED
      BY <1>1, <1>2, <2>a, <2>6, <2>7, <3>1, StorageTypes DEF ControllerStorageTypeOK
  <2>9. ASSUME NEW b \in KnownAccessories \ {a}
        PROVE  /\ b \in initialized => Loaded(b)'
               /\ b \notin initialized => NotLoadedYet(b)'
    <3>1. /\ controllerData'[b] = controllerData[b] /\ controllerState'[b] = controllerState[b]
          /\ restoredAccessories'[b] = restoredAccessories[b]
          /\ b \in sameObject' <=> b \in sameObject
          /\ b \in deleted' <=> b \in deleted
          /\ UNCHANGED <<storageFile, published, destroyed>>
      BY <1>1, <2>6, <2>7
    <3>2. saveQueued => saveQueued'
      BY <2>6
    <3>3. CASE b \in initialized
      <4>1. Loaded(b)
        BY <3>3 DEF StorageIInv
      <4> QED
        BY <3>1, <3>2, <3>3, <4>1 DEF Loaded, RestoredData
    <3>4. CASE b \notin initialized
      <4>1. NotLoadedYet(b)
        BY <3>4 DEF StorageIInv
      <4> QED
        BY <3>1, <3>4, <4>1 DEF NotLoadedYet
    <3> QED
      BY <3>3, <3>4
  <2> QED
    BY <2>1, <2>a, <2>6, <2>8, <2>9 DEF StorageIInv
<1>4. CASE ~published \/ a \in initialized
  <2>1. UNCHANGED <<initialized, controllerData, controllerState, saveQueued, dropped, deleted, sameObject,
                    restoredAccessories>>
    BY <1>4 DEF LinkAccessory
  <2>2. LinksLoaded'
    BY <1>1, <1>4, <2>1, StorageTypes DEF LinksLoaded
  <2>3. ControllerStorageTypeOK'
    BY <1>1, <1>2, <2>1, StorageTypes DEF ControllerStorageTypeOK
  <2>4. ASSUME NEW b \in KnownAccessories
        PROVE  IF b \in initialized' THEN Loaded(b)' ELSE NotLoadedYet(b)'
    <3>1. IF b \in initialized THEN Loaded(b) ELSE NotLoadedYet(b)
      BY DEF StorageIInv
    <3> QED
      BY <1>1, <2>1, <3>1 DEF Loaded, NotLoadedYet, RestoredData
  <2> QED
    BY <2>2, <2>3, <2>4 DEF StorageIInv
<1> QED
  BY <1>3, <1>4

\* The controllers that are there start over, and their data goes.
LEMMA UnpairedIInv ==
  ASSUME StorageIInv, Unpaired
  PROVE  StorageIInv'
<1> USE ControllerStorageAssumption DEF links
<1> DEFINE gone == {a \in linked \cup {Bridge} : controllerState[a] # NotStored}
<1>1. /\ published /\ ~linkedAgain
      /\ controllerState' = [a \in KnownAccessories |-> IF a \in gone THEN Default ELSE controllerState[a]]
      /\ controllerData' = [a \in KnownAccessories |-> IF a \in gone THEN NoEntry ELSE controllerData[a]]
      /\ sameObject' = sameObject \ gone
      /\ deleted' = deleted \cup gone
      /\ saveQueued' = (saveQueued \/ gone # {})
      /\ UNCHANGED <<storageFile, links, restoredAccessories, destroyed, starts, everUsed, dropped>>
  BY DEF Unpaired
<1>2. gone \subseteq KnownAccessories /\ \A a \in gone : a \in initialized
  BY <1>1, StorageTypes DEF LinksLoaded
<1> HIDE DEF gone
<1>3. controllerState' \in [KnownAccessories -> 0..NotStored] /\ controllerData' \in [KnownAccessories -> Entries]
  BY <1>1, StorageTypes DEF Default, NotStored
<1>4. ControllerStorageTypeOK'
  BY <1>1, <1>2, <1>3, StorageTypes DEF ControllerStorageTypeOK
<1>5. ASSUME NEW a \in KnownAccessories
      PROVE  /\ a \in initialized' <=> a \in initialized
             /\ a \in initialized => Loaded(a)'
             /\ a \notin initialized => NotLoadedYet(a)'
  <2>1. a \in initialized' <=> a \in initialized
    BY <1>1
  <2>2. CASE a \in gone
    <3>1. controllerState'[a] = Default /\ controllerData'[a] = NoEntry /\ saveQueued'
      BY <1>1, <2>2
    <3> QED
      BY <1>2, <2>1, <2>2, <3>1 DEF Loaded, RestoredData
  <2>3. CASE a \notin gone
    <3>1. /\ controllerState'[a] = controllerState[a] /\ controllerData'[a] = controllerData[a]
          /\ a \in deleted' <=> a \in deleted
          /\ a \in sameObject' <=> a \in sameObject
          /\ UNCHANGED <<storageFile, restoredAccessories, destroyed, published>>
          /\ saveQueued => saveQueued'
      BY <1>1, <2>3
    <3>2. a \in initialized => Loaded(a)'
      <4> SUFFICES ASSUME a \in initialized PROVE Loaded(a)'
        OBVIOUS
      <4>1. Loaded(a)
        BY DEF StorageIInv
      <4> QED
        BY <3>1, <4>1 DEF Loaded, RestoredData
    <3>3. a \notin initialized => NotLoadedYet(a)'
      <4> SUFFICES ASSUME a \notin initialized PROVE NotLoadedYet(a)'
        OBVIOUS
      <4>1. NotLoadedYet(a)
        BY DEF StorageIInv
      <4> QED
        BY <3>1, <4>1 DEF NotLoadedYet
    <3> QED
      BY <2>1, <3>2, <3>3
  <2> QED
    BY <2>2, <2>3
<1> QED
  BY <1>1, <1>4, <1>5, StorageTypes DEF StorageIInv, LinksLoaded

\* A save writes the data in memory, and what is kept for accessories that are not there.
LEMMA SaveIInv ==
  ASSUME StorageIInv, Save
  PROVE  StorageIInv'
<1> USE ControllerStorageAssumption DEF links
<1>1. /\ saveQueued' = FALSE
      /\ storageFile' = [a \in KnownAccessories |-> Written(a)]
      /\ restoredAccessories' = IF KeepsRestored THEN [a \in KnownAccessories |-> Written(a)] ELSE restoredAccessories
      /\ sameObject' = IF KeepsRestored
           THEN sameObject \cup {a \in linked \cup {Bridge} : controllerData[a] # NoEntry} ELSE sameObject
      /\ UNCHANGED <<links, controllerData, controllerState, destroyed, starts, deleted, everUsed, dropped>>
  BY DEF Save
<1>2. \A a \in KnownAccessories : Written(a) \in Entries
  BY StorageTypes DEF Written
<1>3. storageFile' \in [KnownAccessories -> Entries] /\ restoredAccessories' \in [KnownAccessories -> Entries]
  BY <1>1, <1>2, StorageTypes
<1>4. sameObject' \subseteq KnownAccessories
  BY <1>1, StorageTypes
<1>5. ControllerStorageTypeOK'
  BY <1>1, <1>3, <1>4, StorageTypes DEF ControllerStorageTypeOK
<1>6. ASSUME NEW a \in KnownAccessories
      PROVE  /\ storageFile'[a] = Written(a)
             /\ restoredAccessories'[a] = IF KeepsRestored THEN Written(a) ELSE restoredAccessories[a]
             /\ ~KeepsRestored => restoredAccessories[a] = NoEntry
             /\ controllerData[a] = NoEntry => Written(a) = restoredAccessories[a]
  BY <1>1 DEF Written, KeepsRestored
<1>7. ASSUME NEW a \in KnownAccessories, a \in initialized
      PROVE  Loaded(a)'
  <2>1. Loaded(a)
    BY <1>7 DEF StorageIInv
  <2>2. controllerData[a] # NoEntry => storageFile'[a] = controllerData[a]
    BY <1>6, <1>7, StorageTypes DEF Written, LinksLoaded
  <2>3. a \in deleted /\ restoredAccessories'[a] = NoEntry => storageFile'[a] = NoEntry
    <3>1. a \in deleted => controllerData[a] = NoEntry
      BY <2>1 DEF Loaded
    <3> QED
      BY <1>6, <3>1
  <2> QED
    BY <1>1, <2>1, <2>2, <2>3 DEF Loaded, RestoredData
<1>8. ASSUME NEW a \in KnownAccessories, a \notin initialized
      PROVE  NotLoadedYet(a)'
  <2>1. NotLoadedYet(a)
    BY <1>8 DEF StorageIInv
  <2>4. controllerData[a] = NoEntry /\ a \notin sameObject
    BY <2>1 DEF NotLoadedYet
  <2>5. a \notin sameObject'
    BY <1>1, <2>4
  <2>6. restoredAccessories'[a] # NoEntry => storageFile'[a] = restoredAccessories'[a]
    BY <1>6, <2>4
  <2> QED
    BY <1>1, <2>1, <2>5, <2>6 DEF NotLoadedYet
<1>9. \A a \in KnownAccessories : a \in initialized' <=> a \in initialized
  BY <1>1
<1> QED
  BY <1>1, <1>5, <1>7, <1>8, <1>9, StorageTypes DEF StorageIInv, LinksLoaded

\* The other steps: destroy(), the end of the process, and no step at all.
LEMMA OtherStorageStepsIInv ==
  ASSUME StorageIInv, Destroy \/ RestartProcess \/ UNCHANGED storageVars
  PROVE  StorageIInv'
<1> USE ControllerStorageAssumption DEF links
<1>0. NoEntries \in [KnownAccessories -> Entries] /\ \A a \in KnownAccessories : NoEntries[a] = NoEntry
  BY DEF NoEntries, Entries
<1>1. CASE Destroy
  <2>1. /\ published /\ destroyed' = TRUE /\ storageFile' = NoEntries
        /\ UNCHANGED <<links, controllerData, restoredAccessories, sameObject, controllerState, saveQueued,
                       starts, deleted, everUsed, dropped>>
    BY <1>1 DEF Destroy
  <2>2. ControllerStorageTypeOK'
    BY <1>0, <2>1, StorageTypes DEF ControllerStorageTypeOK
  <2>3. ASSUME NEW a \in KnownAccessories
        PROVE  IF a \in initialized' THEN Loaded(a)' ELSE NotLoadedYet(a)'
    <3>1. a \in initialized' <=> a \in initialized
      BY <2>1
    <3>2. IF a \in initialized THEN Loaded(a) ELSE NotLoadedYet(a)
      BY DEF StorageIInv
    <3>3. CASE a \in initialized
      BY <2>1, <3>1, <3>2, <3>3 DEF Loaded, RestoredData
    <3>4. CASE a \notin initialized
      BY <2>1, <3>1, <3>2, <3>4 DEF NotLoadedYet
    <3> QED
      BY <3>3, <3>4
  <2> QED
    BY <2>1, <2>2, <2>3, StorageTypes DEF StorageIInv, LinksLoaded
<1>2. CASE RestartProcess
  <2>1. /\ published' = FALSE /\ linked' = {} /\ linkedAgain' = FALSE /\ initialized' = {} /\ controllerData' = NoEntries /\ restoredAccessories' = NoEntries
        /\ sameObject' = {} /\ controllerState' = [a \in KnownAccessories |-> NotStored] /\ saveQueued' = FALSE
        /\ destroyed' = FALSE /\ deleted' = {} /\ UNCHANGED <<storageFile, dropped>>
        /\ everUsed' \subseteq KnownAccessories /\ starts' \in 1..MaxStarts
    <3>1. everUsed \subseteq KnownAccessories /\ starts \in 1..MaxStarts
      BY StorageTypes
    <3>2. starts' \in 1..MaxStarts
      BY <1>2, <3>1 DEF RestartProcess
    <3>3. everUsed' \subseteq KnownAccessories
      BY <1>2, <3>1 DEF RestartProcess
    <3> QED
      BY <1>2, <3>2, <3>3 DEF RestartProcess
  <2>2. ControllerStorageTypeOK'
    <3>1. controllerState' \in [KnownAccessories -> 0..NotStored]
      BY <2>1 DEF NotStored
    <3>2. published' \in BOOLEAN /\ saveQueued' \in BOOLEAN /\ destroyed' \in BOOLEAN
      BY <2>1
    <3> QED
      BY <1>0, <2>1, <3>1, <3>2, StorageTypes DEF ControllerStorageTypeOK
  <2>3. \A a \in KnownAccessories : a \notin initialized' /\ NotLoadedYet(a)'
    BY <1>0, <2>1 DEF NotLoadedYet
  <2> QED
    BY <2>1, <2>2, <2>3 DEF StorageIInv, LinksLoaded
<1>3. CASE UNCHANGED storageVars
  BY <1>3 DEF storageVars, memory, StorageIInv, LinksLoaded, ControllerStorageTypeOK, Loaded, NotLoadedYet, RestoredData
<1> QED
  BY <1>1, <1>2, <1>3

\* Once controllers report changes only after their storage was loaded, a
\* controller always has the state its storage has, however configuration,
\* load, links and changes are ordered, and once no save is queued the file
\* has it too, and nothing of what was deleted but for data kept for a later
\* link (ControllerStorage).
THEOREM StorageAlwaysKept ==
  ASSUME EarlyChanges = FALSE
  PROVE  ControllerStorageSpec => []StorageKept
<1>1. ControllerStorageInit => StorageIInv
  BY StorageInitIInv
<1>2. StorageIInv /\ [ControllerStorageNext]_storageVars => StorageIInv'
  <2> SUFFICES ASSUME StorageIInv, [ControllerStorageNext]_storageVars PROVE StorageIInv'
    OBVIOUS
  <2>1. ASSUME NEW a \in KnownAccessories, ConfigureController(a) PROVE StorageIInv'
    BY <2>1, ConfigureIInv
  <2>2. ASSUME NEW a \in KnownAccessories, UntrackController(a) PROVE StorageIInv'
    BY <2>2, UntrackIInv
  <2>3. ASSUME NEW a \in KnownAccessories, NEW d \in 0..MaxData, HandleStateChange(a, d) PROVE StorageIInv'
    BY <2>3, StateChangeIInv
  <2>4. ASSUME NEW a \in BridgedAccessories, LinkAccessory(a) PROVE StorageIInv'
    BY <2>4, LinkIInv
  <2>5. Unpaired \/ Load \/ Save => StorageIInv'
    BY UnpairedIInv, LoadIInv, SaveIInv
  <2>6. Destroy \/ RestartProcess \/ UNCHANGED storageVars => StorageIInv'
    BY OtherStorageStepsIInv
  <2> QED
    BY <2>1, <2>2, <2>3, <2>4, <2>5, <2>6 DEF ControllerStorageNext
<1>3. StorageIInv => StorageKept
  <2> SUFFICES ASSUME StorageIInv PROVE StorageKept
    OBVIOUS
  <2>1. ControllerStorageTypeOK
    BY DEF StorageIInv
  <2>2. StorageFollowsController
    BY DEF StorageIInv, StorageFollowsController, Loaded
  <2>3. FileFollowsStorage
    BY DEF StorageIInv, FileFollowsStorage, Loaded
  <2> QED
    BY <2>1, <2>2, <2>3 DEF StorageKept
<1> QED
  BY <1>1, <1>2, <1>3, PTL DEF ControllerStorageSpec

-----------------------------------------------------------------------------
(***************************************************************************)
(* Ids.  Distinct is kept by every assignment of ids, and the cache never  *)
(* gives an id twice: an id below the next one stands for what it was      *)
(* given to.  That the announced structure is the assigned one needs what  *)
(* has been checked since the last change, too.                            *)
(***************************************************************************)

\* The order in which new ids are handed out gives every element of a finite set a place of its own.
LEMMA PositionsDiffer ==
  ASSUME NEW S, IsFiniteSet(S)
  PROVE  /\ Cardinality(S) \in Nat
         /\ \A x \in S : Position(x, S) \in 1..Cardinality(S)
         /\ \A x, y \in S : Position(x, S) = Position(y, S) => x = y
<1> DEFINE n == Cardinality(S)
<1>1. n \in Nat /\ ExistsBijection(1..n, S)
  BY FS_CardinalityType
<1>2. \E f \in [1..n -> S] : IsInjective(f)
  <2>1. PICK f \in Bijection(1..n, S) : TRUE
    BY <1>1 DEF ExistsBijection
  <2>2. f \in [1..n -> S] /\ IsInjective(f)
    BY <2>1 DEF Bijection, Injection
  <2> QED
    BY <2>2
<1>3. SetToSeq(S) \in [1..n -> S] /\ IsInjective(SetToSeq(S))
  BY <1>2 DEF SetToSeq
<1>4. \A x \in S : \E i \in 1..n : SetToSeq(S)[i] = x
  <2>1. SetToSeq(S) \in Injection(1..n, S)
    BY <1>3 DEF Injection
  <2>2. IsFiniteSet(1..n) /\ Cardinality(1..n) = n
    BY <1>1, FS_Interval
  <2>3. SetToSeq(S) \in Surjection(1..n, S)
    BY <2>1, <2>2, FS_Injection
  <2> QED
    BY <2>3 DEF Surjection
<1>5. \A x \in S : Position(x, S) \in 1..n /\ SetToSeq(S)[Position(x, S)] = x
  BY <1>4 DEF Position
<1> QED
  BY <1>1, <1>5

\* Ids in use are at least 2 and below the next one, and no two elements have the same.
Distinct(idOf, next, D) ==
  /\ idOf \in [D -> Nat]
  /\ next \in Nat \ {1}
  /\ \A x \in D : idOf[x] # 0 => 2 <= idOf[x] /\ idOf[x] < next
  /\ \A x, y \in D : idOf[x] # 0 /\ idOf[x] = idOf[y] => x = y

\* What assigning ids to the elements of U leaves in the cache.
Unnumbered(idOf, U) == {x \in U : idOf[x] = 0}
Renumbered(idOf, next, D, U, expire) ==
  [x \in D |-> IF x \in U
               THEN UsedKey(IdOf(x, idOf[x], Start(next), Unnumbered(idOf, U)), x \in Unnumbered(idOf, U), expire)
               ELSE UnusedKey(idOf[x], expire)]

\* Every element of U gets an id, those that have one keep it, and ids stay distinct.
LEMMA NumberingStaysDistinct ==
  ASSUME NEW D, IsFiniteSet(D), NEW idOf, NEW next, Distinct(idOf, next, D),
         NEW U \in SUBSET D, NEW expire \in BOOLEAN,
         NEW looked \in BOOLEAN, U # {} => looked,
         NEW taken, looked => taken = Cardinality(Unnumbered(idOf, U)),
         NEW new, new = Renumbered(idOf, next, D, U, expire)
  PROVE  /\ Distinct(new, NextId(next, looked, taken, expire), D)
         /\ \A x \in U : new[x] # 0 /\ new[x] = IdOf(x, idOf[x], Start(next), Unnumbered(idOf, U))
         /\ \A x \in D : idOf[x] # 0 /\ (x \in U \/ ~expire) => new[x] = idOf[x]
<1> DEFINE fresh == Unnumbered(idOf, U)
           next2 == NextId(next, looked, taken, expire)
<1>1. /\ idOf \in [D -> Nat] /\ next \in Nat \ {1}
      /\ \A x \in D : idOf[x] # 0 => 2 <= idOf[x] /\ idOf[x] < next
      /\ \A x, y \in D : idOf[x] # 0 /\ idOf[x] = idOf[y] => x = y
  BY DEF Distinct
<1>2. fresh \subseteq U /\ fresh \subseteq D /\ \A x \in fresh : idOf[x] = 0
  BY DEF Unnumbered
<1>3. /\ Cardinality(fresh) \in Nat
      /\ \A x \in fresh : Position(x, fresh) \in 1..Cardinality(fresh)
      /\ \A x, y \in fresh : Position(x, fresh) = Position(y, fresh) => x = y
  <2>1. IsFiniteSet(fresh)
    BY <1>2, FS_Subset
  <2> HIDE DEF fresh
  <2> QED
    BY <2>1, PositionsDiffer
<1>4. Start(next) \in Nat /\ Start(next) >= 2 /\ (next # 0 => Start(next) = next)
  BY <1>1 DEF Start
<1>5. ASSUME NEW x \in D
      PROVE  /\ new[x] = IF x \in U THEN IF idOf[x] # 0 THEN idOf[x] ELSE Start(next) + Position(x, fresh) - 1
                                    ELSE IF expire THEN 0 ELSE idOf[x]
             /\ idOf[x] \in Nat
             /\ x \in U /\ idOf[x] = 0 => x \in fresh
  <2>1. x \in U /\ idOf[x] = 0 => x \in fresh
    BY DEF Unnumbered
  <2> HIDE DEF fresh
  <2>2. new[x] = IF x \in U
                 THEN UsedKey(IdOf(x, idOf[x], Start(next), Unnumbered(idOf, U)), x \in Unnumbered(idOf, U), expire)
                 ELSE UnusedKey(idOf[x], expire)
    BY DEF Renumbered
  <2>3. new[x] = IF x \in U THEN IF idOf[x] # 0 THEN idOf[x] ELSE Start(next) + Position(x, Unnumbered(idOf, U)) - 1
                            ELSE IF expire THEN 0 ELSE idOf[x]
    BY <2>2 DEF UsedKey, UnusedKey, IdOf
  <2> QED
    BY <1>1, <2>1, <2>3 DEF fresh
<1>6. new = [x \in D |-> new[x]]
  BY DEF Renumbered
<1> HIDE DEF fresh
<1>7. ASSUME NEW x \in D
      PROVE  /\ new[x] \in Nat
             /\ x \in U => new[x] >= 2
             /\ new[x] # 0 => 2 <= new[x]
             /\ x \in fresh => Start(next) <= new[x] /\ new[x] < Start(next) + Cardinality(fresh)
             /\ x \in fresh => new[x] = Start(next) + Position(x, fresh) - 1
             /\ x \notin fresh => new[x] = 0 \/ (new[x] = idOf[x] /\ new[x] < next /\ idOf[x] # 0)
  <2>1. CASE x \in fresh
    <3>1. x \in U /\ idOf[x] = 0 /\ Position(x, fresh) \in 1..Cardinality(fresh)
      BY <1>2, <1>3, <2>1
    <3>2. new[x] = Start(next) + Position(x, fresh) - 1
      BY <1>5, <3>1
    <3> QED
      BY <1>3, <1>4, <2>1, <3>1, <3>2
  <2>2. CASE x \notin fresh /\ x \in U
    <3>1. idOf[x] # 0 /\ idOf[x] \in Nat /\ 2 <= idOf[x] /\ idOf[x] < next
      BY <1>1, <1>5, <2>2
    <3> QED
      BY <1>5, <2>2, <3>1
  <2>3. CASE x \notin U
    <3>1. new[x] = IF expire THEN 0 ELSE idOf[x]
      BY <1>5, <2>3
    <3>2. x \notin fresh
      BY <1>2, <2>3
    <3>3. CASE new[x] = 0
      BY <2>3, <3>2, <3>3
    <3>4. CASE new[x] # 0
      <4>1. new[x] = idOf[x] /\ idOf[x] # 0 /\ idOf[x] \in Nat
        BY <1>5, <3>1, <3>4
      <4> QED
        BY <1>1, <2>3, <3>2, <4>1
    <3> QED
      BY <3>3, <3>4
  <2> QED
    BY <2>1, <2>2, <2>3
<1>8. next2 \in Nat \ {1}
  <2>1. CASE looked
    <3>1. next2 = Start(next) + Cardinality(fresh)
      BY <2>1 DEF NextId, fresh
    <3> QED
      BY <1>3, <1>4, <3>1
  <2>2. CASE ~looked
    BY <1>1, <2>2 DEF NextId, UnusedKey
  <2> QED
    BY <2>1, <2>2
<1>9. ASSUME NEW x \in D, new[x] # 0
      PROVE  new[x] < next2
  <2>1. CASE looked
    <3>1. next2 = Start(next) + Cardinality(fresh)
      BY <2>1 DEF NextId, fresh
    <3>2. CASE x \in fresh
      BY <1>7, <3>1, <3>2
    <3>3. CASE x \notin fresh
      <4>1. new[x] < next /\ next # 0
        BY <1>1, <1>7, <1>9, <3>3
      <4> QED
        BY <1>1, <1>3, <1>4, <1>7, <3>1, <4>1
    <3> QED
      BY <3>2, <3>3
  <2>2. CASE ~looked
    <3>1. x \notin U /\ x \notin fresh
      BY <1>2, <2>2
    <3>2. ~expire
      BY <1>5, <1>9, <3>1
    <3>3. next2 = next
      BY <2>2, <3>2 DEF NextId, UnusedKey
    <3> QED
      BY <1>7, <1>9, <3>1, <3>3
  <2> QED
    BY <2>1, <2>2
<1>10. ASSUME NEW x \in D, NEW y \in D, new[x] # 0, new[x] = new[y]
       PROVE  x = y
  <2>1. CASE x \in fresh /\ y \in fresh
    <3>1. Position(x, fresh) = Position(y, fresh)
      <4>1. Position(x, fresh) \in Nat /\ Position(y, fresh) \in Nat
        BY <1>3, <2>1
      <4> QED
        BY <1>4, <1>7, <1>10, <2>1, <4>1
    <3> QED
      BY <1>3, <2>1, <3>1
  <2>2. CASE x \notin fresh /\ y \notin fresh
    <3>1. new[x] = idOf[x] /\ new[y] = idOf[y] /\ idOf[x] # 0
      BY <1>7, <1>10, <2>2
    <3> QED
      BY <1>1, <1>10, <3>1
  <2>3. CASE x \in fresh /\ y \notin fresh
    <3>1. new[y] < next /\ Start(next) <= new[x] /\ next # 0
      BY <1>1, <1>7, <1>10, <2>3
    <3> QED
      BY <1>1, <1>4, <1>7, <1>10, <3>1
  <2>4. CASE x \notin fresh /\ y \in fresh
    <3>1. new[x] < next /\ Start(next) <= new[y] /\ next # 0
      BY <1>1, <1>7, <1>10, <2>4
    <3> QED
      BY <1>1, <1>4, <1>7, <1>10, <3>1
  <2> QED
    BY <2>1, <2>2, <2>3, <2>4
<1>11. Distinct(new, next2, D)
  <2>1. new \in [D -> Nat]
    BY <1>6, <1>7
  <2> HIDE DEF next2
  <2> QED
    BY <1>7, <1>8, <1>9, <1>10, <2>1 DEF Distinct
<1>12. ASSUME NEW x \in U
       PROVE  new[x] # 0 /\ new[x] = IdOf(x, idOf[x], Start(next), Unnumbered(idOf, U))
  <2>1. x \in D
    OBVIOUS
  <2>2. new[x] >= 2 /\ new[x] \in Nat
    BY <1>7, <2>1
  <2>3. new[x] = IdOf(x, idOf[x], Start(next), Unnumbered(idOf, U))
    BY <1>5, <2>1 DEF IdOf, fresh
  <2> QED
    BY <2>2, <2>3
<1>13. \A x \in D : idOf[x] # 0 /\ (x \in U \/ ~expire) => new[x] = idOf[x]
  BY <1>5
<1> QED
  BY <1>11, <1>12, <1>13

\* No two accessories, and no two services of one accessory, have the same id in the cache.
CacheDistinct ==
  /\ Distinct(cache.aid, cache.nextAID, Bridged)
  /\ \A a \in Accessories : Distinct(cache.iid[a], cache.nextIID[a], Services)

\* What _assignIDs gives every accessory that is attached, and its services.
Assigned ==
  /\ aid[Root] = 1
  /\ \A a \in bridged : aid[a] = cache.aid[a] /\ aid[a] # 0
  /\ \A a \in Attached : \A s \in services[a] : iid[a][s] = cache.iid[a][s] /\ iid[a][s] # 0

\* Ids in the cache, of the accessories of B and of their services or of all, that survive.
Remembered(expire) ==
  /\ \A a \in Bridged : cache.aid[a] # 0 /\ (a \in bridged \/ ~expire) => cache'.aid[a] = cache.aid[a]
  /\ \A a \in Accessories, s \in Services :
       cache.iid[a][s] # 0 /\ ((a \in Attached /\ s \in services[a]) \/ ~expire) => cache'.iid[a][s] = cache.iid[a][s]

\* The objects that are not attached keep the ids they carry.
OthersKeep ==
  /\ \A a \in Accessories \ Attached : aid'[a] = aid[a]
  /\ \A a \in Accessories, s \in Services : ~(a \in Attached /\ s \in services[a]) => iid'[a][s] = iid[a][s]

\* The accessories are attached, and their services, whose ids are being assigned.
LEMMA AssignIDsNumbers ==
  ASSUME DatabaseTypeOK, CacheDistinct, NEW expire \in BOOLEAN, AssignIDs(expire)
  PROVE  /\ CacheDistinct'
         /\ aid' \in [Accessories -> Nat]
         /\ iid' \in [Accessories -> [Services -> Nat]]
         /\ cache' \in [aid: [Bridged -> Nat], iid: [Accessories -> [Services -> Nat]],
                        nextAID: Nat, nextIID: [Accessories -> Nat]]
         /\ aid'[Root] = 1
         /\ \A a \in bridged : aid'[a] = cache'.aid[a] /\ aid'[a] # 0
         /\ \A a \in Attached : \A s \in services[a] : iid'[a][s] = cache'.iid[a][s] /\ iid'[a][s] # 0
         /\ Remembered(expire)
         /\ OthersKeep
<1> USE DatabaseAssumption
<1>1. /\ cache \in [aid: [Bridged -> Nat], iid: [Accessories -> [Services -> Nat]],
                    nextAID: Nat, nextIID: [Accessories -> Nat]]
      /\ bridged \subseteq Bridged /\ services \in [Accessories -> SUBSET Services]
      /\ aid \in [Accessories -> Nat] /\ iid \in [Accessories -> [Services -> Nat]]
      /\ Attached \subseteq Accessories /\ Root \in Attached
      /\ IsFiniteSet(Bridged) /\ IsFiniteSet(Services)
      /\ Bridged \subseteq Accessories /\ Root \notin Bridged
  BY DEF DatabaseTypeOK, Attached, Accessories
<1> DEFINE newAid == [a \in Bridged |->
                        IF a \in bridged THEN UsedKey(AidOf(a), a \in NewAccessories, expire)
                        ELSE UnusedKey(cache.aid[a], expire)]
           newIid == [a \in Accessories |-> [s \in Services |->
                        IF a \in Attached /\ s \in services[a]
                        THEN UsedKey(IidOf(a, s), s \in NewServices(a), expire)
                        ELSE UnusedKey(cache.iid[a][s], expire)]]
           newNextIID == [a \in Accessories |->
                        NextId(cache.nextIID[a], a \in Attached, Cardinality(NewServices(a)), expire)]
           newNextAID == NextId(cache.nextAID, bridged # {}, Cardinality(NewAccessories), expire)
<1>2. /\ cache' = [aid |-> newAid, iid |-> newIid, nextAID |-> newNextAID, nextIID |-> newNextIID]
      /\ aid' = [a \in Accessories |-> IF a \in Attached THEN AidOf(a) ELSE aid[a]]
      /\ iid' = [a \in Accessories |-> [s \in Services |->
               IF a \in Attached /\ s \in services[a] THEN IidOf(a, s) ELSE iid[a][s]]]
  BY DEF AssignIDs
<1>3. /\ Distinct(newAid, newNextAID, Bridged)
      /\ \A a \in bridged : newAid[a] # 0 /\ newAid[a] = AidOf(a)
      /\ \A a \in Bridged : cache.aid[a] # 0 /\ (a \in bridged \/ ~expire) => newAid[a] = cache.aid[a]
  <2>1. PICK idOf : idOf = cache.aid
    OBVIOUS
  <2>2. PICK next : next = cache.nextAID
    OBVIOUS
  <2>3. PICK U : U = bridged
    OBVIOUS
  <2>4. PICK looked : looked = (bridged # {})
    OBVIOUS
  <2>5. PICK taken : taken = Cardinality(NewAccessories)
    OBVIOUS
  <2>6. NewAccessories = Unnumbered(idOf, U)
    BY <2>1, <2>3 DEF NewAccessories, Unnumbered
  <2>7. newAid = Renumbered(idOf, next, Bridged, U, expire)
    <3>1. \A a \in bridged : AidOf(a) = IdOf(a, idOf[a], Start(next), Unnumbered(idOf, U))
      BY <1>1, <2>1, <2>2, <2>6 DEF AidOf
    <3> QED
      BY <2>1, <2>3, <2>6, <3>1 DEF Renumbered
  <2>8. PICK new : new = newAid
    OBVIOUS
  <2>9. Distinct(idOf, next, Bridged) /\ U \in SUBSET Bridged /\ looked \in BOOLEAN /\ (U # {} => looked)
    BY <1>1, <2>1, <2>2, <2>3, <2>4 DEF CacheDistinct
  <2>10. /\ Distinct(new, NextId(next, looked, taken, expire), Bridged)
         /\ \A x \in U : new[x] # 0 /\ new[x] = IdOf(x, idOf[x], Start(next), Unnumbered(idOf, U))
         /\ \A x \in Bridged : idOf[x] # 0 /\ (x \in U \/ ~expire) => new[x] = idOf[x]
    <3> HIDE DEF newAid
    <3>1. new = Renumbered(idOf, next, Bridged, U, expire) /\ taken = Cardinality(Unnumbered(idOf, U))
      BY <2>5, <2>6, <2>7, <2>8
    <3>2. IsFiniteSet(Bridged)
      BY <1>1
    <3>3. looked => taken = Cardinality(Unnumbered(idOf, U))
      BY <3>1
    <3> QED
      BY ONLY <2>9, <3>1, <3>2, <3>3, expire \in BOOLEAN, NumberingStaysDistinct
  <2>11. newNextAID = NextId(next, looked, taken, expire)
    BY <2>2, <2>4, <2>5
  <2>12. \A a \in bridged : AidOf(a) = IdOf(a, idOf[a], Start(next), Unnumbered(idOf, U))
    BY <1>1, <2>1, <2>2, <2>6 DEF AidOf
  <2> HIDE DEF newAid, newNextAID
  <2> QED
    BY <2>1, <2>3, <2>8, <2>10, <2>11, <2>12
<1>4. ASSUME NEW a \in Accessories
      PROVE  /\ Distinct(newIid[a], newNextIID[a], Services)
             /\ a \in Attached => \A s \in services[a] : newIid[a][s] # 0 /\ newIid[a][s] = IidOf(a, s)
             /\ \A s \in Services : cache.iid[a][s] # 0 /\ ((a \in Attached /\ s \in services[a]) \/ ~expire)
                                      => newIid[a][s] = cache.iid[a][s]
  <2>1. PICK idOf : idOf = cache.iid[a]
    OBVIOUS
  <2>2. PICK next : next = cache.nextIID[a]
    OBVIOUS
  <2>3. PICK U : U = IF a \in Attached THEN services[a] ELSE {}
    OBVIOUS
  <2>4. PICK looked : looked = (a \in Attached)
    OBVIOUS
  <2>5. PICK taken : taken = Cardinality(NewServices(a))
    OBVIOUS
  <2>6. a \in Attached => NewServices(a) = Unnumbered(idOf, U)
    BY <2>1, <2>3 DEF NewServices, Unnumbered
  <2>7. PICK new : new = newIid[a]
    OBVIOUS
  <2>8. new = Renumbered(idOf, next, Services, U, expire)
    <3>1. new = [s \in Services |->
                        IF a \in Attached /\ s \in services[a]
                        THEN UsedKey(IidOf(a, s), s \in NewServices(a), expire)
                        ELSE UnusedKey(cache.iid[a][s], expire)]
      BY <2>7
    <3>2. \A s \in Services : s \in U <=> a \in Attached /\ s \in services[a]
      BY <2>3
    <3>3. \A s \in U : IidOf(a, s) = IdOf(s, idOf[s], Start(next), Unnumbered(idOf, U))
      BY <2>1, <2>2, <2>3, <2>6 DEF IidOf
    <3>4. \A s \in U : NewServices(a) = Unnumbered(idOf, U)
      BY <2>3, <2>6
    <3> HIDE DEF newIid
    <3> QED
      BY <2>1, <3>1, <3>2, <3>3, <3>4 DEF Renumbered
  <2>9. /\ Distinct(idOf, next, Services) /\ U \in SUBSET Services /\ looked \in BOOLEAN /\ (U # {} => looked)
        /\ looked => taken = Cardinality(Unnumbered(idOf, U))
    <3>1. Distinct(idOf, next, Services)
      BY <2>1, <2>2 DEF CacheDistinct
    <3>2. U \in SUBSET Services /\ looked \in BOOLEAN /\ (U # {} => looked)
      <4>1. services[a] \subseteq Services
        BY <1>1
      <4>2. looked \in BOOLEAN
        BY ONLY <2>4
      <4>3. U \in SUBSET Services
        BY ONLY <2>3, <4>1
      <4>4. U # {} => looked
        BY ONLY <2>3, <2>4
      <4> QED
        BY <4>2, <4>3, <4>4
    <3>3. looked => taken = Cardinality(Unnumbered(idOf, U))
      BY <2>4, <2>5, <2>6
    <3> QED
      BY <3>1, <3>2, <3>3
  <2>10. /\ Distinct(new, NextId(next, looked, taken, expire), Services)
         /\ \A x \in U : new[x] # 0 /\ new[x] = IdOf(x, idOf[x], Start(next), Unnumbered(idOf, U))
         /\ \A x \in Services : idOf[x] # 0 /\ (x \in U \/ ~expire) => new[x] = idOf[x]
    <3>1. IsFiniteSet(Services)
      BY <1>1
    <3> QED
      BY ONLY <2>8, <2>9, <3>1, expire \in BOOLEAN, NumberingStaysDistinct
  <2>11. newNextIID[a] = NextId(next, looked, taken, expire)
    BY <2>2, <2>4, <2>5
  <2>12. a \in Attached => \A s \in services[a] : s \in U /\ IidOf(a, s) = IdOf(s, idOf[s], Start(next), Unnumbered(idOf, U))
    BY <2>1, <2>2, <2>3, <2>6 DEF IidOf
  <2>13. \A s \in Services : s \in U <=> a \in Attached /\ s \in services[a]
    BY <2>3
  <2> HIDE DEF newIid, newNextIID
  <2> QED
    BY <2>1, <2>7, <2>10, <2>11, <2>12, <2>13
<1>5. newAid \in [Bridged -> Nat] /\ newNextAID \in Nat
  <2> HIDE DEF newAid, newNextAID
  <2> QED
    BY <1>3 DEF Distinct
<1>6. newIid \in [Accessories -> [Services -> Nat]] /\ newNextIID \in [Accessories -> Nat]
  <2>1. newIid = [a \in Accessories |-> newIid[a]] /\ newNextIID = [a \in Accessories |-> newNextIID[a]]
    OBVIOUS
  <2> HIDE DEF newIid, newNextIID
  <2>2. \A a \in Accessories : newIid[a] \in [Services -> Nat] /\ newNextIID[a] \in Nat
    BY <1>4 DEF Distinct
  <2> QED
    BY <2>1, <2>2
<1>7. /\ cache'.aid = newAid /\ cache'.iid = newIid /\ cache'.nextAID = newNextAID /\ cache'.nextIID = newNextIID
      /\ cache' \in [aid: [Bridged -> Nat], iid: [Accessories -> [Services -> Nat]],
                     nextAID: Nat, nextIID: [Accessories -> Nat]]
  <2> HIDE DEF newAid, newIid, newNextAID, newNextIID
  <2> QED
    BY <1>2, <1>5, <1>6
<1> HIDE DEF newAid, newIid, newNextAID, newNextIID
<1>8. CacheDistinct'
  BY <1>3, <1>4, <1>7 DEF CacheDistinct
<1>9. /\ aid'[Root] = 1
      /\ \A a \in bridged : aid'[a] = cache'.aid[a] /\ aid'[a] # 0
  <2>1. aid'[Root] = 1
    BY <1>1, <1>2 DEF AidOf
  <2>2. \A a \in bridged : a \in Accessories /\ a \in Attached /\ aid'[a] = AidOf(a)
    BY <1>1, <1>2 DEF Attached
  <2> QED
    BY <1>3, <1>7, <2>1, <2>2
<1>10. \A a \in Attached : \A s \in services[a] : iid'[a][s] = cache'.iid[a][s] /\ iid'[a][s] # 0
  <2>1. \A a \in Attached : \A s \in services[a] : a \in Accessories /\ s \in Services /\ iid'[a][s] = IidOf(a, s)
    BY <1>1, <1>2
  <2> QED
    BY <1>4, <1>7, <2>1
<1>11. aid' \in [Accessories -> Nat]
  <2>1. \A a \in Attached : AidOf(a) \in Nat
    <3>1. \A a \in bridged : AidOf(a) \in Nat
      BY <1>1, <1>3, <1>5
    <3> QED
      BY <3>1 DEF Attached, AidOf
  <2> QED
    BY <1>1, <1>2, <2>1
<1>12. iid' \in [Accessories -> [Services -> Nat]]
  <2>1. \A a \in Attached : \A s \in services[a] : IidOf(a, s) \in Nat
    BY <1>1, <1>4, <1>6
  <2> QED
    BY <1>1, <1>2, <2>1
<1>13. Remembered(expire)
  BY <1>3, <1>4, <1>7 DEF Remembered
<1>14. OthersKeep
  BY <1>2 DEF OthersKeep
<1> QED
  BY <1>7, <1>8, <1>9, <1>10, <1>11, <1>12, <1>13, <1>14

DatabaseBasics ==
  /\ DatabaseTypeOK
  /\ CacheDistinct
  /\ purge => PurgeUnused
  /\ phase = "publishing" => awaitsAdvertiser
  /\ phase \notin {"down", "failed"} => aid[Root] = 1

\* The initial state satisfies the types and the rest.
LEMMA DatabaseInitBasics == DatabaseInit => DatabaseBasics
<1> SUFFICES ASSUME DatabaseInit PROVE DatabaseBasics
  OBVIOUS
<1> USE DatabaseAssumption DEF DatabaseInit
<1>1. NoIds \in [Accessories -> [Services -> Nat]] /\ \A a \in Accessories, s \in Services : NoIds[a][s] = 0
  BY DEF NoIds
<1>2. DatabaseTypeOK
  <2>1. cache \in [aid: [Bridged -> Nat], iid: [Accessories -> [Services -> Nat]],
                   nextAID: Nat, nextIID: [Accessories -> Nat]]
    BY <1>1
  <2>2. aid \in [Accessories -> Nat] /\ iid \in [Accessories -> [Services -> Nat]]
    BY <1>1
  <2>3. /\ phase \in {"down", "publishing", "published"} /\ awaitsAdvertiser \in AwaitsAdvertiser
        /\ bridged \subseteq Bridged /\ services \in [Accessories -> SUBSET Services]
        /\ malformed \subseteq Bridged /\ quarantined \subseteq bridged
        /\ bridged \subseteq wasBridged /\ wasBridged \subseteq Bridged /\ linkedTwice \in BOOLEAN
        /\ answer \in {"none", "accessories", "INTERNAL_SERVER_ERROR"}
    OBVIOUS
  <2>4. purge \in BOOLEAN /\ timer \in BOOLEAN /\ missed \in BOOLEAN /\ current \in BOOLEAN /\ settled \in BOOLEAN
    OBVIOUS
  <2>5. configVersion \in 1..MaxConfigVersion
    OBVIOUS
  <2> QED
    BY <2>1, <2>2, <2>3, <2>4, <2>5 DEF DatabaseTypeOK
<1>3. CacheDistinct
  <2>1. Distinct(cache.aid, cache.nextAID, Bridged)
    BY DEF Distinct
  <2>2. ASSUME NEW a \in Accessories
        PROVE  Distinct(cache.iid[a], cache.nextIID[a], Services)
    BY <1>1 DEF Distinct
  <2> QED
    BY <2>1, <2>2 DEF CacheDistinct
<1> QED
  BY <1>2, <1>3 DEF DatabaseBasics

\* The configuration number stays in its bounds.
LEMMA BoundedVersion ==
  ASSUME NEW v \in 1..MaxConfigVersion
  PROVE  Bounded(v + 1) \in 1..MaxConfigVersion
  BY DatabaseAssumption DEF Bounded

\* Every step preserves the types, and that ids in the cache are distinct.
LEMMA DatabaseBasicsPreserved == DatabaseBasics /\ [DatabaseNext]_databaseVars => DatabaseBasics'
<1> SUFFICES ASSUME DatabaseBasics, [DatabaseNext]_databaseVars PROVE DatabaseBasics'
  OBVIOUS
<1> USE DatabaseAssumption
<1>0. /\ DatabaseTypeOK /\ CacheDistinct /\ (purge => PurgeUnused)
      /\ (phase = "publishing" => awaitsAdvertiser) /\ (phase \notin {"down", "failed"} => aid[Root] = 1)
  BY DEF DatabaseBasics
<1>t. /\ phase \in {"down", "publishing", "published", "failed"} /\ awaitsAdvertiser \in BOOLEAN
      /\ bridged \subseteq Bridged /\ services \in [Accessories -> SUBSET Services]
      /\ malformed \subseteq Bridged /\ quarantined \subseteq bridged /\ purge \in BOOLEAN
      /\ bridged \subseteq wasBridged /\ wasBridged \subseteq Bridged /\ linkedTwice \in BOOLEAN
      /\ configVersion \in 1..MaxConfigVersion /\ timer \in BOOLEAN /\ missed \in BOOLEAN
      /\ answer \in {"none", "accessories", "INTERNAL_SERVER_ERROR"}
      /\ current \in BOOLEAN /\ settled \in BOOLEAN
  BY <1>0 DEF DatabaseTypeOK
<1>1. ASSUME NEW expire \in BOOLEAN, AssignIDs(expire)
      PROVE  /\ CacheDistinct' /\ aid'[Root] = 1
             /\ aid' \in [Accessories -> Nat]
             /\ iid' \in [Accessories -> [Services -> Nat]]
             /\ cache' \in [aid: [Bridged -> Nat], iid: [Accessories -> [Services -> Nat]],
                            nextAID: Nat, nextIID: [Accessories -> Nat]]
  BY <1>0, <1>1, AssignIDsNumbers
<1>2. ASSUME UNCHANGED ids
      PROVE  /\ CacheDistinct'
             /\ aid' \in [Accessories -> Nat]
             /\ iid' \in [Accessories -> [Services -> Nat]]
             /\ cache' \in [aid: [Bridged -> Nat], iid: [Accessories -> [Services -> Nat]],
                            nextAID: Nat, nextIID: [Accessories -> Nat]]
  BY <1>0, <1>2 DEF ids, CacheDistinct, DatabaseTypeOK
<1>3. ASSUME CheckIncrement
      PROVE  configVersion' \in 1..MaxConfigVersion /\ current' \in BOOLEAN /\ missed' \in BOOLEAN
  BY <1>t, <1>3, BoundedVersion DEF CheckIncrement
<1>4. ASSUME NEW a \in Bridged, RemoveBridgedAccessory(a) \/ AssignPerms(a)
      PROVE  DatabaseBasics'
  <2>1. /\ UNCHANGED <<ids, phase, purge, config, answer, current, settled, services, awaitsAdvertiser>>
        /\ UNCHANGED <<wasBridged, linkedTwice, missed>>
        /\ bridged' \subseteq bridged /\ malformed' \subseteq Bridged /\ quarantined' \subseteq bridged'
        /\ timer' \in BOOLEAN
    BY <1>t, <1>4 DEF RemoveBridgedAccessory, AssignPerms, Changed, PluginChanges, controller, update, ids
  <2> QED
    BY <1>0, <1>t, <1>2, <2>1 DEF DatabaseBasics, DatabaseTypeOK, ids, config
<1>a. ASSUME NEW a \in Bridged, NEW fresh \in BOOLEAN, AddBridgedAccessory(a, fresh)
      PROVE  DatabaseBasics'
  <2>1. /\ UNCHANGED <<cache, phase, purge, config, answer, current, settled, services, awaitsAdvertiser,
                       malformed, quarantined>>
        /\ bridged' = bridged \cup {a} /\ wasBridged' = wasBridged \cup {a} /\ linkedTwice' \in BOOLEAN
        /\ timer' \in BOOLEAN /\ missed' \in BOOLEAN
    BY <1>t, <1>a DEF AddBridgedAccessory, AddOutcome, PluginChanges, controller
  <2>2. /\ aid' \in [Accessories -> Nat] /\ iid' \in [Accessories -> [Services -> Nat]]
        /\ aid'[Root] = aid[Root]
    <3>1. /\ aid \in [Accessories -> Nat] /\ iid \in [Accessories -> [Services -> Nat]]
          /\ NoIds[a] \in [Services -> Nat] /\ a # Root /\ Root \in Accessories
      BY <1>0 DEF DatabaseTypeOK, NoIds, Accessories
    <3>2. /\ aid' = [aid EXCEPT ![a] = 0] \/ aid' = aid
          /\ iid' = [iid EXCEPT ![a] = NoIds[a]] \/ iid' = iid
      BY <1>a DEF AddBridgedAccessory
    <3>3. aid' \in [Accessories -> Nat] /\ aid'[Root] = aid[Root]
      BY <3>1, <3>2
    <3>4. iid' \in [Accessories -> [Services -> Nat]]
      <4>1. ASSUME iid' = [iid EXCEPT ![a] = NoIds[a]] PROVE iid' \in [Accessories -> [Services -> Nat]]
        BY <3>1, <4>1
      <4> QED
        BY <3>1, <3>2, <4>1
    <3> QED
      BY <3>3, <3>4
  <2>3. CacheDistinct'
    BY <1>0, <2>1 DEF CacheDistinct
  <2> QED
    BY <1>0, <1>t, <2>1, <2>2, <2>3 DEF DatabaseBasics, DatabaseTypeOK, config
<1>5. ASSUME NEW a \in Accessories, NEW s \in Services, AddService(a, s) \/ RemoveService(a, s)
      PROVE  DatabaseBasics'
  <2>1. /\ UNCHANGED <<ids, phase, purge, config, answer, current, settled, bridged, malformed, quarantined, awaitsAdvertiser>>
        /\ UNCHANGED <<wasBridged, linkedTwice, missed>>
        /\ services' \in [Accessories -> SUBSET Services]
        /\ timer' \in BOOLEAN
    BY <1>t, <1>5 DEF AddService, RemoveService, Changed, PluginChanges, controller, ids
  <2> QED
    BY <1>0, <1>t, <1>2, <2>1 DEF DatabaseBasics, DatabaseTypeOK, ids, config
<1>6. CASE PurgeUnusedIDs
  <2>1. /\ UNCHANGED <<phase, plugin, quarantined, purge, config, update, controller, current, awaitsAdvertiser>>
        /\ AssignIDs(TRUE)
    BY <1>6 DEF PurgeUnusedIDs
  <2> QED
    BY <1>0, <1>t, <1>1, <2>1 DEF DatabaseBasics, DatabaseTypeOK, plugin, config, controller, update
<1>7. CASE Publish
  <2>1. /\ UNCHANGED <<plugin, controller, awaitsAdvertiser>> /\ CheckIncrement
        /\ AssignIDs(purge /\ bridged # {}) /\ quarantined' = bridged \cap malformed
        /\ timer' \in BOOLEAN /\ purge' = (purge /\ bridged # {})
        /\ phase' = IF awaitsAdvertiser THEN "publishing" ELSE "published"
    BY <1>t, <1>7 DEF Publish, Noticed
  <2>2. (purge /\ bridged # {}) \in BOOLEAN
    OBVIOUS
  <2>3. /\ CacheDistinct' /\ aid'[Root] = 1
        /\ aid' \in [Accessories -> Nat]
        /\ iid' \in [Accessories -> [Services -> Nat]]
        /\ cache' \in [aid: [Bridged -> Nat], iid: [Accessories -> [Services -> Nat]],
                       nextAID: Nat, nextIID: [Accessories -> Nat]]
    BY <1>1, <2>1, <2>2
  <2> QED
    BY <1>0, <1>t, <1>3, <2>1, <2>3 DEF DatabaseBasics, DatabaseTypeOK, plugin, controller, update
<1>p. CASE PublishFails
  <2>1. /\ UNCHANGED <<plugin, quarantined, ids, config, update, controller, current, awaitsAdvertiser>>
        /\ phase' = "failed" /\ purge' = (purge /\ bridged # {})
    BY <1>p DEF PublishFails
  <2> QED
    BY <1>0, <1>t, <1>2, <2>1 DEF DatabaseBasics, DatabaseTypeOK, plugin, config, controller, ids, update
<1>8. CASE AdvertiserAvailable
  <2>1. /\ UNCHANGED <<plugin, quarantined, purge, ids, config, update, controller, current, awaitsAdvertiser>>
        /\ phase' = "published" /\ phase = "publishing"
    BY <1>8 DEF AdvertiserAvailable
  <2> QED
    BY <1>0, <1>t, <1>2, <2>1 DEF DatabaseBasics, DatabaseTypeOK, plugin, config, controller, ids, update
<1>9. CASE ConfigurationUpdate
  <2>0. UNCHANGED <<phase, plugin, purge, controller, awaitsAdvertiser>>
    BY <1>9 DEF ConfigurationUpdate
  <2>1. CASE phase = "published"
    <3>1. AssignIDs(purge) /\ CheckIncrement /\ quarantined' = bridged \cap malformed /\ timer' \in BOOLEAN
      BY <1>9, <2>1 DEF ConfigurationUpdate, Noticed
    <3> QED
      BY <1>0, <1>t, <1>1, <1>3, <2>0, <3>1 DEF DatabaseBasics, DatabaseTypeOK, plugin, controller, update
  <2>2. CASE phase # "published"
    <3>1. UNCHANGED <<quarantined, ids, config, current>> /\ timer' = FALSE /\ missed' = TRUE
      BY <1>9, <2>2 DEF ConfigurationUpdate
    <3> QED
      BY <1>0, <1>t, <1>2, <2>0, <3>1 DEF DatabaseBasics, DatabaseTypeOK, plugin, controller, ids, config, update
  <2> QED
    BY <2>1, <2>2
<1>10. ASSUME NEW B \in SUBSET Bridged, NEW S \in [Accessories -> SUBSET Services], Restart(B, S)
       PROVE  DatabaseBasics'
  <2>1. /\ UNCHANGED <<cache, config, current, answer, settled, awaitsAdvertiser, missed>>
        /\ wasBridged' = B /\ linkedTwice' = FALSE
        /\ phase' = "down" /\ bridged' = B /\ services' = S /\ malformed' = {} /\ quarantined' = {}
        /\ purge' = PurgeUnused /\ timer' = FALSE
        /\ aid' \in [Accessories -> Nat] /\ iid' \in [Accessories -> [Services -> Nat]]
    BY <1>10 DEF Restart, NoIds
  <2>2. CacheDistinct'
    BY <1>0, <2>1 DEF CacheDistinct
  <2> QED
    BY <1>0, <1>t, <2>1, <2>2 DEF DatabaseBasics, DatabaseTypeOK, config
<1>11. CASE HandleAccessories
  <2>1. /\ UNCHANGED <<phase, plugin, quarantined, purge, config, update, answer, awaitsAdvertiser>>
        /\ AssignIDs(purge) /\ current' \in BOOLEAN /\ settled' \in BOOLEAN
    BY <1>11 DEF HandleAccessories
  <2> QED
    BY <1>0, <1>t, <1>1, <2>1 DEF DatabaseBasics, DatabaseTypeOK, plugin, config, update
<1>12. CASE AccessoriesBuilt
  <2>1. /\ UNCHANGED <<phase, plugin, purge, ids, config, missed, current, awaitsAdvertiser>>
        /\ quarantined' = bridged \cap malformed /\ timer' \in BOOLEAN
        /\ answer' \in {"none", "accessories", "INTERNAL_SERVER_ERROR"} /\ settled' \in BOOLEAN
    BY <1>t, <1>12 DEF AccessoriesBuilt, Noticed
  <2> QED
    BY <1>0, <1>t, <1>2, <2>1 DEF DatabaseBasics, DatabaseTypeOK, plugin, config, ids, update
<1>13. CASE UNCHANGED databaseVars
  <2>1. /\ UNCHANGED <<phase, plugin, quarantined, purge, ids, config, update, answer,
                       current, settled, awaitsAdvertiser>>
    BY <1>13 DEF databaseVars, controller
  <2> QED
    BY <1>0, <1>t, <1>2, <2>1 DEF DatabaseBasics, DatabaseTypeOK, plugin, config, ids, update
<1> QED
  BY <1>4, <1>a, <1>5, <1>6, <1>7, <1>p, <1>8, <1>9, <1>10, <1>11, <1>12, <1>13 DEF DatabaseNext

\* The types of the database hold, and no two accessories and no two services
\* of one have the same id in the cache (IdentifierCache), at any moment.
THEOREM DatabaseAlwaysBasics == DatabaseSpec => []DatabaseBasics
<1> QED
  BY DatabaseInitBasics, DatabaseBasicsPreserved, PTL DEF DatabaseSpec

\* An accessory and a service that stay keep their ids.
StayingKeepsIds ==
  /\ \A a \in bridged \cap bridged' :
       aid[a] # 0 /\ aid[a] = cache.aid[a] => aid'[a] = aid[a] /\ cache'.aid[a] = aid[a]
  /\ \A a \in Attached \cap ({Root} \cup bridged') : \A s \in services[a] \cap services'[a] :
       iid[a][s] # 0 /\ iid[a][s] = cache.iid[a][s]
         => iid'[a][s] = iid[a][s] /\ cache'.iid[a][s] = iid[a][s]

\* An accessory or a service that stays keeps its ids, whatever is added,
\* removed, purged or asked for while the program runs (_assignIDs).
THEOREM IdsAlwaysStable == DatabaseSpec => StableIds
<1>1. DatabaseBasics /\ [DatabaseNext]_databaseVars =>
        [phase # "down" /\ phase' # "down" => StayingKeepsIds]_databaseVars
  <2> SUFFICES ASSUME DatabaseBasics, DatabaseNext, phase # "down", phase' # "down"
               PROVE  StayingKeepsIds
    OBVIOUS
  <2>1. ASSUME UNCHANGED ids PROVE StayingKeepsIds
    BY <2>1 DEF ids, StayingKeepsIds
  <2>2. ASSUME NEW expire \in BOOLEAN, AssignIDs(expire) PROVE StayingKeepsIds
    <3>1. DatabaseTypeOK /\ CacheDistinct
      BY DEF DatabaseBasics
    <3>2. /\ \A a \in bridged : aid'[a] = cache'.aid[a]
          /\ \A a \in Attached : \A s \in services[a] : iid'[a][s] = cache'.iid[a][s]
          /\ Remembered(expire)
      BY <2>2, <3>1, AssignIDsNumbers
    <3>3. bridged \subseteq Bridged /\ Attached \subseteq Accessories /\ \A a \in Accessories : services[a] \subseteq Services
      BY <3>1 DEF DatabaseTypeOK, Attached, Accessories
    <3> QED
      BY <3>2, <3>3 DEF Remembered, StayingKeepsIds
  <2>3. (\E a \in Bridged : RemoveBridgedAccessory(a) \/ AssignPerms(a)) => UNCHANGED ids
    BY DEF RemoveBridgedAccessory, AssignPerms, Changed, PluginChanges, ids
  <2>a. ASSUME NEW a \in Bridged, NEW fresh \in BOOLEAN, AddBridgedAccessory(a, fresh)
        PROVE  StayingKeepsIds
    <3>1. /\ cache' = cache /\ services' = services /\ a \notin bridged /\ a # Root
          /\ aid' = [aid EXCEPT ![a] = 0] \/ aid' = aid
          /\ iid' = [iid EXCEPT ![a] = NoIds[a]] \/ iid' = iid
      BY <2>a, DatabaseAssumption DEF AddBridgedAccessory, PluginChanges
    <3>2. /\ aid \in [Accessories -> Nat] /\ iid \in [Accessories -> [Services -> Nat]]
          /\ bridged \subseteq Accessories /\ Attached \subseteq Accessories /\ Attached = {Root} \cup bridged
      BY DEF DatabaseBasics, DatabaseTypeOK, Attached, Accessories
    <3>3. \A b \in Attached : aid'[b] = aid[b] /\ iid'[b] = iid[b]
      BY <3>1, <3>2
    <3> QED
      BY <3>1, <3>2, <3>3 DEF StayingKeepsIds
  <2>4. (\E a \in Accessories, s \in Services : AddService(a, s) \/ RemoveService(a, s)) => UNCHANGED ids
    BY DEF AddService, RemoveService, Changed, PluginChanges, ids
  <2>5. CASE PurgeUnusedIDs
    BY <2>2, <2>5 DEF PurgeUnusedIDs
  <2>6. ~ Publish /\ ~ PublishFails /\ ~ (\E B \in SUBSET Bridged, S \in [Accessories -> SUBSET Services] : Restart(B, S))
    BY DEF Publish, PublishFails, Restart
  <2>7. AdvertiserAvailable \/ AccessoriesBuilt => UNCHANGED ids
    BY DEF AdvertiserAvailable, AccessoriesBuilt
  <2>8. purge \in BOOLEAN
    BY DEF DatabaseBasics, DatabaseTypeOK
  <2>9. CASE ConfigurationUpdate
    BY <2>1, <2>2, <2>8, <2>9 DEF ConfigurationUpdate
  <2>10. CASE HandleAccessories
    BY <2>2, <2>8, <2>10 DEF HandleAccessories
  <2> QED
    BY <2>1, <2>3, <2>a, <2>4, <2>5, <2>6, <2>7, <2>9, <2>10 DEF DatabaseNext
<1> QED
  BY <1>1, DatabaseAlwaysBasics, PTL DEF DatabaseSpec, StableIds, StayingKeepsIds

\* Ids that were served are in the cache, and so are those the objects carry.
Stands(x) ==
  /\ x[3] \in Accessories /\ x[4] \in Services
  /\ x[3] = Root => x[1] = 1
  /\ x[3] # Root => x[1] = cache.aid[x[3]] /\ x[1] # 0
  /\ x[2] = cache.iid[x[3]][x[4]] /\ x[2] # 0

GivenIsCached ==
  /\ \A a \in Bridged : aid[a] \in {0, cache.aid[a]}
  /\ \A a \in Accessories, s \in Services : iid[a][s] \in {0, cache.iid[a][s]}
  /\ fetching # NotFetching =>
       /\ fetching[1] = 1
       /\ \A p \in fetching[2] : p[2] \in Services /\ p[1] = cache.iid[Root][p[2]] /\ p[1] # 0
  /\ \A x \in given : Stands(x)

\* What is in the cache for good keeps what was served what it was.
LEMMA StandsForGood ==
  ASSUME DatabaseBasics, Remembered(FALSE), NEW x, Stands(x)
  PROVE  Stands(x)'
<1>1. /\ x[3] \in Accessories /\ x[4] \in Services
      /\ x[3] # Root => x[3] \in Bridged
  BY DEF Stands, Accessories
<1>2. x[3] # Root => cache'.aid[x[3]] = cache.aid[x[3]]
  BY <1>1 DEF Remembered, Stands
<1>3. cache'.iid[x[3]][x[4]] = cache.iid[x[3]][x[4]]
  BY <1>1 DEF Remembered, Stands
<1> QED
  BY <1>2, <1>3 DEF Stands

\* If nothing is purged, what was served stays in the cache when ids are assigned.
LEMMA AssignIDsKeepsGiven ==
  ASSUME DatabaseBasics, GivenIsCached, AssignIDs(FALSE), given' = given
  PROVE  /\ \A a \in Bridged : aid'[a] \in {0, cache'.aid[a]}
         /\ \A a \in Accessories, s \in Services : iid'[a][s] \in {0, cache'.iid[a][s]}
         /\ fetching # NotFetching =>
              /\ fetching[1] = 1
              /\ \A p \in fetching[2] : p[2] \in Services /\ p[1] = cache'.iid[Root][p[2]] /\ p[1] # 0
         /\ \A x \in given' : Stands(x)'
<1> USE DatabaseAssumption
<1>1. DatabaseTypeOK /\ CacheDistinct
  BY DEF DatabaseBasics
<1>2. /\ \A a \in bridged : aid'[a] = cache'.aid[a]
      /\ \A a \in Attached : \A s \in services[a] : iid'[a][s] = cache'.iid[a][s]
      /\ Remembered(FALSE) /\ OthersKeep
  BY <1>1, AssignIDsNumbers
<1>3. /\ Bridged \subseteq Accessories /\ Root \notin Bridged /\ Root \in Accessories
      /\ Attached = {Root} \cup bridged /\ bridged \subseteq Bridged
  BY <1>1 DEF Attached, Accessories, DatabaseTypeOK
<1>4. ASSUME NEW a \in Bridged
      PROVE  aid'[a] \in {0, cache'.aid[a]}
  <2>1. CASE a \in bridged
    BY <1>2, <2>1
  <2>2. CASE a \notin bridged
    <3>1. aid'[a] = aid[a]
      BY <1>2, <1>3, <2>2 DEF OthersKeep
    <3>2. aid[a] = 0 \/ (aid[a] # 0 /\ aid[a] = cache.aid[a])
      BY DEF GivenIsCached
    <3>3. cache.aid[a] # 0 => cache'.aid[a] = cache.aid[a]
      BY <1>2 DEF Remembered
    <3> QED
      BY <3>1, <3>2, <3>3
  <2> QED
    BY <2>1, <2>2
<1>5. ASSUME NEW a \in Accessories, NEW s \in Services
      PROVE  iid'[a][s] \in {0, cache'.iid[a][s]}
  <2>1. CASE a \in Attached /\ s \in services[a]
    BY <1>2, <2>1
  <2>2. CASE ~(a \in Attached /\ s \in services[a])
    <3>1. iid'[a][s] = iid[a][s]
      BY <1>2, <2>2 DEF OthersKeep
    <3>2. iid[a][s] = 0 \/ (iid[a][s] # 0 /\ iid[a][s] = cache.iid[a][s])
      BY DEF GivenIsCached
    <3>3. cache.iid[a][s] # 0 => cache'.iid[a][s] = cache.iid[a][s]
      BY <1>2 DEF Remembered
    <3> QED
      BY <3>1, <3>2, <3>3
  <2> QED
    BY <2>1, <2>2
<1>6. ASSUME fetching # NotFetching, NEW p \in fetching[2]
      PROVE  fetching[1] = 1 /\ p[2] \in Services /\ p[1] = cache'.iid[Root][p[2]] /\ p[1] # 0
  <2>1. p[2] \in Services /\ p[1] = cache.iid[Root][p[2]] /\ p[1] # 0 /\ fetching[1] = 1
    BY <1>6 DEF GivenIsCached
  <2>2. cache'.iid[Root][p[2]] = cache.iid[Root][p[2]]
    BY <1>2, <1>3, <2>1 DEF Remembered
  <2> QED
    BY <2>1, <2>2
<1>7. fetching # NotFetching => fetching[1] = 1
  BY DEF GivenIsCached
<1>8. \A x \in given' : Stands(x)'
  <2> SUFFICES ASSUME NEW x \in given PROVE Stands(x)'
    BY DEF Stands
  <2> QED
    BY <1>2, StandsForGood DEF GivenIsCached
<1> QED
  BY <1>4, <1>5, <1>6, <1>7, <1>8

\* If nothing is purged, what was served stays in the cache.
LEMMA GivenPreserved ==
  ASSUME PurgeUnused = FALSE
  PROVE  DatabaseBasics /\ GivenIsCached /\ [DatabaseNext]_databaseVars => GivenIsCached'
<1> SUFFICES ASSUME DatabaseBasics, GivenIsCached, [DatabaseNext]_databaseVars PROVE GivenIsCached'
  OBVIOUS
<1> USE DatabaseAssumption
<1>0. /\ purge = FALSE /\ DatabaseTypeOK /\ (phase \notin {"down", "failed"} => aid[Root] = 1)
      /\ bridged \subseteq Bridged /\ services \in [Accessories -> SUBSET Services]
      /\ Bridged \subseteq Accessories /\ Root \notin Bridged /\ Root \in Accessories
  BY DEF DatabaseBasics, DatabaseTypeOK, Accessories
<1>1. ASSUME UNCHANGED <<ids, fetching, given>> PROVE GivenIsCached'
  BY <1>1 DEF ids, GivenIsCached, Stands
<1>2. ASSUME AssignIDs(FALSE), UNCHANGED <<fetching, given>> PROVE GivenIsCached'
  <2>1. /\ \A a \in Bridged : aid'[a] \in {0, cache'.aid[a]}
        /\ \A a \in Accessories, s \in Services : iid'[a][s] \in {0, cache'.iid[a][s]}
        /\ fetching # NotFetching =>
              /\ fetching[1] = 1
              /\ \A p \in fetching[2] : p[2] \in Services /\ p[1] = cache'.iid[Root][p[2]] /\ p[1] # 0
        /\ \A x \in given' : Stands(x)'
    BY <1>2, AssignIDsKeepsGiven
  <2> QED
    BY <1>2, <2>1 DEF GivenIsCached, Stands
<1>3. (\E a \in Bridged : RemoveBridgedAccessory(a) \/ AssignPerms(a))
        => UNCHANGED <<ids, fetching, given>>
  BY DEF RemoveBridgedAccessory, AssignPerms, Changed, PluginChanges, ids, controller
<1>a. ASSUME NEW b \in Bridged, NEW fresh \in BOOLEAN, AddBridgedAccessory(b, fresh)
      PROVE  GivenIsCached'
  <2>1. /\ UNCHANGED <<cache, fetching, given>>
        /\ aid' = [aid EXCEPT ![b] = 0] \/ aid' = aid
        /\ iid' = [iid EXCEPT ![b] = NoIds[b]] \/ iid' = iid
    BY <1>a DEF AddBridgedAccessory, PluginChanges, controller
  <2>2. aid \in [Accessories -> Nat] /\ iid \in [Accessories -> [Services -> Nat]]
    BY <1>0 DEF DatabaseTypeOK
  <2>3. \A a \in Bridged : aid'[a] \in {0, cache'.aid[a]}
    BY <1>0, <2>1, <2>2 DEF GivenIsCached
  <2>4. \A a \in Accessories, s \in Services : iid'[a][s] \in {0, cache'.iid[a][s]}
    BY <2>1, <2>2 DEF GivenIsCached, NoIds
  <2> QED
    BY <2>1, <2>3, <2>4 DEF GivenIsCached, Stands
<1>4. (\E a \in Accessories, s \in Services : AddService(a, s) \/ RemoveService(a, s))
        => UNCHANGED <<ids, fetching, given>>
  BY DEF AddService, RemoveService, Changed, PluginChanges, ids, controller
<1>5. ~ PurgeUnusedIDs
  BY DEF PurgeUnusedIDs
<1>6. CASE Publish
  <2>1. (purge /\ bridged # {}) = FALSE
    BY <1>0
  <2>2. AssignIDs(FALSE) /\ UNCHANGED <<fetching, given>>
    BY <1>6, <2>1 DEF Publish, controller
  <2> QED
    BY <1>2, <2>2
<1>p. CASE PublishFails
  BY <1>1, <1>p DEF PublishFails, controller
<1>7. CASE AdvertiserAvailable
  BY <1>1, <1>7 DEF AdvertiserAvailable, controller
<1>8. CASE ConfigurationUpdate
  <2>1. UNCHANGED <<fetching, given>> /\ (AssignIDs(FALSE) \/ UNCHANGED ids)
    BY <1>0, <1>8 DEF ConfigurationUpdate, controller
  <2> QED
    BY <1>1, <1>2, <2>1
<1>9. ASSUME NEW B \in SUBSET Bridged, NEW S \in [Accessories -> SUBSET Services], Restart(B, S)
      PROVE  GivenIsCached'
  <2>1. /\ cache' = cache /\ given' = given /\ fetching' = NotFetching
        /\ \A a \in Bridged : aid'[a] = 0
        /\ \A a \in Accessories, s \in Services : iid'[a][s] = 0
    BY <1>0, <1>9 DEF Restart, NoIds
  <2> QED
    BY <2>1 DEF GivenIsCached, Stands
<1>10. CASE HandleAccessories
  <2>1. AssignIDs(FALSE) /\ given' = given /\ fetching' = View(Root, aid', iid') /\ UNCHANGED <<services, bridged>>
    BY <1>0, <1>10 DEF HandleAccessories, plugin
  <2>2. /\ \A a \in Bridged : aid'[a] \in {0, cache'.aid[a]}
        /\ \A a \in Accessories, s \in Services : iid'[a][s] \in {0, cache'.iid[a][s]}
        /\ \A x \in given' : Stands(x)'
    BY <2>1, AssignIDsKeepsGiven
  <2>3. /\ aid'[Root] = 1
        /\ \A s \in services[Root] : iid'[Root][s] = cache'.iid[Root][s] /\ iid'[Root][s] # 0
    <3>1. DatabaseTypeOK /\ CacheDistinct /\ Root \in Attached
      BY DEF DatabaseBasics, Attached
    <3> QED
      BY <2>1, <3>1, AssignIDsNumbers
  <2>4. /\ fetching'[1] = 1
        /\ fetching'[2] = {<<iid'[Root][s], s>> : s \in services[Root]}
    BY <2>1, <2>3 DEF View
  <2>5. ASSUME NEW p \in fetching'[2]
        PROVE  p[2] \in Services /\ p[1] = cache'.iid[Root][p[2]] /\ p[1] # 0
    <3>1. PICK s \in services[Root] : p = <<iid'[Root][s], s>>
      BY <2>4
    <3>2. s \in Services
      BY <1>0
    <3> QED
      BY <2>3, <3>1, <3>2
  <2> QED
    BY <2>2, <2>4, <2>5 DEF GivenIsCached, Stands
<1>11. CASE AccessoriesBuilt
  <2>1. fetching # NotFetching /\ fetching' = NotFetching /\ UNCHANGED ids
    BY <1>11 DEF AccessoriesBuilt
  <2>2. CASE Unassigned # {}
    <3>1. given' = given
      BY <1>11, <2>2 DEF AccessoriesBuilt
    <3> QED
      BY <2>1, <3>1 DEF GivenIsCached, Stands, ids
  <2>3. CASE Unassigned = {}
    <3>1. given' = given \cup {<<fetching[1], p[1], Root, p[2]>> : p \in fetching[2]}
                         \cup UNION {{<<aid[a], iid[a][s], a, s>> : s \in services[a]} : a \in Served}
      BY <1>11, <2>3 DEF AccessoriesBuilt
    <3>2. ASSUME NEW p \in fetching[2]
          PROVE  Stands(<<fetching[1], p[1], Root, p[2]>>)
      <4>1. fetching[1] = 1 /\ p[2] \in Services /\ p[1] = cache.iid[Root][p[2]] /\ p[1] # 0
        BY <2>1 DEF GivenIsCached
      <4> QED
        BY <1>0, <4>1 DEF Stands
    <3>3. ASSUME NEW a \in Served, NEW s \in services[a]
          PROVE  Stands(<<aid[a], iid[a][s], a, s>>)
      <4>1. a \in Bridged /\ a \in Accessories /\ s \in Services /\ a # Root
        BY <1>0 DEF Served
      <4>2. aid[a] # 0 /\ iid[a][s] # 0
        BY <2>3 DEF Unassigned
      <4>3. aid[a] = cache.aid[a] /\ iid[a][s] = cache.iid[a][s]
        BY <4>1, <4>2 DEF GivenIsCached
      <4> QED
        BY <4>1, <4>2, <4>3 DEF Stands
    <3>4. ASSUME NEW x \in given'
          PROVE  Stands(x)
      <4>1. CASE x \in given
        BY <4>1 DEF GivenIsCached
      <4>2. CASE x \in {<<fetching[1], p[1], Root, p[2]>> : p \in fetching[2]}
        BY <3>2, <4>2
      <4>3. CASE x \in UNION {{<<aid[a], iid[a][s], a, s>> : s \in services[a]} : a \in Served}
        BY <3>3, <4>3
      <4> QED
        BY <3>1, <4>1, <4>2, <4>3
    <3> QED
      BY <2>1, <3>4 DEF GivenIsCached, Stands, ids
  <2> QED
    BY <2>2, <2>3
<1>12. CASE UNCHANGED databaseVars
  BY <1>1, <1>12 DEF databaseVars, controller
<1> QED
  BY <1>1, <1>3, <1>a, <1>4, <1>5, <1>6, <1>p, <1>7, <1>8, <1>9, <1>10, <1>11, <1>12 DEF DatabaseNext

\* What was served and stands in the cache is unique, as the ids in the cache are.
LEMMA GivenIsForEver ==
  ASSUME DatabaseBasics, GivenIsCached
  PROVE  IdsForEver
<1> USE DatabaseAssumption
<1>1. /\ Distinct(cache.aid, cache.nextAID, Bridged)
      /\ \A a \in Accessories : Distinct(cache.iid[a], cache.nextIID[a], Services)
  BY DEF DatabaseBasics, CacheDistinct
<1>2. IdsKept
  <2> SUFFICES ASSUME NEW x \in given, NEW y \in given, x[3] = y[3], x[4] = y[4]
               PROVE  x[1] = y[1] /\ x[2] = y[2]
    BY DEF IdsKept
  <2> QED
    BY DEF GivenIsCached, Stands
<1>3. IdsNotReused
  <2> SUFFICES ASSUME NEW x \in given, NEW y \in given, x[1] = y[1], x[2] = y[2]
               PROVE  x[3] = y[3] /\ x[4] = y[4]
    BY DEF IdsNotReused
  <2>1. Stands(x) /\ Stands(y)
    BY DEF GivenIsCached
  <2>2. \A a \in Bridged : cache.aid[a] # 0 => cache.aid[a] # 1
    BY <1>1 DEF Distinct
  <2>3. x[3] = Root <=> y[3] = Root
    BY <2>1, <2>2 DEF Stands, Accessories
  <2>4. x[3] = y[3]
    <3>1. CASE x[3] = Root
      BY <2>3, <3>1
    <3>2. CASE x[3] # Root
      <4>1. x[3] \in Bridged /\ y[3] \in Bridged /\ cache.aid[x[3]] = cache.aid[y[3]] /\ cache.aid[x[3]] # 0
        BY <2>1, <2>3, <3>2 DEF Stands, Accessories
      <4> QED
        BY <1>1, <4>1 DEF Distinct
    <3> QED
      BY <3>1, <3>2
  <2>5. x[4] = y[4]
    <3>1. x[3] \in Accessories /\ x[4] \in Services /\ y[4] \in Services
          /\ cache.iid[x[3]][x[4]] = cache.iid[x[3]][y[4]] /\ cache.iid[x[3]][x[4]] # 0
      BY <2>1, <2>4 DEF Stands
    <3> QED
      BY <1>1, <3>1 DEF Distinct
  <2> QED
    BY <2>4, <2>5
<1> QED
  BY <1>2, <1>3 DEF IdsForEver, DatabaseBasics

\* While nothing is purged, an id that a controller was served stands for one
\* accessory and service for ever, over restarts, removals and additions, and
\* each of them always has the same ids (IdentifierCache, _assignIDs).
THEOREM IdsAlwaysForEver ==
  ASSUME PurgeUnused = FALSE
  PROVE  DatabaseSpec => []IdsForEver
<1>1. DatabaseInit => GivenIsCached
  <2> SUFFICES ASSUME DatabaseInit PROVE GivenIsCached
    OBVIOUS
  <2>1. \A a \in Bridged : aid[a] \in {0, cache.aid[a]}
    BY DEF DatabaseInit, Accessories
  <2>2. \A a \in Accessories, s \in Services : iid[a][s] \in {0, cache.iid[a][s]}
    BY DEF DatabaseInit, NoIds
  <2>3. fetching = NotFetching /\ given = {}
    BY DEF DatabaseInit
  <2> QED
    BY <2>1, <2>2, <2>3 DEF GivenIsCached
<1>2. DatabaseBasics /\ GivenIsCached /\ [DatabaseNext]_databaseVars => GivenIsCached'
  BY GivenPreserved
<1>3. DatabaseBasics /\ GivenIsCached => IdsForEver
  BY GivenIsForEver
<1> QED
  BY <1>1, <1>2, <1>3, DatabaseAlwaysBasics, PTL DEF DatabaseSpec

\* The database as the last hash saw it: without the accessories that were quarantined then.
Noted == {View(a, aid, iid) : a \in {Root} \cup (bridged \ quarantined)}

\* Unless an update is pending or was missed, the hash is that of the database; what a controller with the
\* current number has is what that hash was taken of.
AnnouncedIInv ==
  /\ fetching # NotFetching => phase = "published"
  /\ phase \in {"publishing", "published"} /\ ~timer /\ ~missed => Assigned /\ configHash = Noted
  /\ fetching # NotFetching /\ settled /\ current => fetching \in configHash /\ fetching[1] = 1
  /\ settled /\ current /\ fetched # {} => fetched = configHash

\* Assigning ids to accessories that have them all changes nothing.
LEMMA AssignedStays ==
  ASSUME DatabaseBasics, Assigned, NEW expire \in BOOLEAN, AssignIDs(expire),
         UNCHANGED <<bridged, services, quarantined>>
  PROVE  /\ Assigned' /\ Noted' = Noted
         /\ View(Root, aid', iid') = View(Root, aid, iid)
<1> USE DatabaseAssumption
<1>1. /\ bridged \subseteq Bridged /\ services \in [Accessories -> SUBSET Services]
      /\ Attached = {Root} \cup bridged /\ Attached \subseteq Accessories /\ Attached' = Attached
  BY DEF DatabaseBasics, DatabaseTypeOK, Attached, Accessories
<1>2. /\ aid'[Root] = 1
      /\ \A a \in bridged : aid'[a] = cache'.aid[a] /\ aid'[a] # 0
      /\ \A a \in Attached : \A s \in services[a] : iid'[a][s] = cache'.iid[a][s] /\ iid'[a][s] # 0
      /\ Remembered(expire)
  <2>1. DatabaseTypeOK /\ CacheDistinct
    BY DEF DatabaseBasics
  <2> QED
    BY <2>1, AssignIDsNumbers
<1>3. Assigned'
  BY <1>1, <1>2 DEF Assigned
<1>4. \A a \in Attached : aid'[a] = aid[a]
  <2>1. aid'[Root] = aid[Root]
    BY <1>2 DEF Assigned
  <2>2. \A a \in bridged : aid'[a] = aid[a]
    BY <1>1, <1>2 DEF Assigned, Remembered
  <2> QED
    BY <1>1, <2>1, <2>2
<1>5. \A a \in Attached : \A s \in services[a] : iid'[a][s] = iid[a][s]
  BY <1>1, <1>2 DEF Assigned, Remembered
<1>6. \A a \in Attached : View(a, aid', iid') = View(a, aid, iid)
  BY <1>4, <1>5 DEF View
<1>7. /\ Noted = {View(a, aid, iid) : a \in {Root} \cup (bridged \ quarantined)}
      /\ Noted' = {View(a, aid', iid') : a \in {Root} \cup (bridged \ quarantined)}
  BY DEF Noted, View
<1>8. {Root} \cup (bridged \ quarantined) \subseteq Attached
  BY <1>1
<1>9. Noted' = Noted
  BY <1>6, <1>7, <1>8
<1> QED
  BY <1>1, <1>3, <1>6, <1>9

\* A checked configuration is that of the database.
LEMMA CheckedIsNoted ==
  ASSUME DatabaseBasics, NEW expire \in BOOLEAN, AssignIDs(expire), CheckIncrement, Noticed,
         UNCHANGED <<bridged, services, malformed>>
  PROVE  /\ Assigned' /\ configHash' = Noted'
         /\ current' => current /\ configHash' = configHash
         /\ missed' = FALSE
<1> USE DatabaseAssumption
<1>1. Assigned'
  <2>1. DatabaseTypeOK /\ CacheDistinct /\ Attached' = Attached
    BY DEF DatabaseBasics, Attached
  <2>2. /\ aid'[Root] = 1
        /\ \A a \in bridged : aid'[a] = cache'.aid[a] /\ aid'[a] # 0
        /\ \A a \in Attached : \A s \in services[a] : iid'[a][s] = cache'.iid[a][s] /\ iid'[a][s] # 0
    BY <2>1, AssignIDsNumbers
  <2> QED
    BY <2>1, <2>2 DEF Assigned
<1>2. Noted' = {View(a, aid', iid') : a \in {Root} \cup (bridged \ quarantined')}
  BY DEF Noted, View
<1>3. bridged \ quarantined' = Served
  BY DEF Noticed, Served
<1>4. configHash' = {View(a, aid', iid') : a \in {Root} \cup Served}
  BY DEF CheckIncrement, Database
<1>5. current' => current /\ configHash' = configHash
  <2>1. current \in BOOLEAN
    BY DEF DatabaseBasics, DatabaseTypeOK
  <2> QED
    BY <2>1 DEF CheckIncrement
<1>6. missed' = FALSE
  BY DEF CheckIncrement
<1> QED
  BY <1>1, <1>2, <1>3, <1>4, <1>5, <1>6

\* Every step keeps the hash up to date, or an update pending or known to be missed.
LEMMA AnnouncedPreserved ==
  DatabaseBasics /\ AnnouncedIInv /\ [DatabaseNext]_databaseVars => AnnouncedIInv'
<1> SUFFICES ASSUME DatabaseBasics, AnnouncedIInv, [DatabaseNext]_databaseVars
             PROVE  AnnouncedIInv'
  OBVIOUS
<1> USE DatabaseAssumption
<1>0. /\ DatabaseTypeOK /\ CacheDistinct /\ bridged \subseteq Bridged
      /\ timer \in BOOLEAN /\ missed \in BOOLEAN /\ purge \in BOOLEAN /\ settled \in BOOLEAN /\ current \in BOOLEAN
  BY DEF DatabaseBasics, DatabaseTypeOK
<1>i. /\ fetching # NotFetching => phase = "published"
      /\ phase \in {"publishing", "published"} /\ ~timer /\ ~missed => Assigned /\ configHash = Noted
      /\ fetching # NotFetching /\ settled /\ current => fetching \in configHash /\ fetching[1] = 1
      /\ settled /\ current /\ fetched # {} => fetched = configHash
  BY DEF AnnouncedIInv
<1>1. ASSUME UNCHANGED <<phase, fetching, fetched, settled, current, configHash>>, timer' = TRUE \/ missed' = TRUE
      PROVE  AnnouncedIInv'
  BY <1>i, <1>1 DEF AnnouncedIInv
<1>2. ASSUME UNCHANGED <<phase, fetching, fetched, settled, current, configHash, update>>,
             UNCHANGED <<ids, bridged, services, quarantined>>
      PROVE  AnnouncedIInv'
  BY <1>i, <1>2 DEF AnnouncedIInv, Noted, Assigned, View, Attached, ids, update
<1>3. ASSUME NEW a \in Bridged, RemoveBridgedAccessory(a)
      PROVE  AnnouncedIInv'
  BY <1>1, <1>3 DEF RemoveBridgedAccessory, Changed, PluginChanges, controller, config
<1>a. ASSUME NEW a \in Bridged, NEW fresh \in BOOLEAN, AddBridgedAccessory(a, fresh)
      PROVE  AnnouncedIInv'
  BY <1>1, <1>a DEF AddBridgedAccessory, AddOutcome, PluginChanges, controller, config
<1>4. ASSUME NEW a \in Bridged, AssignPerms(a)
      PROVE  AnnouncedIInv'
  BY <1>2, <1>4 DEF AssignPerms, PluginChanges, ids, controller, config
<1>5. ASSUME NEW a \in Accessories, NEW s \in Services, AddService(a, s) \/ RemoveService(a, s)
      PROVE  AnnouncedIInv'
  BY <1>1, <1>5 DEF AddService, RemoveService, Changed, PluginChanges, controller, config
<1>6. ASSUME NEW expire \in BOOLEAN, AssignIDs(expire),
             UNCHANGED <<phase, fetching, fetched, settled, current, configHash, update>>,
             UNCHANGED <<bridged, services, quarantined>>
      PROVE  AnnouncedIInv'
  <2>1. Assigned => Assigned' /\ Noted' = Noted
    BY <1>6, AssignedStays
  <2> QED
    BY <1>i, <1>6, <2>1 DEF AnnouncedIInv, update
<1>7. CASE PurgeUnusedIDs
  <2>1. AssignIDs(TRUE) /\ UNCHANGED <<phase, fetching, fetched, settled, current, configHash, update>>
        /\ UNCHANGED <<bridged, services, quarantined>>
    BY <1>7 DEF PurgeUnusedIDs, plugin, controller, config
  <2> QED
    BY <1>6, <2>1
<1>8. ASSUME NEW expire \in BOOLEAN, AssignIDs(expire), CheckIncrement, Noticed,
             UNCHANGED <<bridged, services, malformed, fetching, fetched, settled>>,
             fetching # NotFetching => phase' = "published"
      PROVE  AnnouncedIInv'
  <2>1. /\ Assigned' /\ configHash' = Noted'
        /\ current' => current /\ configHash' = configHash
    BY <1>8, CheckedIsNoted
  <2> QED
    BY <1>i, <1>8, <2>1 DEF AnnouncedIInv
<1>9. CASE Publish
  <2>1. (purge /\ bridged # {}) \in BOOLEAN
    OBVIOUS
  <2>2. /\ AssignIDs(purge /\ bridged # {}) /\ CheckIncrement /\ Noticed /\ fetching = NotFetching
        /\ UNCHANGED <<bridged, services, malformed, fetching, fetched, settled>>
    BY <1>i, <1>9 DEF Publish, plugin, controller
  <2> QED
    BY <1>8, <2>1, <2>2
<1>p. CASE PublishFails
  <2>1. phase' = "failed" /\ phase = "down" /\ UNCHANGED <<fetching, fetched, settled, current, configHash>>
    BY <1>p DEF PublishFails, controller, config
  <2> QED
    BY <1>i, <2>1 DEF AnnouncedIInv
<1>10. CASE AdvertiserAvailable
  <2>1. /\ phase = "publishing" /\ phase' = "published"
        /\ UNCHANGED <<fetching, fetched, settled, current, configHash, update, ids, bridged, services, quarantined>>
    BY <1>10 DEF AdvertiserAvailable, plugin, controller, config
  <2>2. Assigned => Assigned'
    BY <2>1 DEF Assigned, Attached, ids
  <2>3. Noted' = Noted
    BY <2>1 DEF Noted, View, ids
  <2> QED
    BY <1>i, <2>1, <2>2, <2>3 DEF AnnouncedIInv, update
<1>11. CASE ConfigurationUpdate
  <2>1. CASE phase = "published"
    <3>1. /\ AssignIDs(purge) /\ CheckIncrement /\ Noticed /\ phase' = "published"
          /\ UNCHANGED <<bridged, services, malformed, fetching, fetched, settled>>
      BY <1>11, <2>1 DEF ConfigurationUpdate, plugin, controller
    <3> QED
      BY <1>0, <1>8, <3>1
  <2>2. CASE phase # "published"
    <3>1. UNCHANGED <<phase, fetching, fetched, settled, current, configHash>> /\ missed' = TRUE
      BY <1>11, <2>2 DEF ConfigurationUpdate, plugin, controller, config
    <3> QED
      BY <1>i, <2>2, <3>1 DEF AnnouncedIInv
  <2> QED
    BY <2>1, <2>2
<1>12. ASSUME NEW B \in SUBSET Bridged, NEW S \in [Accessories -> SUBSET Services], Restart(B, S)
       PROVE  AnnouncedIInv'
  <2>1. phase' = "down" /\ fetching' = NotFetching /\ UNCHANGED <<fetched, settled, current, configHash>>
    BY <1>12 DEF Restart, config
  <2> QED
    BY <1>i, <2>1 DEF AnnouncedIInv
<1>13. CASE HandleAccessories
  <2>1. /\ AssignIDs(purge) /\ fetching' = View(Root, aid', iid') /\ settled' = (~timer /\ ~missed) /\ fetched' = {}
        /\ phase = "published" /\ UNCHANGED <<phase, configHash, update, bridged, services, quarantined>>
    BY <1>13 DEF HandleAccessories, plugin, config
  <2>2. Assigned => Assigned' /\ Noted' = Noted /\ View(Root, aid', iid') = View(Root, aid, iid)
    BY <1>0, <2>1, AssignedStays
  <2>3. settled' => fetching' \in configHash' /\ fetching'[1] = 1
    <3> SUFFICES ASSUME settled' PROVE fetching' \in configHash' /\ fetching'[1] = 1
      OBVIOUS
    <3>1. ~timer /\ ~missed
      BY <1>0, <2>1
    <3>2. Assigned /\ configHash = Noted
      BY <1>i, <2>1, <3>1
    <3>3. fetching' = View(Root, aid, iid)
      BY <2>1, <2>2, <3>2
    <3>4. View(Root, aid, iid) \in Noted
      BY DEF Noted
    <3>5. View(Root, aid, iid)[1] = 1
      BY <3>2 DEF View, Assigned
    <3> QED
      BY <2>1, <3>2, <3>3, <3>4, <3>5
  <2> QED
    BY <1>i, <2>1, <2>2, <2>3 DEF AnnouncedIInv, update
<1>14. CASE AccessoriesBuilt
  <2>1. /\ fetching # NotFetching /\ fetching' = NotFetching
        /\ quarantined' = bridged \cap malformed /\ timer' = (timer \/ quarantined' # quarantined)
        /\ UNCHANGED <<phase, bridged, services, ids, configHash, current, missed>>
    BY <1>14 DEF AccessoriesBuilt, Noticed, plugin, config
  <2>2. phase = "published"
    BY <1>i, <2>1
  <2>3. ~timer' => ~timer /\ quarantined' = quarantined
    BY <1>0, <2>1
  <2>4. ~timer' /\ ~missed' => Assigned' /\ configHash' = Noted'
    <3> SUFFICES ASSUME ~timer', ~missed' PROVE Assigned' /\ configHash' = Noted'
      OBVIOUS
    <3>1. Assigned /\ configHash = Noted /\ quarantined' = quarantined
      BY <1>i, <2>1, <2>2, <2>3
    <3> QED
      BY <2>1, <3>1 DEF Assigned, Noted, View, Attached, ids
  <2>5. CASE Unassigned # {}
    <3>1. UNCHANGED <<fetched, settled>>
      BY <1>14, <2>5 DEF AccessoriesBuilt
    <3> QED
      BY <1>i, <2>1, <2>4, <3>1 DEF AnnouncedIInv
  <2>6. CASE Unassigned = {}
    <3>1. /\ fetched' = {fetching} \cup {View(a, aid, iid) : a \in Served}
          /\ settled' = (settled /\ ~timer' /\ ~missed)
      BY <1>14, <2>6 DEF AccessoriesBuilt
    <3>2. ASSUME settled', current'
          PROVE  fetched' = configHash'
      <4>1. settled /\ ~timer' /\ ~missed /\ current
        BY <1>0, <2>1, <3>1, <3>2
      <4>2. Assigned /\ configHash = Noted /\ quarantined = bridged \cap malformed
        BY <1>i, <2>1, <2>2, <2>3, <4>1
      <4>3. fetching \in Noted /\ fetching[1] = 1
        BY <1>i, <2>1, <4>1, <4>2
      <4>4. bridged \ quarantined = Served
        BY <4>2 DEF Served
      <4>5. PICK a \in {Root} \cup Served : fetching = View(a, aid, iid)
        BY <4>3, <4>4 DEF Noted
      <4>6. a = Root
        <5>1. aid[a] = 1
          BY <4>3, <4>5 DEF View
        <5>2. ASSUME a \in bridged
              PROVE  FALSE
          <6>1. cache.aid[a] = 1 /\ a \in Bridged
            BY <1>0, <4>2, <5>1, <5>2 DEF Assigned
          <6> QED
            BY <1>0, <6>1 DEF CacheDistinct, Distinct
        <5> QED
          BY <5>2 DEF Served
      <4>7. fetched' = {View(b, aid, iid) : b \in {Root} \cup Served}
        BY <3>1, <4>5, <4>6
      <4> QED
        BY <2>1, <4>2, <4>4, <4>7 DEF Noted
    <3> QED
      BY <1>i, <2>1, <2>4, <3>2 DEF AnnouncedIInv
  <2> QED
    BY <2>5, <2>6
<1>15. CASE UNCHANGED databaseVars
  BY <1>2, <1>15 DEF databaseVars, plugin, controller, config
<1> QED
  BY <1>3, <1>a, <1>4, <1>5, <1>7, <1>9, <1>p, <1>10, <1>11, <1>12, <1>13, <1>14, <1>15 DEF DatabaseNext

\* A controller that asked for the database and got it while no update was
\* pending has the database that is served, or is told of a newer one, once
\* nothing is on its way and no update was missed since the last check
\* (enqueueConfigurationUpdate, checkForCurrentConfigurationNumberIncrement,
\* handleAccessories).  An update is missed when it is due before publish has
\* its advertiser, or when linkAccessory throws before it is enqueued.
THEOREM DatabaseAlwaysAnnounced == DatabaseSpec => []DatabaseAnnounced
<1> DEFINE I == DatabaseBasics /\ AnnouncedIInv
<1>1. DatabaseInit => I
  <2>1. DatabaseInit => AnnouncedIInv
    BY DEF DatabaseInit, AnnouncedIInv
  <2> QED
    BY <2>1, DatabaseInitBasics
<1>2. I /\ [DatabaseNext]_databaseVars => I'
  BY DatabaseBasicsPreserved, AnnouncedPreserved
<1>3. I => DatabaseAnnounced
  <2> SUFFICES ASSUME I PROVE DatabaseAnnounced
    OBVIOUS
  <2>1. DatabaseTypeOK
    BY DEF DatabaseBasics
  <2>2. ASSUME ~missed, settled, phase = "published", ~timer, PermissionsNoticed, current, fetched # {}
        PROVE  fetched = Database(aid, iid)
    <3>1. fetched = Noted
      BY <2>2 DEF AnnouncedIInv
    <3>2. bridged \ quarantined = Served
      BY <2>2 DEF PermissionsNoticed, Served
    <3> QED
      BY <3>1, <3>2 DEF Noted, Database
  <2> QED
    BY <2>1, <2>2 DEF DatabaseAnnounced, ConfigurationAnnounced, HasCurrent
<1> QED
  BY <1>1, <1>2, <1>3, PTL DEF DatabaseSpec

-----------------------------------------------------------------------------
(***************************************************************************)
(* The services of an accessory.  What the methods do to a structure is    *)
(* stated one by one, then along the slots of a service map, and only then *)
(* for the actions.                                                        *)
(***************************************************************************)

Structures ==
  [services : Seq(AllServices), flagged : SUBSET AllServices, primary : AllServices \cup {NoService},
   linked : [AllServices -> SUBSET AllServices], types : [AllServices -> SUBSET Types],
   heard : SUBSET AllServices, updates : BOOLEAN, threw : BOOLEAN]

\* No two services of the list have the same UUID and subtype.
NoTwoAlike(list) == \A i, j \in DOMAIN list : Kind[list[i]] = Kind[list[j]] => i = j

\* The accessory listens to the services it has.
Sound(m) == m \in Structures /\ NoTwoAlike(m.services) /\ m.heard = Held(m)

Agrees(m) == m.flagged \cap Held(m) = {m.primary} \ {NoService}

\* They agree apart from s, whose flag has just changed.
AgreesBut(m, s) == (m.flagged \cap Held(m)) \ {s} = {m.primary} \ {NoService, s}

\* A method that enqueues no configuration update changed nothing, or it threw.
Silent(m, n) == n.updates \/ n = [m EXCEPT !.threw = n.threw]

LEMMA NoServiceIsNone == NoService \notin AllServices
  BY ServicesAssumption DEF AllServices

\* The services of a longer list.
LEMMA HeldAfterAppend ==
  ASSUME NEW list \in Seq(AllServices), NEW s \in AllServices
  PROVE  /\ Append(list, s) \in Seq(AllServices)
         /\ ToSet(Append(list, s)) = ToSet(list) \cup {s}
         /\ NoTwoAlike(list) /\ (\A t \in ToSet(list) : Kind[t] # Kind[s]) => NoTwoAlike(Append(list, s))
<1> DEFINE longer == Append(list, s)
<1>1. /\ longer \in Seq(AllServices) /\ Len(list) \in Nat
      /\ DOMAIN list = 1..Len(list) /\ DOMAIN longer = 1..(Len(list) + 1)
      /\ \A i \in 1..Len(list) : longer[i] = list[i]
      /\ longer[Len(list) + 1] = s
  BY AppendProperties
<1>2. ToSet(longer) = ToSet(list) \cup {s}
  <2> HIDE DEF longer
  <2>1. \A x \in ToSet(longer) : x \in ToSet(list) \cup {s}
    <3> SUFFICES ASSUME NEW i \in 1..(Len(list) + 1) PROVE longer[i] \in ToSet(list) \cup {s}
      BY <1>1 DEF ToSet
    <3>1. i \in 1..Len(list) \/ i = Len(list) + 1
      BY <1>1
    <3> QED
      BY <1>1, <3>1 DEF ToSet
  <2>2. \A x \in ToSet(list) : x \in ToSet(longer)
    <3> SUFFICES ASSUME NEW i \in 1..Len(list) PROVE list[i] \in ToSet(longer)
      BY <1>1 DEF ToSet
    <3>1. i \in 1..(Len(list) + 1)
      BY <1>1
    <3> QED
      BY <1>1, <3>1 DEF ToSet
  <2>3. s \in ToSet(longer)
    <3>1. Len(list) + 1 \in 1..(Len(list) + 1)
      BY <1>1
    <3> QED
      BY <1>1, <3>1 DEF ToSet
  <2> QED
    BY <2>1, <2>2, <2>3
<1>3. ASSUME NoTwoAlike(list), \A t \in ToSet(list) : Kind[t] # Kind[s]
      PROVE  NoTwoAlike(longer)
  <2> HIDE DEF longer
  <2> SUFFICES ASSUME NEW i \in 1..(Len(list) + 1), NEW j \in 1..(Len(list) + 1),
                      Kind[longer[i]] = Kind[longer[j]]
               PROVE  i = j
    BY <1>1 DEF NoTwoAlike
  <2>1. (i \in 1..Len(list) \/ i = Len(list) + 1) /\ (j \in 1..Len(list) \/ j = Len(list) + 1)
    BY <1>1
  <2>2. \A k \in 1..Len(list) : Kind[longer[k]] # Kind[s]
    BY <1>1, <1>3 DEF ToSet
  <2> QED
    BY <1>1, <1>3, <2>1, <2>2 DEF NoTwoAlike
<1> QED
  BY <1>1, <1>2, <1>3

\* The services of a list without one of them.
LEMMA HeldAfterRemove ==
  ASSUME NEW list \in Seq(AllServices), NoTwoAlike(list), NEW s \in ToSet(list)
  PROVE  /\ RemoveFirst(list, s) \in Seq(AllServices)
         /\ ToSet(RemoveFirst(list, s)) = ToSet(list) \ {s}
         /\ NoTwoAlike(RemoveFirst(list, s))
<1> DEFINE places == {i \in 1..Len(list) : list[i] = s}
           at     == Min(places)
           before == SubSeq(list, 1, at - 1)
           behind == SubSeq(list, at + 1, Len(list))
           rest   == before \o behind
<1>1. Len(list) \in Nat /\ DOMAIN list = 1..Len(list) /\ \A i \in 1..Len(list) : list[i] \in AllServices
  BY ElementOfSeq, LenProperties
<1>2. at \in 1..Len(list) /\ list[at] = s
  <2>1. places \subseteq Nat /\ places # {}
    BY <1>1 DEF ToSet
  <2>2. at \in places
    <3> HIDE DEF places
    <3> QED
      BY <2>1, MinIsSmallest
  <2> QED
    BY <2>2
<1>3. RemoveFirst(list, s) = rest
  <2>1. places # {} /\ \E i \in 1..Len(list) : list[i] = s
    BY <1>2
  <2>2. SelectInSeq(list, LAMBDA v : v = s) = at
    BY <1>1, <2>1 DEF SelectInSeq
  <2> QED
    BY <2>1, <2>2 DEF RemoveFirst, RemoveAt
<1> HIDE DEF at
<1>4. /\ before \in Seq(AllServices) /\ Len(before) = at - 1
      /\ \A i \in 1..(at - 1) : before[i] = list[i]
  BY <1>1, <1>2, SubSeqProperties
<1>5. /\ behind \in Seq(AllServices) /\ Len(behind) = Len(list) - at
      /\ \A i \in 1..(Len(list) - at) : behind[i] = list[at + i]
  <2>1. at + 1 \in 1..(Len(list) + 1)
    BY <1>1, <1>2
  <2>2. behind \in Seq(AllServices) /\ Len(behind) = IF at + 1 <= Len(list) THEN Len(list) - (at + 1) + 1 ELSE 0
    BY <1>1, <2>1, SubSeqProperties
  <2>3. \A i \in 1..(Len(list) - (at + 1) + 1) : behind[i] = list[(at + 1) + i - 1]
    BY <1>1, <2>1, SubSeqProperties
  <2> HIDE DEF behind
  <2>4. Len(behind) = Len(list) - at
    <3>1. CASE at + 1 <= Len(list)
      <4>1. Len(behind) = Len(list) - (at + 1) + 1
        BY <2>2, <3>1
      <4> QED
        BY <1>1, <1>2, <4>1
    <3>2. CASE ~(at + 1 <= Len(list))
      <4>1. Len(behind) = 0
        BY <2>2, <3>2
      <4>2. at \in Nat /\ Len(list) \in Nat /\ at <= Len(list)
        BY <1>1, <1>2
      <4>3. at = Len(list)
        BY ONLY <3>2, <4>2
      <4> QED
        BY <1>1, <4>1, <4>3
    <3> QED
      BY <3>1, <3>2
  <2>5. ASSUME NEW i \in 1..(Len(list) - at) PROVE behind[i] = list[at + i]
    <3>1. i \in 1..(Len(list) - (at + 1) + 1) /\ (at + 1) + i - 1 = at + i
      BY <1>1, <1>2
    <3> QED
      BY <2>3, <3>1
  <2> QED
    BY <2>2, <2>4, <2>5
<1> HIDE DEF before, behind
<1> DEFINE from(i) == IF i < at THEN i ELSE i + 1
<1>6. /\ rest \in Seq(AllServices) /\ DOMAIN rest = 1..(Len(list) - 1)
      /\ \A i \in 1..(Len(list) - 1) : rest[i] = list[from(i)]
  <2>1. /\ rest \in Seq(AllServices) /\ Len(rest) = Len(before) + Len(behind)
        /\ \A i \in 1..(Len(before) + Len(behind)) :
             rest[i] = IF i <= Len(before) THEN before[i] ELSE behind[i - Len(before)]
    BY <1>4, <1>5, ConcatProperties
  <2> HIDE DEF rest
  <2>2. Len(rest) = Len(list) - 1 /\ DOMAIN rest = 1..(Len(list) - 1)
    BY <1>1, <1>2, <1>4, <1>5, <2>1, LenProperties
  <2>3. ASSUME NEW i \in 1..(Len(list) - 1) PROVE rest[i] = list[from(i)]
    <3>1. CASE i < at
      <4>1. i \in 1..(at - 1) /\ i <= Len(before) /\ i \in 1..(Len(before) + Len(behind))
        BY <1>1, <1>2, <1>4, <1>5, <3>1
      <4> QED
        BY <1>4, <2>1, <3>1, <4>1
    <3>2. CASE ~(i < at)
      <4>1. /\ i - Len(before) \in 1..(Len(list) - at) /\ ~(i <= Len(before))
            /\ i \in 1..(Len(before) + Len(behind)) /\ at + (i - Len(before)) = i + 1
        BY <1>1, <1>2, <1>4, <1>5, <3>2
      <4> QED
        BY <1>5, <2>1, <3>2, <4>1
    <3> QED
      BY <3>1, <3>2
  <2> QED
    BY <2>1, <2>2, <2>3
<1> HIDE DEF rest
<1>7. \A i \in 1..(Len(list) - 1) : from(i) \in 1..Len(list) /\ from(i) # at
  BY <1>1, <1>2
<1>8. \A i, j \in 1..(Len(list) - 1) : from(i) = from(j) => i = j
  BY <1>1, <1>2
<1>9. \A k \in 1..Len(list) : k # at => \E i \in 1..(Len(list) - 1) : from(i) = k
  <2> SUFFICES ASSUME NEW k \in 1..Len(list), k # at PROVE \E i \in 1..(Len(list) - 1) : from(i) = k
    OBVIOUS
  <2>1. CASE k < at
    <3>1. k \in 1..(Len(list) - 1) /\ from(k) = k
      BY <1>1, <1>2, <2>1
    <3> QED
      BY <3>1
  <2>2. CASE ~(k < at)
    <3>1. k - 1 \in 1..(Len(list) - 1) /\ from(k - 1) = k
      BY <1>1, <1>2, <2>2
    <3> QED
      BY <3>1
  <2> QED
    BY <2>1, <2>2
<1> HIDE DEF from
<1>10. \A k \in 1..Len(list) : list[k] = s => k = at
  BY <1>1, <1>2 DEF NoTwoAlike
<1>11. ToSet(rest) = ToSet(list) \ {s}
  <2>1. \A x \in ToSet(rest) : x \in ToSet(list) \ {s}
    BY <1>1, <1>6, <1>7, <1>10 DEF ToSet
  <2>2. \A x \in ToSet(list) \ {s} : x \in ToSet(rest)
    <3> SUFFICES ASSUME NEW k \in 1..Len(list), list[k] # s PROVE list[k] \in ToSet(rest)
      BY <1>1 DEF ToSet
    <3>1. PICK i \in 1..(Len(list) - 1) : from(i) = k
      BY <1>2, <1>9
    <3> QED
      BY <1>6, <3>1 DEF ToSet
  <2> QED
    BY <2>1, <2>2
<1>12. NoTwoAlike(rest)
  BY <1>1, <1>6, <1>7, <1>8 DEF NoTwoAlike
<1> QED
  BY <1>3, <1>6, <1>11, <1>12

-----------------------------------------------------------------------------
\* What the listener of a service does: the structure keeps its services, and its primary service and
\* its flags agree again.
LEMMA ChangeFacts ==
  ASSUME NEW m \in Structures, NEW s \in AllServices
  PROVE  LET n == ConfigurationChange(m, s) IN
         /\ n \in Structures
         /\ n.services = m.services /\ n.linked = m.linked /\ n.types = m.types
         /\ n.heard = m.heard /\ n.threw = m.threw
         /\ s \notin m.heard => n = m
         /\ s \in m.heard => n.updates
         /\ s \in m.heard /\ s \in Held(m) /\ AgreesBut(m, s) => Agrees(n)
         /\ s \in Held(m) /\ Agrees(m) => Agrees(n)
<1> DEFINE n == ConfigurationChange(m, s)
<1>0. s # NoService
  BY NoServiceIsNone
<1>1. CASE s \notin m.heard
  <2>1. n = m
    BY <1>1 DEF ConfigurationChange
  <2> QED
    BY <1>1, <2>1
<1>2. CASE s \in m.heard /\ s \notin m.flagged /\ s = m.primary
  <2>1. n = [[m EXCEPT !.primary = NoService] EXCEPT !.updates = TRUE]
    BY <1>2 DEF ConfigurationChange
  <2>2. /\ n \in Structures /\ n.updates
        /\ n.services = m.services /\ n.linked = m.linked /\ n.types = m.types
        /\ n.heard = m.heard /\ n.threw = m.threw /\ n.flagged = m.flagged /\ n.primary = NoService
    BY <2>1 DEF Structures
  <2>3. s \in Held(m) /\ AgreesBut(m, s) => Agrees(n)
    BY <1>2, <2>2 DEF AgreesBut, Agrees, Held
  <2>4. Agrees(m) => Agrees(n)
    BY <1>0, <1>2, <2>2 DEF Agrees, Held
  <2> QED
    BY <1>2, <2>2, <2>3, <2>4
<1>3. CASE s \in m.heard /\ s \in m.flagged /\ s # m.primary
  <2> DEFINE F == (m.flagged \ {m.primary}) \cup {s}
  <2>0. F \in SUBSET AllServices
    BY DEF Structures
  <2>1. n = [[m EXCEPT !.flagged = F, !.primary = s] EXCEPT !.updates = TRUE]
    BY <1>3 DEF ConfigurationChange, Promoted
  <2>2. /\ n \in Structures /\ n.updates
        /\ n.services = m.services /\ n.linked = m.linked /\ n.types = m.types
        /\ n.heard = m.heard /\ n.threw = m.threw
        /\ n.flagged = F /\ n.primary = s
    <3> HIDE DEF F, n
    <3> QED
      BY <2>0, <2>1 DEF Structures
  <2>3. s \in Held(m) /\ AgreesBut(m, s) => Agrees(n)
    BY <1>0, <1>3, <2>2 DEF AgreesBut, Agrees, Held
  <2>4. Agrees(m) => s \notin Held(m)
    BY <1>3 DEF Agrees
  <2> QED
    BY <1>3, <2>2, <2>3, <2>4
<1>4. CASE s \in m.heard /\ (s \in m.flagged <=> s = m.primary)
  <2>1. n = [m EXCEPT !.updates = TRUE]
    BY <1>4 DEF ConfigurationChange
  <2>2. /\ n \in Structures /\ n.updates
        /\ n.services = m.services /\ n.linked = m.linked /\ n.types = m.types
        /\ n.heard = m.heard /\ n.threw = m.threw /\ n.flagged = m.flagged /\ n.primary = m.primary
    BY <2>1 DEF Structures
  <2>3. s \in Held(m) /\ AgreesBut(m, s) => Agrees(n)
    BY <1>0, <1>4, <2>2 DEF AgreesBut, Agrees, Held
  <2>4. Agrees(m) => Agrees(n)
    BY <2>2 DEF Agrees, Held
  <2> QED
    BY <1>4, <2>2, <2>3, <2>4
<1> QED
  BY <1>1, <1>2, <1>3, <1>4

\* Links and characteristics leave flags alone.
LinkedTo(m, s, L) == [m EXCEPT !.linked[s] = L]

LEMMA LinkFacts ==
  ASSUME NEW m \in Structures, NEW s \in AllServices, NEW L, L \subseteq AllServices,
         NEW n, n = LinkedTo(m, s, L)
  PROVE  /\ n \in Structures
         /\ n.services = m.services /\ n.types = m.types /\ n.heard = m.heard /\ n.threw = m.threw
         /\ Agrees(m) => Agrees(n)
<1>1. /\ n \in Structures
      /\ n.services = m.services /\ n.flagged = m.flagged /\ n.primary = m.primary /\ n.types = m.types
      /\ n.heard = m.heard /\ n.threw = m.threw
  BY DEF Structures, LinkedTo
<1>2. Agrees(m) => Agrees(n)
  BY <1>1 DEF Agrees, Held
<1> QED
  BY <1>1, <1>2

-----------------------------------------------------------------------------
\* What Unlink keeps of m.
Unlinked(m, n) ==
  /\ n \in Structures
  /\ n.services = m.services /\ n.types = m.types /\ n.heard = m.heard /\ n.threw = m.threw
  /\ Agrees(m) => Agrees(n)

LEMMA UnlinkFacts ==
  ASSUME NEW m \in Structures, NEW r
  PROVE  Unlinked(m, Unlink(m, r))
<1> DEFINE N == Len(m.services)
           without(n, t) == [n EXCEPT !.linked[t] = n.linked[t] \ {r}]
           Step(n, t) == ConfigurationChange(without(n, t), t)
           D == {n \in Structures : n.services = m.services}
           step == [p \in (1..N) \X D |-> Step(p[2], m.services[p[1]])]
           Unfolds(f) == f = [i \in 0..N |-> IF i = 0 THEN m ELSE Step(f[i - 1], m.services[i])]
           after == CHOOSE f : Unfolds(f)
<1>1. N \in Nat /\ \A i \in 1..N : m.services[i] \in AllServices
  BY ElementOfSeq, LenProperties DEF Structures
<1>2. ASSUME NEW n \in Structures, NEW t \in AllServices, t \in Held(n)
      PROVE  Unlinked(n, Step(n, t))
  <2> DEFINE l == without(n, t)
  <2>1. n.linked[t] \ {r} \subseteq AllServices
    BY DEF Structures
  <2>2. /\ l \in Structures
        /\ l.services = n.services /\ l.types = n.types /\ l.heard = n.heard /\ l.threw = n.threw
        /\ Agrees(n) => Agrees(l)
    <3> DEFINE L == n.linked[t] \ {r}
    <3>1. L \subseteq AllServices
      BY <2>1
    <3>2. l = LinkedTo(n, t, L)
      BY DEF LinkedTo
    <3> HIDE DEF L, l
    <3> QED
      BY <3>1, <3>2, LinkFacts
  <2> HIDE DEF l
  <2>3. Step(n, t) = ConfigurationChange(l, t)
    BY DEF l
  <2>4. t \in Held(l)
    BY <1>2, <2>2 DEF Held
  <2> QED
    BY <2>2, <2>3, <2>4, ChangeFacts DEF Unlinked
<1> HIDE DEF without, Step
<1>a. ASSUME NEW n \in D, NEW i \in 1..N
      PROVE  Unlinked(n, Step(n, m.services[i])) /\ Step(n, m.services[i]) \in D
  <2>1. m.services[i] \in AllServices /\ m.services[i] \in Held(n)
    BY <1>1 DEF Held, ToSet
  <2> QED
    BY <1>2, <2>1 DEF Unlinked
<1>3. step \in [(1..N) \X D -> D]
  <2> SUFFICES ASSUME NEW p \in (1..N) \X D
               PROVE  Step(p[2], m.services[p[1]]) \in D
    OBVIOUS
  <2>1. p[1] \in 1..N /\ p[2] \in D
    OBVIOUS
  <2> HIDE DEF D, N
  <2> QED
    BY <1>a, <2>1
<1>b. m \in D
  OBVIOUS
<1>4. PICK f : Iterates(f, N, D, m, step)
  <2> HIDE DEF step, N, D
  <2> QED
    BY <1>1, <1>3, <1>b, IterationExists
<1>5. /\ f \in [0..N -> D] /\ f[0] = m
      /\ \A i \in 1..N : f[i] = Step(f[i - 1], m.services[i])
  <2> HIDE DEF D
  <2>1. f \in [0..N -> D] /\ f[0] = m /\ \A i \in 1..N : f[i] = step[<<i, f[i - 1]>>]
    BY <1>4 DEF Iterates
  <2>2. ASSUME NEW i \in 1..N PROVE f[i] = Step(f[i - 1], m.services[i])
    <3>1. f[i - 1] \in D
      BY <1>1, <2>1
    <3>2. step[<<i, f[i - 1]>>] = Step(f[i - 1], m.services[i])
      BY <3>1
    <3> QED
      BY <2>1, <3>2
  <2> QED
    BY <2>1, <2>2
<1> HIDE DEF step
<1>6. Unfolds(f)
  <2> SUFFICES ASSUME NEW i \in 0..N
               PROVE  f[i] = IF i = 0 THEN m ELSE Step(f[i - 1], m.services[i])
    BY <1>5
  <2>1. i = 0 \/ i \in 1..N
    BY <1>1
  <2> QED
    BY <1>5, <2>1
<1>7. Unfolds(after)
  <2> HIDE DEF Unfolds
  <2> QED
    BY <1>6
<1>8. Unlink(m, r) = after[N]
  BY DEF Unlink, Step, without
<1> HIDE DEF after
<1> DEFINE S == {i \in 0..N : Unlinked(m, after[i])}
<1>9. 0 \in S
  <2>1. after[0] = m /\ 0 \in 0..N
    BY <1>1, <1>7
  <2> QED
    BY <2>1 DEF Unlinked
<1>10. ASSUME NEW i \in 1..N, i - 1 \in S
       PROVE  i \in S
  <2>1. i \in 0..N /\ after[i] = Step(after[i - 1], m.services[i])
    BY <1>1, <1>7
  <2>2. Unlinked(m, after[i - 1])
    BY <1>10
  <2>3. Unlinked(after[i - 1], after[i])
    <3>1. after[i - 1] \in D
      BY <2>2 DEF Unlinked
    <3> HIDE DEF D
    <3> QED
      BY <1>a, <2>1, <3>1
  <2>4. Unlinked(m, after[i])
    BY <2>2, <2>3 DEF Unlinked
  <2> QED
    BY <2>1, <2>4
<1>11. 0..N \subseteq S
  <2> HIDE DEF S, N
  <2> QED
    BY <1>1, <1>9, <1>10, InductionUpTo
<1>12. N \in 0..N
  BY <1>1
<1> QED
  BY <1>8, <1>11, <1>12

-----------------------------------------------------------------------------
\* removeService.
LEMMA WithoutFacts ==
  ASSUME NEW m, Sound(m), NEW s \in AllServices \cup {NoService}
  PROVE  LET n == WithoutService(m, s) IN
         /\ Sound(n) /\ n.threw = m.threw
         /\ Agrees(m) => Agrees(n)
         /\ n = m \/ n.updates
         /\ ~m.threw => Held(n) = Held(m) \ {s}
<1> DEFINE n == WithoutService(m, s)
<1>1. CASE m.threw \/ s \notin Held(m)
  <2>1. n = m
    BY <1>1 DEF WithoutService
  <2> QED
    BY <1>1, <2>1
<1>2. CASE ~m.threw /\ s \in Held(m)
  <2> DEFINE list == RemoveFirst(m.services, s)
             first == IF m.primary = s THEN NoService ELSE m.primary
             rest == [m EXCEPT !.services = list, !.primary = first]
             u == Unlink(rest, s)
  <2>1. m \in Structures /\ m.services \in Seq(AllServices) /\ NoTwoAlike(m.services) /\ m.heard = Held(m)
    BY DEF Sound, Structures
  <2>2. /\ list \in Seq(AllServices) /\ NoTwoAlike(list)
        /\ ToSet(list) = Held(m) \ {s}
    BY <1>2, <2>1, HeldAfterRemove DEF Held
  <2>3. first \in AllServices \cup {NoService}
    BY <2>1 DEF Structures
  <2>4. n = [u EXCEPT !.heard = u.heard \ {s}, !.updates = TRUE]
    BY <1>2 DEF WithoutService
  <2>5. /\ rest \in Structures
        /\ rest.services = list /\ rest.primary = first /\ rest.flagged = m.flagged
        /\ rest.heard = m.heard /\ rest.threw = m.threw
    <3> HIDE DEF list, first
    <3> QED
      BY <2>1, <2>2, <2>3 DEF Structures
  <2>6. Agrees(m) => Agrees(rest)
    <3> HIDE DEF rest, list
    <3> QED
      BY <2>2, <2>5 DEF Agrees, Held
  <2>7. Unlinked(rest, u)
    <3> HIDE DEF rest
    <3> QED
      BY <2>5, UnlinkFacts
  <2> HIDE DEF rest, u, list, first
  <2>8. /\ u \in Structures /\ u.services = list /\ u.heard = m.heard /\ u.threw = m.threw
        /\ Agrees(m) => Agrees(u)
    BY <2>5, <2>6, <2>7 DEF Unlinked
  <2>9. /\ n \in Structures /\ n.services = list /\ n.heard = m.heard \ {s} /\ n.threw = m.threw
        /\ n.updates /\ n.flagged = u.flagged /\ n.primary = u.primary
    <3> HIDE DEF n
    <3> QED
      BY <2>4, <2>8 DEF Structures
  <2>10. Held(n) = Held(m) \ {s}
    BY <2>2, <2>9 DEF Held
  <2>11. Sound(n)
    BY <2>1, <2>2, <2>9, <2>10 DEF Sound
  <2>12. Agrees(m) => Agrees(n)
    BY <2>8, <2>9 DEF Agrees, Held
  <2> QED
    BY <2>9, <2>10, <2>11, <2>12
<1> QED
  BY <1>1, <1>2

\* addService: it throws and leaves everything as it was, or there is one service more.
LEMMA WithFacts ==
  ASSUME NEW m, Sound(m), NEW s \in AllServices
  PROVE  LET n == WithService(m, s) IN
         /\ Sound(n)
         /\ Agrees(m) => Agrees(n)
         /\ n = [m EXCEPT !.threw = TRUE] \/ n.updates
         /\ ~n.threw => ~m.threw /\ s \notin Held(m) /\ Held(n) = Held(m) \cup {s}
         /\ n.threw \in BOOLEAN
<1> DEFINE n == WithService(m, s)
<1>0. m \in Structures /\ m.services \in Seq(AllServices) /\ NoTwoAlike(m.services) /\ m.heard = Held(m)
  BY DEF Sound, Structures
<1>1. CASE m.threw \/ Conflicts(m, s) \/ Len(m.services) >= MaxServices
  <2>1. n = [m EXCEPT !.threw = TRUE]
    BY <1>1 DEF WithService
  <2>2. /\ n \in Structures /\ n.services = m.services /\ n.heard = m.heard /\ n.threw = TRUE
        /\ n.flagged = m.flagged /\ n.primary = m.primary
    BY <1>0, <2>1 DEF Structures
  <2>3. Sound(n) /\ (Agrees(m) => Agrees(n))
    BY <1>0, <2>2 DEF Sound, Agrees, Held
  <2> QED
    BY <2>1, <2>2, <2>3
<1>2. CASE ~(m.threw \/ Conflicts(m, s) \/ Len(m.services) >= MaxServices)
  <2> DEFINE list == Append(m.services, s)
             added == [m EXCEPT !.services = list, !.heard = m.heard \cup {s}, !.updates = TRUE]
  <2>1. \A t \in Held(m) : Kind[t] # Kind[s]
    BY <1>2 DEF Conflicts
  <2>2. /\ list \in Seq(AllServices) /\ NoTwoAlike(list)
        /\ ToSet(list) = Held(m) \cup {s}
    BY <1>0, <2>1, HeldAfterAppend DEF Held
  <2>3. s \notin Held(m)
    BY <2>1
  <2>4. n = IF s \in m.flagged THEN Promoted(added, s) ELSE added
    BY <1>2 DEF WithService
  <2>5. /\ added \in Structures /\ added.services = list /\ added.heard = m.heard \cup {s}
        /\ added.updates /\ added.threw = m.threw
        /\ added.flagged = m.flagged /\ added.primary = m.primary
    <3> HIDE DEF list
    <3> QED
      BY <1>0, <2>2 DEF Structures
  <2>6. added.threw = FALSE
    BY <1>0, <1>2, <2>5 DEF Structures
  <2> HIDE DEF added, n, list
  <2>7. CASE s \in m.flagged
    <3> DEFINE F == (added.flagged \ {added.primary}) \cup {s}
    <3>0. F \in SUBSET AllServices
      BY <2>5 DEF Structures
    <3>1. n = [added EXCEPT !.flagged = F, !.primary = s]
      BY <2>4, <2>7 DEF Promoted
    <3>2. /\ n \in Structures /\ n.services = list /\ n.heard = m.heard \cup {s}
          /\ n.updates /\ n.threw = FALSE /\ n.flagged = F /\ n.primary = s
      <4> HIDE DEF F
      <4> QED
        BY <2>5, <2>6, <3>0, <3>1 DEF Structures
    <3>3. Held(n) = Held(m) \cup {s}
      BY <2>2, <3>2 DEF Held
    <3>4. Sound(n)
      BY <1>0, <2>2, <3>2, <3>3 DEF Sound
    <3>5. Agrees(m) => Agrees(n)
      BY <2>5, <3>2, <3>3, NoServiceIsNone DEF Agrees
    <3> QED
      BY <1>2, <2>3, <3>2, <3>3, <3>4, <3>5 DEF n
  <2>8. CASE s \notin m.flagged
    <3>1. n = added
      BY <2>4, <2>8
    <3>3. Held(n) = Held(m) \cup {s}
      BY <2>2, <2>5, <3>1 DEF Held
    <3>4. Sound(n)
      BY <1>0, <2>2, <2>5, <3>1, <3>3 DEF Sound
    <3>5. Agrees(m) => Agrees(n)
      BY <2>5, <2>8, <3>1, <3>3 DEF Agrees
    <3> QED
      BY <1>2, <2>3, <2>5, <2>6, <3>1, <3>3, <3>4, <3>5 DEF n
  <2> QED
    BY <2>7, <2>8
<1> QED
  BY <1>1, <1>2

-----------------------------------------------------------------------------
(***************************************************************************)
(* Along a service map.  What was exchanged so far is a set of slots; the  *)
(* services removed were there, so none of them is one that was added, or  *)
(* the addition would have thrown.                                         *)
(***************************************************************************)
ServicesIn(map, slots) == {map[slot] : slot \in slots} \ {NoService}

OfSlots == [Slots -> AllServices \cup {NoService}]

OneSlotEach(map) == \A a, b \in Slots : map[a] = map[b] => a = b \/ map[a] = NoService

Exact(m, n, out, in, slots) ==
  /\ Held(n) = (Held(m) \ ServicesIn(out, slots)) \cup ServicesIn(in, slots)
  /\ ServicesIn(in, slots) \cap (Held(m) \ ServicesIn(out, slots)) = {}

ExchangedSo(m, n, out, in, slots) ==
  /\ Sound(n)
  /\ Agrees(m) => Agrees(n)
  /\ Silent(m, n)
  /\ in = Nothing => n.threw = m.threw
  /\ m.threw => n.threw
  /\ ServicesIn(out, Slots) \subseteq Held(m) /\ OneSlotEach(out) /\ ~n.threw => Exact(m, n, out, in, slots)

ExchangeAt(n, x, y) ==
  LET rest == WithoutService(n, x) IN IF y = NoService THEN rest ELSE WithService(rest, y)

LEMMA SilentAfterSilent ==
  ASSUME NEW m \in Structures, NEW n \in Structures, NEW o \in Structures, Silent(m, n), Silent(n, o)
  PROVE  Silent(m, o)
<1>1. CASE o.updates
  BY <1>1 DEF Silent
<1>2. CASE ~o.updates
  <2>1. o = [n EXCEPT !.threw = o.threw]
    BY <1>2 DEF Silent
  <2>2. o.updates = n.updates
    BY <2>1 DEF Structures
  <2>3. n = [m EXCEPT !.threw = n.threw]
    BY <1>2, <2>2 DEF Silent
  <2>4. o = [m EXCEPT !.threw = o.threw]
    BY <2>1, <2>3 DEF Structures
  <2> QED
    BY <2>4 DEF Silent
<1> QED
  BY <1>1, <1>2

LEMMA SilentIfSame == ASSUME NEW m \in Structures PROVE Silent(m, m)
  BY DEF Silent, Structures

LEMMA ServicesOfOneMore ==
  ASSUME NEW map, NEW slots, NEW slot
  PROVE  ServicesIn(map, slots \cup {slot}) = ServicesIn(map, slots) \cup ({map[slot]} \ {NoService})
BY DEF ServicesIn

\* One slot more.
LEMMA ExchangeStep ==
  ASSUME NEW m, Sound(m), NEW n, NEW out \in OfSlots, NEW in \in OfSlots,
         NEW slots \in SUBSET Slots, NEW slot \in Slots, slot \notin slots,
         ExchangedSo(m, n, out, in, slots)
  PROVE  ExchangedSo(m, ExchangeAt(n, out[slot], in[slot]), out, in, slots \cup {slot})
<1> DEFINE x == out[slot]
           y == in[slot]
           r == WithoutService(n, x)
           o == ExchangeAt(n, x, y)
           more == slots \cup {slot}
<1>1. x \in AllServices \cup {NoService} /\ y \in AllServices \cup {NoService}
  BY DEF OfSlots
<1>2. /\ Sound(n) /\ (Agrees(m) => Agrees(n)) /\ Silent(m, n)
      /\ in = Nothing => n.threw = m.threw
      /\ m.threw => n.threw
  BY DEF ExchangedSo
<1>3. /\ Sound(r) /\ r.threw = n.threw /\ (Agrees(n) => Agrees(r))
      /\ r = n \/ r.updates
      /\ ~n.threw => Held(r) = Held(n) \ {x}
  <2> HIDE DEF x
  <2> QED
    BY <1>1, <1>2, WithoutFacts
<1> HIDE DEF r, x
<1>4. m \in Structures /\ n \in Structures /\ r \in Structures
  BY <1>2, <1>3 DEF Sound
<1>5. Silent(n, r)
  BY <1>3, <1>4, SilentIfSame DEF Silent
<1>6. Silent(m, r)
  BY <1>2, <1>4, <1>5, SilentAfterSilent
<1>7. in = Nothing => y = NoService
  BY DEF Nothing
<1> HIDE DEF y
<1>8. /\ Sound(o) /\ (Agrees(r) => Agrees(o)) /\ Silent(r, o)
      /\ y = NoService => o = r
      /\ ~o.threw => ~r.threw /\ Held(o) = Held(r) \cup ({y} \ {NoService})
                              /\ (y # NoService => y \notin Held(r))
  <2>1. CASE y = NoService
    <3>1. o = r
      BY <2>1 DEF ExchangeAt, r
    <3> QED
      BY <1>3, <1>4, <2>1, <3>1, SilentIfSame
  <2>2. CASE y # NoService
    <3>1. o = WithService(r, y)
      BY <2>2 DEF ExchangeAt, r
    <3> HIDE DEF o
    <3>2. /\ Sound(o) /\ (Agrees(r) => Agrees(o))
          /\ o = [r EXCEPT !.threw = TRUE] \/ o.updates
          /\ ~o.threw => ~r.threw /\ y \notin Held(r) /\ Held(o) = Held(r) \cup {y}
      BY <1>1, <1>3, <2>2, <3>1, WithFacts
    <3>3. Silent(r, o)
      <4>1. CASE o = [r EXCEPT !.threw = TRUE]
        <5>1. o.threw = TRUE
          BY <1>4, <4>1 DEF Structures
        <5> QED
          BY <4>1, <5>1 DEF Silent
      <4> QED
        BY <3>2, <4>1 DEF Silent
    <3> QED
      BY <2>2, <3>2, <3>3
  <2> QED
    BY <2>1, <2>2
<1> HIDE DEF o
<1>9. Silent(m, o)
  <2>1. o \in Structures
    BY <1>8 DEF Sound
  <2> QED
    BY <1>4, <1>6, <1>8, <2>1, SilentAfterSilent
<1>10. ASSUME ServicesIn(out, Slots) \subseteq Held(m), OneSlotEach(out), ~o.threw
       PROVE  Exact(m, o, out, in, more)
  <2> DEFINE H == Held(m)
             O == ServicesIn(out, slots)
             I == ServicesIn(in, slots)
             O2 == ServicesIn(out, more)
             I2 == ServicesIn(in, more)
  <2>1. ~n.threw
    BY <1>3, <1>8, <1>10
  <2>2. Held(n) = (H \ O) \cup I /\ I \cap (H \ O) = {}
    BY <1>10, <2>1 DEF ExchangedSo, Exact
  <2>3. O2 = O \cup ({x} \ {NoService}) /\ I2 = I \cup ({y} \ {NoService})
    BY ServicesOfOneMore DEF x, y
  <2>4. x # NoService => x \in H /\ x \notin O
    <3>1. x # NoService => x \in ServicesIn(out, Slots)
      BY DEF x, ServicesIn
    <3>2. x # NoService => x \notin O
      BY <1>10 DEF x, ServicesIn, OneSlotEach
    <3> QED
      BY <1>10, <3>1, <3>2
  <2>5. NoService \notin I
    BY DEF ServicesIn
  <2>6. NoService \notin H
    <3>1. H \subseteq AllServices
      BY <1>4 DEF Sound, Structures
    <3> QED
      BY <3>1, NoServiceIsNone
  <2> HIDE DEF H, O, I, O2, I2
  <2>7. Held(r) = (H \ O2) \cup I
    BY <1>3, <2>1, <2>2, <2>3, <2>4, <2>5, <2>6
  <2>8. Held(o) = (H \ O2) \cup I2
    BY <1>8, <1>10, <2>3, <2>7
  <2>9. I2 \cap (H \ O2) = {}
    BY <1>8, <1>10, <2>2, <2>3, <2>7
  <2> QED
    BY <2>8, <2>9 DEF Exact, H, O2, I2
<1>11. in = Nothing => o.threw = m.threw
  BY <1>2, <1>3, <1>7, <1>8
<1>12. Agrees(m) => Agrees(o)
  BY <1>2, <1>3, <1>8
<1>13. m.threw => o.threw
  BY <1>2, <1>3, <1>8
<1>14. ExchangedSo(m, o, out, in, more)
  BY <1>8, <1>9, <1>10, <1>11, <1>12, <1>13 DEF ExchangedSo
<1> QED
  BY <1>14 DEF o, x, y

LEMMA ExchangeIsSound ==
  ASSUME NEW n, Sound(n), NEW x \in AllServices \cup {NoService}, NEW y \in AllServices \cup {NoService}
  PROVE  Sound(ExchangeAt(n, x, y))
<1> DEFINE r == WithoutService(n, x)
<1>1. Sound(r)
  BY WithoutFacts
<1> HIDE DEF r
<1>2. y # NoService => Sound(WithService(r, y))
  BY <1>1, WithFacts
<1> QED
  BY <1>1, <1>2 DEF ExchangeAt, r

\* The slots up to position i.
Before(i) == {SlotOrder[k] : k \in 1..i}

LEMMA SlotsInOrder ==
  /\ Len(SlotOrder) \in Nat
  /\ Before(0) = {} /\ Before(Len(SlotOrder)) = Slots
  /\ \A i \in 1..Len(SlotOrder) :
       /\ SlotOrder[i] \in Slots /\ SlotOrder[i] \notin Before(i - 1)
       /\ Before(i - 1) \subseteq Slots /\ Before(i) = Before(i - 1) \cup {SlotOrder[i]}
<1>1. /\ Len(SlotOrder) \in Nat /\ DOMAIN SlotOrder = 1..Len(SlotOrder)
      /\ \A i \in 1..Len(SlotOrder) : SlotOrder[i] \in Slots
      /\ ToSet(SlotOrder) = Slots
      /\ \A i, j \in 1..Len(SlotOrder) : SlotOrder[i] = SlotOrder[j] => i = j
  BY ServicesAssumption, ElementOfSeq, LenProperties
<1>2. Before(0) = {}
  BY DEF Before
<1>3. Before(Len(SlotOrder)) = Slots
  BY <1>1 DEF Before, ToSet
<1>4. ASSUME NEW i \in 1..Len(SlotOrder)
      PROVE  /\ SlotOrder[i] \in Slots /\ SlotOrder[i] \notin Before(i - 1)
             /\ Before(i - 1) \subseteq Slots /\ Before(i) = Before(i - 1) \cup {SlotOrder[i]}
  <2>1. \A k \in 1..(i - 1) : k \in 1..Len(SlotOrder) /\ k # i
    BY <1>1
  <2>2. \A k \in 1..i : k \in 1..(i - 1) \/ k = i
    OBVIOUS
  <2>3. \A k \in 1..(i - 1) : k \in 1..i
    OBVIOUS
  <2>4. i \in 1..i
    OBVIOUS
  <2>5. SlotOrder[i] \notin Before(i - 1) /\ Before(i - 1) \subseteq Slots
    BY <1>1, <2>1 DEF Before
  <2>6. Before(i) = Before(i - 1) \cup {SlotOrder[i]}
    BY <2>2, <2>3, <2>4 DEF Before
  <2> QED
    BY <1>1, <2>5, <2>6
<1> QED
  BY <1>1, <1>2, <1>3, <1>4

LEMMA ExchangedFacts ==
  ASSUME NEW m, Sound(m), NEW out \in OfSlots, NEW in \in OfSlots
  PROVE  ExchangedSo(m, Exchanged(m, out, in), out, in, Slots)
<1> DEFINE N == Len(SlotOrder)
           D == {n \in Structures : Sound(n)}
           Step(n, i) == ExchangeAt(n, out[SlotOrder[i]], in[SlotOrder[i]])
           step == [p \in (1..N) \X D |-> Step(p[2], p[1])]
           Unfolds(f) == f = [i \in 0..N |-> IF i = 0 THEN m ELSE Step(f[i - 1], i)]
           after == CHOOSE f : Unfolds(f)
<1>1. N \in Nat /\ \A i \in 1..N : SlotOrder[i] \in Slots
  BY SlotsInOrder
<1>2. ASSUME NEW n \in D, NEW i \in 1..N
      PROVE  Step(n, i) \in D
  <2>1. out[SlotOrder[i]] \in AllServices \cup {NoService} /\ in[SlotOrder[i]] \in AllServices \cup {NoService}
    BY <1>1 DEF OfSlots
  <2>2. Sound(Step(n, i))
    BY <2>1, ExchangeIsSound
  <2> QED
    BY <2>2 DEF Sound
<1>3. step \in [(1..N) \X D -> D]
  <2> SUFFICES ASSUME NEW p \in (1..N) \X D PROVE Step(p[2], p[1]) \in D
    OBVIOUS
  <2>1. p[1] \in 1..N /\ p[2] \in D
    OBVIOUS
  <2> HIDE DEF D, N, Step
  <2> QED
    BY <1>2, <2>1
<1>4. m \in D
  BY DEF Sound
<1> HIDE DEF Step
<1>5. PICK f : Iterates(f, N, D, m, step)
  <2> HIDE DEF step, N, D
  <2> QED
    BY <1>1, <1>3, <1>4, IterationExists
<1>6. /\ f \in [0..N -> D] /\ f[0] = m
      /\ \A i \in 1..N : f[i] = Step(f[i - 1], i)
  <2> HIDE DEF D
  <2>1. f \in [0..N -> D] /\ f[0] = m /\ \A i \in 1..N : f[i] = step[<<i, f[i - 1]>>]
    BY <1>5 DEF Iterates
  <2>2. ASSUME NEW i \in 1..N PROVE f[i] = Step(f[i - 1], i)
    <3>1. f[i - 1] \in D
      BY <1>1, <2>1
    <3>2. step[<<i, f[i - 1]>>] = Step(f[i - 1], i)
      BY <3>1
    <3> QED
      BY <2>1, <3>2
  <2> QED
    BY <2>1, <2>2
<1> HIDE DEF step
<1>7. Unfolds(f)
  <2> SUFFICES ASSUME NEW i \in 0..N PROVE f[i] = IF i = 0 THEN m ELSE Step(f[i - 1], i)
    BY <1>6
  <2>1. i = 0 \/ i \in 1..N
    BY <1>1
  <2> QED
    BY <1>6, <2>1
<1>8. Unfolds(after)
  <2> HIDE DEF Unfolds
  <2> QED
    BY <1>7
<1>9. Exchanged(m, out, in) = after[N]
  BY DEF Exchanged, Step, ExchangeAt
<1> HIDE DEF after
<1> DEFINE S == {i \in 0..N : ExchangedSo(m, after[i], out, in, Before(i))}
<1>10. 0 \in S
  <2>1. after[0] = m /\ 0 \in 0..N /\ Before(0) = {}
    BY <1>1, <1>8, SlotsInOrder
  <2>2. Silent(m, m)
    BY SilentIfSame DEF Sound
  <2>3. Exact(m, m, out, in, {})
    BY DEF Exact, ServicesIn
  <2>4. ExchangedSo(m, m, out, in, {})
    BY <2>2, <2>3 DEF ExchangedSo
  <2> QED
    BY <2>1, <2>4
<1>11. ASSUME NEW i \in 1..N, i - 1 \in S
       PROVE  i \in S
  <2>1. i \in 0..N /\ after[i] = Step(after[i - 1], i)
    BY <1>1, <1>8
  <2>2. ExchangedSo(m, after[i - 1], out, in, Before(i - 1))
    BY <1>11
  <2>3. /\ SlotOrder[i] \in Slots /\ SlotOrder[i] \notin Before(i - 1)
        /\ Before(i - 1) \in SUBSET Slots /\ Before(i) = Before(i - 1) \cup {SlotOrder[i]}
    BY SlotsInOrder
  <2>4. ExchangedSo(m, Step(after[i - 1], i), out, in, Before(i))
    <3> DEFINE n == after[i - 1]
               slot == SlotOrder[i]
               slots == Before(i - 1)
    <3>1. slot \in Slots /\ slot \notin slots /\ slots \in SUBSET Slots /\ ExchangedSo(m, n, out, in, slots)
      BY <2>2, <2>3
    <3> HIDE DEF n, slot, slots
    <3>2. ExchangedSo(m, ExchangeAt(n, out[slot], in[slot]), out, in, slots \cup {slot})
      BY <3>1, ExchangeStep
    <3> QED
      BY <2>3, <3>2 DEF Step, n, slot, slots
  <2> QED
    BY <2>1, <2>4
<1>12. 0..N \subseteq S
  <2> HIDE DEF S, N
  <2> QED
    BY <1>1, <1>10, <1>11, InductionUpTo
<1>13. N \in 0..N
  BY <1>1
<1>14. ExchangedSo(m, after[N], out, in, Before(N))
  BY <1>12, <1>13
<1> QED
  BY <1>9, <1>14, SlotsInOrder

\* A part of a map.
LEMMA OnlyFacts ==
  ASSUME NEW map \in OfSlots, NEW slots \in SUBSET Slots
  PROVE  /\ Only(map, slots) \in OfSlots
         /\ ServicesIn(Only(map, slots), Slots) = ServicesIn(map, slots)
         /\ OneSlotEach(map) => OneSlotEach(Only(map, slots))
<1> DEFINE part == Only(map, slots)
<1>1. part \in OfSlots /\ \A slot \in Slots : part[slot] = IF slot \in slots THEN map[slot] ELSE NoService
  BY DEF Only, OfSlots
<1> HIDE DEF part
<1>2. ServicesIn(part, Slots) = ServicesIn(map, slots)
  <2>1. \A x \in ServicesIn(part, Slots) : x \in ServicesIn(map, slots)
    BY <1>1 DEF ServicesIn
  <2>2. \A x \in ServicesIn(map, slots) : x \in ServicesIn(part, Slots)
    <3> SUFFICES ASSUME NEW slot \in slots, map[slot] # NoService
                 PROVE  map[slot] \in ServicesIn(part, Slots)
      BY DEF ServicesIn
    <3>1. slot \in Slots /\ part[slot] = map[slot]
      BY <1>1
    <3> QED
      BY <3>1 DEF ServicesIn
  <2> QED
    BY <2>1, <2>2
<1>3. OneSlotEach(map) => OneSlotEach(part)
  BY <1>1 DEF OneSlotEach
<1> QED
  BY <1>1, <1>2, <1>3 DEF part

LEMMA NothingFacts ==
  Nothing \in OfSlots /\ OneSlotEach(Nothing) /\ \A slots \in SUBSET Slots : ServicesIn(Nothing, slots) = {}
BY DEF Nothing, OfSlots, OneSlotEach, ServicesIn

LEMMA MappedFacts ==
  ASSUME NEW map
  PROVE  Mapped(map) = ServicesIn(map, Slots)
BY DEF Mapped, ServicesIn

\* The services of the old map make place for those of the new one.
LEMMA ReplacedFacts ==
  ASSUME NEW m, Sound(m), NEW old \in OfSlots, NEW new \in OfSlots
  PROVE  LET n == Replaced(m, old, new) IN
         /\ Sound(n)
         /\ Agrees(m) => Agrees(n)
         /\ Silent(m, n)
         /\ OneSlotEach(old) /\ Mapped(old) \subseteq Held(m) /\ ~n.threw
              => Held(n) = (Held(m) \ Mapped(old)) \cup Mapped(new)
<1> DEFINE both    == {slot \in Slots : old[slot] # NoService /\ new[slot] # NoService}
           changed == {slot \in both : old[slot] # new[slot]}
           single  == Slots \ both
           same    == both \ changed
           n1 == Exchanged(m, Only(old, changed), Only(new, changed))
           n2 == Exchanged(n1, Only(old, single), Nothing)
           n3 == Exchanged(n2, Nothing, Only(new, single))
<1>1. Replaced(m, old, new) = n3
  BY DEF Replaced
<1>2. changed \in SUBSET Slots /\ single \in SUBSET Slots /\ same \in SUBSET Slots
  OBVIOUS
<1>3. \A slot \in same : old[slot] = new[slot]
  OBVIOUS
<1>4. Slots = (changed \cup single) \cup same /\ changed \cap single = {} /\ same \cap (changed \cup single) = {}
  OBVIOUS
<1> HIDE DEF both, changed, single, same
<1>5. /\ Only(old, changed) \in OfSlots /\ Only(new, changed) \in OfSlots
      /\ Only(old, single) \in OfSlots /\ Only(new, single) \in OfSlots
  BY <1>2, OnlyFacts
<1>6. ExchangedSo(m, n1, Only(old, changed), Only(new, changed), Slots)
  BY <1>5, ExchangedFacts
<1>7. Sound(n1)
  BY <1>6 DEF ExchangedSo
<1> HIDE DEF n1
<1>8. ExchangedSo(n1, n2, Only(old, single), Nothing, Slots)
  BY <1>5, <1>7, ExchangedFacts, NothingFacts
<1>9. Sound(n2)
  BY <1>8 DEF ExchangedSo
<1> HIDE DEF n2
<1>10. ExchangedSo(n2, n3, Nothing, Only(new, single), Slots)
  BY <1>5, <1>9, ExchangedFacts, NothingFacts
<1> HIDE DEF n3
<1>11. Sound(n3) /\ (Agrees(m) => Agrees(n3))
  BY <1>6, <1>8, <1>10 DEF ExchangedSo
<1>12. Silent(m, n3)
  <2>1. m \in Structures /\ n1 \in Structures /\ n2 \in Structures /\ n3 \in Structures
    BY <1>7, <1>9, <1>11 DEF Sound
  <2>2. Silent(m, n1) /\ Silent(n1, n2) /\ Silent(n2, n3)
    BY <1>6, <1>8, <1>10 DEF ExchangedSo
  <2>3. Silent(m, n2)
    BY <2>1, <2>2, SilentAfterSilent
  <2> QED
    BY <2>1, <2>2, <2>3, SilentAfterSilent
<1>13. ASSUME OneSlotEach(old), Mapped(old) \subseteq Held(m), ~n3.threw
       PROVE  Held(n3) = (Held(m) \ Mapped(old)) \cup Mapped(new)
  <2> DEFINE H  == Held(m)
             Oc == ServicesIn(old, changed)
             Os == ServicesIn(old, single)
             Oe == ServicesIn(old, same)
             Nc == ServicesIn(new, changed)
             Ns == ServicesIn(new, single)
  <2>1. ~n2.threw /\ ~n1.threw
    BY <1>8, <1>10, <1>13 DEF ExchangedSo
  <2>2. /\ Oe = ServicesIn(new, same)
        /\ Mapped(old) = (Oc \cup Os) \cup Oe /\ Mapped(new) = (Nc \cup Ns) \cup Oe
    BY <1>3, <1>4 DEF Mapped, ServicesIn
  <2>3. Os \cap Oc = {} /\ Oe \cap (Oc \cup Os) = {}
    BY <1>2, <1>4, <1>13 DEF OneSlotEach, ServicesIn
  <2>4. (Oc \cup Os) \cup Oe \subseteq H
    BY <1>13, <2>2
  <2>5. Held(n1) = (H \ Oc) \cup Nc /\ Nc \cap (H \ Oc) = {}
    <3>1. /\ ServicesIn(Only(old, changed), Slots) = Oc /\ ServicesIn(Only(new, changed), Slots) = Nc
          /\ OneSlotEach(Only(old, changed))
      BY <1>2, <1>13, OnlyFacts
    <3>2. Exact(m, n1, Only(old, changed), Only(new, changed), Slots)
      BY <1>6, <2>1, <2>4, <3>1 DEF ExchangedSo
    <3> QED
      BY <3>1, <3>2 DEF Exact
  <2> HIDE DEF H, Oc, Os, Oe, Nc, Ns
  <2>6. Held(n2) = Held(n1) \ Os
    <3>1. /\ ServicesIn(Only(old, single), Slots) = Os /\ ServicesIn(Nothing, Slots) = {}
          /\ OneSlotEach(Only(old, single))
      BY <1>2, <1>13, OnlyFacts, NothingFacts DEF Os
    <3>2. Os \subseteq Held(n1)
      BY <2>3, <2>4, <2>5
    <3>3. Exact(n1, n2, Only(old, single), Nothing, Slots)
      BY <1>8, <2>1, <3>1, <3>2 DEF ExchangedSo
    <3> QED
      BY <3>1, <3>3 DEF Exact
  <2>7. Held(n3) = Held(n2) \cup Ns
    <3>1. /\ ServicesIn(Nothing, Slots) = {} /\ ServicesIn(Only(new, single), Slots) = Ns
          /\ OneSlotEach(Nothing)
      BY <1>2, OnlyFacts, NothingFacts DEF Ns
    <3>2. Exact(n2, n3, Nothing, Only(new, single), Slots)
      BY <1>10, <1>13, <3>1 DEF ExchangedSo
    <3> QED
      BY <3>1, <3>2 DEF Exact
  <2>8. Held(n3) = (((H \ Oc) \cup Nc) \ Os) \cup Ns
    BY <2>5, <2>6, <2>7
  <2>9. Held(n3) = (H \ ((Oc \cup Os) \cup Oe)) \cup ((Nc \cup Ns) \cup Oe)
    BY ONLY <2>3, <2>4, <2>5, <2>8
  <2> QED
    BY <2>2, <2>9 DEF H
<1> QED
  BY <1>1, <1>11, <1>12, <1>13

-----------------------------------------------------------------------------
\* What controllers are shown changes with a configuration update only.
ShownAlike(m, n) == n.updates \/ \A known : Shown(n, known) = Shown(m, known)

LEMMA SilentIsShownAlike ==
  ASSUME NEW m \in Structures, NEW n, Silent(m, n)
  PROVE  ShownAlike(m, n)
<1>1. CASE n = [m EXCEPT !.threw = n.threw]
  <2>1. n.services = m.services /\ n.flagged = m.flagged /\ n.linked = m.linked /\ n.types = m.types
    BY <1>1 DEF Structures
  <2> QED
    BY <2>1 DEF ShownAlike, Shown, Held
<1> QED
  BY <1>1 DEF Silent, ShownAlike

\* Objects constructed just now.
LEMMA FreshFacts ==
  ASSUME NEW m, Sound(m), NEW S, S \cap Held(m) = {}, \A s \in AllServices \ S : S \cap m.linked[s] = {}
  PROVE  LET n == Fresh(m, S) IN
         /\ Sound(n) /\ Held(n) = Held(m) /\ n.updates = m.updates /\ n.threw = m.threw
         /\ Agrees(m) => Agrees(n)
         /\ \A known : Shown(n, known \ S) = Shown(m, known)
<1> DEFINE n == Fresh(m, S)
           L == [s \in AllServices |-> IF s \in S THEN {} ELSE m.linked[s]]
           T == [s \in AllServices |-> IF s \in S THEN {} ELSE m.types[s]]
<1>1. m \in Structures /\ m.heard = Held(m) /\ Held(m) \subseteq AllServices
  BY DEF Sound, Structures
<1>2. L \in [AllServices -> SUBSET AllServices] /\ T \in [AllServices -> SUBSET Types]
  BY <1>1 DEF Structures
<1>3. n = [m EXCEPT !.flagged = m.flagged \ S, !.linked = L, !.heard = m.heard \ S, !.types = T]
  BY DEF Fresh
<1>4. /\ n \in Structures /\ n.services = m.services /\ n.updates = m.updates /\ n.threw = m.threw
      /\ n.flagged = m.flagged \ S /\ n.primary = m.primary /\ n.linked = L /\ n.types = T
      /\ n.heard = m.heard \ S
  <2> HIDE DEF L, T, n
  <2> QED
    BY <1>1, <1>2, <1>3 DEF Structures
<1> HIDE DEF n
<1>5. Held(n) = Held(m)
  BY <1>4 DEF Held
<1>6. Sound(n)
  BY <1>1, <1>4, <1>5 DEF Sound
<1>7. Agrees(m) => Agrees(n)
  BY <1>4, <1>5 DEF Agrees
<1>8. ASSUME NEW known PROVE Shown(n, known \ S) = Shown(m, known)
  <2>1. ASSUME NEW s \in Held(m)
        PROVE  /\ (s \in n.flagged) = (s \in m.flagged) /\ n.types[s] = m.types[s]
               /\ n.linked[s] \cap (known \ S) = m.linked[s] \cap known
    <3>1. s \in AllServices /\ s \notin S
      BY <1>1
    <3> QED
      BY <1>4, <3>1
  <2> QED
    BY <1>5, <2>1 DEF Shown
<1> QED
  BY <1>4, <1>5, <1>6, <1>7, <1>8 DEF n

\* What an action of the plugin may do to the structure.
Edited(m, n) ==
  /\ Sound(n)
  /\ Agrees(m) => Agrees(n)
  /\ ShownAlike(m, n)
  /\ Held(n) \cap ControllerServices = Held(m) \cap ControllerServices

\* Service s has changed: its flag, its links or its characteristics.
ChangedAt(m, k, s) ==
  /\ k \in Structures
  /\ k.services = m.services /\ k.heard = m.heard /\ k.primary = m.primary
  /\ k.flagged \ {s} = m.flagged \ {s}
  /\ \A t \in AllServices \ {s} : k.linked[t] = m.linked[t] /\ k.types[t] = m.types[t]

LEMMA EditFacts ==
  ASSUME NEW m, Sound(m), NEW s \in AllServices, NEW k, ChangedAt(m, k, s)
  PROVE  Edited(m, ConfigurationChange(k, s))
<1> DEFINE n == ConfigurationChange(k, s)
<1>1. m \in Structures /\ m.heard = Held(m) /\ Held(m) \subseteq AllServices /\ NoTwoAlike(m.services)
  BY DEF Sound, Structures
<1>2. Held(k) = Held(m) /\ k.heard = Held(m) /\ k \in Structures
  BY <1>1 DEF ChangedAt, Held
<1>3. /\ n \in Structures /\ n.services = k.services /\ n.heard = k.heard
      /\ s \notin k.heard => n = k
      /\ s \in k.heard => n.updates
      /\ s \in k.heard /\ s \in Held(k) /\ AgreesBut(k, s) => Agrees(n)
  BY <1>2, ChangeFacts
<1> HIDE DEF n
<1>4. Held(n) = Held(m)
  BY <1>2, <1>3 DEF Held
<1>5. Sound(n)
  BY <1>1, <1>2, <1>3, <1>4 DEF Sound, ChangedAt
<1>6. Agrees(m) => Agrees(n)
  <2>1. CASE s \in Held(m)
    <3>1. Agrees(m) => AgreesBut(k, s)
      BY <1>2 DEF Agrees, AgreesBut, ChangedAt
    <3> QED
      BY <1>2, <1>3, <2>1, <3>1
  <2>2. CASE s \notin Held(m)
    <3>1. n = k
      BY <1>2, <1>3, <2>2
    <3>2. Agrees(m) => Agrees(k)
      BY <1>2, <2>2 DEF Agrees, ChangedAt
    <3> QED
      BY <3>1, <3>2
  <2> QED
    BY <2>1, <2>2
<1>7. ShownAlike(m, n)
  <2>1. CASE s \in Held(m)
    BY <1>2, <1>3, <2>1 DEF ShownAlike
  <2>2. CASE s \notin Held(m)
    <3>1. n = k
      BY <1>2, <1>3, <2>2
    <3>2. \A t \in Held(m) :
            (t \in k.flagged) = (t \in m.flagged) /\ k.linked[t] = m.linked[t] /\ k.types[t] = m.types[t]
      BY <1>1, <2>2 DEF ChangedAt
    <3>3. \A known : Shown(k, known) = Shown(m, known)
      BY <1>2, <3>2 DEF Shown
    <3> QED
      BY <3>1, <3>3 DEF ShownAlike
  <2> QED
    BY <2>1, <2>2
<1> QED
  BY <1>4, <1>5, <1>6, <1>7 DEF Edited, n

-----------------------------------------------------------------------------
(***************************************************************************)
(* The inductive invariant.  A controller is configured or waits for its   *)
(* data, with one map; until configureController throws, the maps are      *)
(* those it constructed and together own what is there; and what was       *)
(* serialized comes back the same way.                                     *)
(***************************************************************************)
Owning(maps, more, held) ==
  /\ \A c \in ServiceControllers : maps[c] \cup more[c] \subseteq ServiceMaps[c]
  /\ OwnedBy(maps) \cup OwnedBy(more) = held \cap ControllerServices

MapsTyped(maps) == maps \in [ServiceControllers -> SUBSET OfSlots]

OneMapEach(maps, more) ==
  \A c \in ServiceControllers : \A x, y \in maps[c] \cup more[c] : x = y

SoundJson(json, thrown) ==
  /\ Sound(Deserialized(json))
  /\ MapsTyped(DeserializedMaps(json)) /\ OneMapEach(DeserializedMaps(json), Unattached)
  /\ ~thrown => Owning(DeserializedMaps(json), Unattached, ToSet(json.services))

Settled(m) == Sound(m) /\ m.updates = FALSE /\ m.threw = FALSE

ServicesIInv ==
  /\ Settled(structure)
  /\ MapsTyped(attached) /\ MapsTyped(restorable) /\ OneMapEach(attached, restorable)
  /\ \A c \in ServiceControllers : attached[c] = {} \/ restorable[c] = {}
  /\ numbered \subseteq AllServices /\ updating \in BOOLEAN /\ threw \in BOOLEAN
  /\ edits \in 0..MaxEdits /\ restores \in 0..MaxRestores
  /\ announced # Representation => updating
  /\ restores = 0 => Agrees(structure)
  /\ ~threw => Owning(attached, restorable, Held(structure))
  /\ \A json \in serialized : SoundJson(json, threw)

-----------------------------------------------------------------------------
\* Maps of controllers.
LEMMA ServiceMapFacts ==
  ASSUME NEW c \in ServiceControllers, NEW map \in ServiceMaps[c]
  PROVE  map \in OfSlots /\ OneSlotEach(map) /\ Mapped(map) \subseteq ControllerServices
<1>1. map \in [Slots -> ControllerServices \cup {NoService}] /\ OneSlotEach(map)
  BY ServicesAssumption DEF OneSlotEach
<1> QED
  BY <1>1 DEF OfSlots, Mapped, AllServices

OwnedIn(M) == UNION {Mapped(map) : map \in M}

\* What the other controllers own.
Others(maps, c) == UNION {OwnedIn(maps[d]) : d \in ServiceControllers \ {c}}

LEMMA OwnedApart ==
  ASSUME NEW maps, NEW c \in ServiceControllers
  PROVE  OwnedBy(maps) = Others(maps, c) \cup OwnedIn(maps[c])
<1>1. OwnedBy(maps) = UNION {OwnedIn(maps[d]) : d \in ServiceControllers}
  BY DEF OwnedBy, OwnedIn
<1> QED
  BY <1>1 DEF Others

LEMMA OwnedInFacts ==
  /\ OwnedIn({}) = {}
  /\ \A map : OwnedIn({map}) = Mapped(map)
BY DEF OwnedIn

\* No service of a controller belongs to another.
LEMMA OthersApart ==
  ASSUME NEW maps, NEW c \in ServiceControllers, NEW map \in ServiceMaps[c],
         \A d \in ServiceControllers : maps[d] \subseteq ServiceMaps[d]
  PROVE  Others(maps, c) \cap Mapped(map) = {}
<1>1. ASSUME NEW d \in ServiceControllers, d # c, NEW x \in maps[d]
      PROVE  Mapped(x) \cap Mapped(map) = {}
  BY <1>1, ServicesAssumption
<1> QED
  BY <1>1 DEF Others, OwnedIn

LEMMA TypedAfter ==
  ASSUME NEW maps, MapsTyped(maps), NEW c \in ServiceControllers, NEW M, M \subseteq OfSlots
  PROVE  /\ MapsTyped([maps EXCEPT ![c] = M])
         /\ [maps EXCEPT ![c] = M][c] = M
         /\ \A d \in ServiceControllers \ {c} : [maps EXCEPT ![c] = M][d] = maps[d]
BY DEF MapsTyped

-----------------------------------------------------------------------------
LEMMA SettledAfter ==
  ASSUME NEW m, Sound(m), NEW s, s = [m EXCEPT !.updates = FALSE, !.threw = FALSE]
  PROVE  /\ Settled(s) /\ Held(s) = Held(m)
         /\ Agrees(m) => Agrees(s)
         /\ \A known : Shown(s, known) = Shown(m, known)
<1>1. /\ s \in Structures /\ s.updates = FALSE /\ s.threw = FALSE
      /\ s.services = m.services /\ s.flagged = m.flagged /\ s.primary = m.primary
      /\ s.linked = m.linked /\ s.types = m.types /\ s.heard = m.heard
  BY DEF Sound, Structures
<1>2. Held(s) = Held(m)
  BY <1>1 DEF Held
<1> QED
  BY <1>1, <1>2 DEF Settled, Sound, Agrees, Shown

\* What the steps that change the structure have in common.
LEMMA StructureStep ==
  ASSUME ServicesIInv, NEW m, Sound(m), Becomes(m), Agrees(structure) => Agrees(m),
         m.updates \/ Shown(m, numbered') = Shown(structure, numbered),
         UNCHANGED <<announced, restores>>
  PROVE  /\ Settled(structure)' /\ Held(structure)' = Held(m) /\ updating' \in BOOLEAN
         /\ (announced # Representation => updating)'
         /\ (restores = 0 => Agrees(structure))'
<1> DEFINE s == structure'
<1>1. s = [m EXCEPT !.updates = FALSE, !.threw = FALSE] /\ updating' = (updating \/ m.updates)
  BY DEF Becomes
<1> HIDE DEF s
<1>2. /\ Settled(s) /\ Held(s) = Held(m)
      /\ Agrees(m) => Agrees(s)
      /\ \A known : Shown(s, known) = Shown(m, known)
  BY <1>1, SettledAfter
<1>3. m.updates \in BOOLEAN
  BY DEF Sound, Structures
<1>4. Representation' = Shown(m, numbered')
  BY <1>2 DEF Representation, s
<1>5. ASSUME announced' # Representation' PROVE updating'
  <2>1. CASE m.updates
    BY <1>1, <2>1
  <2>2. CASE ~m.updates
    <3>1. Representation' = Representation
      BY <1>4, <2>2 DEF Representation
    <3> QED
      BY <1>1, <1>5, <3>1 DEF ServicesIInv
  <2> QED
    BY <2>1, <2>2
<1>6. updating' \in BOOLEAN
  BY <1>1, <1>3 DEF ServicesIInv
<1>7. (restores = 0 => Agrees(structure))'
  BY <1>2 DEF ServicesIInv, s
<1> QED
  BY <1>2, <1>5, <1>6, <1>7 DEF s

\* The rest of a step that serializes nothing.
LEMMA JsonKept ==
  ASSUME ServicesIInv, serialized' = serialized, threw => threw', threw' \in BOOLEAN
  PROVE  \A json \in serialized' : SoundJson(json, threw')
BY DEF ServicesIInv, SoundJson

LEMMA PlainStep ==
  ASSUME ServicesIInv, NEW m, PlainEdit(m), Edited(structure, m)
  PROVE  ServicesIInv'
<1>1. /\ Becomes(m) /\ edits < MaxEdits /\ edits' = edits + 1
      /\ UNCHANGED <<attached, restorable, numbered, serialized, announced, threw, restores>>
  BY DEF PlainEdit, Edit
<1>2. /\ Sound(m) /\ (Agrees(structure) => Agrees(m)) /\ ShownAlike(structure, m)
      /\ Held(m) \cap ControllerServices = Held(structure) \cap ControllerServices
  BY DEF Edited
<1>3. m.updates \/ Shown(m, numbered') = Shown(structure, numbered)
  BY <1>1, <1>2 DEF ShownAlike
<1>4. /\ Settled(structure)' /\ Held(structure)' = Held(m) /\ updating' \in BOOLEAN
      /\ (announced # Representation => updating)'
      /\ (restores = 0 => Agrees(structure))'
  BY <1>1, <1>2, <1>3, StructureStep
<1>5. \A json \in serialized' : SoundJson(json, threw')
  BY <1>1, JsonKept DEF ServicesIInv
<1>6. edits' \in 0..MaxEdits
  BY <1>1, ServicesAssumption DEF ServicesIInv
<1>7. (~threw => Owning(attached, restorable, Held(structure)))'
  BY <1>1, <1>2, <1>4 DEF ServicesIInv, Owning
<1> QED
  BY <1>1, <1>4, <1>5, <1>6, <1>7 DEF ServicesIInv

-----------------------------------------------------------------------------
\* The services of the plugin.
LEMMA AddServiceStep ==
  ASSUME ServicesIInv, NEW s \in PluginServices, AddServiceTo(s)
  PROVE  ServicesIInv'
<1> DEFINE m == WithService(structure, s)
<1>1. ~m.threw /\ PlainEdit(m)
  BY DEF AddServiceTo
<1>2. s \in AllServices /\ s \notin ControllerServices /\ Sound(structure)
  BY ServicesAssumption DEF AllServices, ServicesIInv, Settled
<1>3. /\ Sound(m) /\ (Agrees(structure) => Agrees(m))
      /\ m = [structure EXCEPT !.threw = TRUE] \/ m.updates
      /\ Held(m) = Held(structure) \cup {s}
  BY <1>1, <1>2, WithFacts
<1> HIDE DEF m
<1>4. m.updates
  <2>1. m = [structure EXCEPT !.threw = TRUE] => m.threw
    BY <1>2 DEF Sound, Structures
  <2> QED
    BY <1>1, <1>3, <2>1
<1>5. Edited(structure, m)
  BY <1>2, <1>3, <1>4 DEF Edited, ShownAlike
<1> QED
  BY <1>1, <1>5, PlainStep

LEMMA RemoveServiceStep ==
  ASSUME ServicesIInv, NEW s \in PluginServices, RemoveServiceFrom(s)
  PROVE  ServicesIInv'
<1> DEFINE m == WithoutService(structure, s)
<1>1. PlainEdit(m)
  BY DEF RemoveServiceFrom
<1>2. s \in AllServices /\ s \notin ControllerServices /\ Sound(structure) /\ ~structure.threw
  BY ServicesAssumption DEF AllServices, ServicesIInv, Settled
<1>3. /\ Sound(m) /\ (Agrees(structure) => Agrees(m))
      /\ m = structure \/ m.updates
      /\ Held(m) = Held(structure) \ {s}
  BY <1>2, WithoutFacts
<1> HIDE DEF m
<1>4. Edited(structure, m)
  BY <1>2, <1>3 DEF Edited, ShownAlike
<1> QED
  BY <1>1, <1>4, PlainStep

\* Flags, links and characteristics.
LEMMA SetPrimaryStep ==
  ASSUME ServicesIInv, NEW s \in AllServices, NEW on \in BOOLEAN, SetPrimaryService(s, on)
  PROVE  ServicesIInv'
<1> DEFINE F == IF on THEN structure.flagged \cup {s} ELSE structure.flagged \ {s}
           k == [structure EXCEPT !.flagged = F]
<1>1. PlainEdit(ConfigurationChange(k, s))
  BY DEF SetPrimaryService
<1>2. Sound(structure) /\ structure \in Structures
  BY DEF ServicesIInv, Settled, Sound
<1>3. F \in SUBSET AllServices /\ F \ {s} = structure.flagged \ {s}
  BY <1>2 DEF Structures
<1>4. ChangedAt(structure, k, s)
  <2> HIDE DEF F
  <2> QED
    BY <1>2, <1>3 DEF ChangedAt, Structures
<1> HIDE DEF k
<1> QED
  BY <1>1, <1>2, <1>4, EditFacts, PlainStep

LEMMA LinkStep ==
  ASSUME ServicesIInv, NEW s \in AllServices, NEW L \in SUBSET AllServices,
         PlainEdit(ConfigurationChange([structure EXCEPT !.linked[s] = L], s))
  PROVE  ServicesIInv'
<1> DEFINE k == [structure EXCEPT !.linked[s] = L]
<1>1. Sound(structure) /\ structure \in Structures
  BY DEF ServicesIInv, Settled, Sound
<1>2. ChangedAt(structure, k, s)
  BY <1>1 DEF ChangedAt, Structures
<1> HIDE DEF k
<1>3. PlainEdit(ConfigurationChange(k, s))
  BY DEF k
<1> QED
  BY <1>1, <1>2, <1>3, EditFacts, PlainStep

LEMMA TypeStep ==
  ASSUME ServicesIInv, NEW s \in AllServices, NEW T \in SUBSET Types,
         PlainEdit(ConfigurationChange([structure EXCEPT !.types[s] = T], s))
  PROVE  ServicesIInv'
<1> DEFINE k == [structure EXCEPT !.types[s] = T]
<1>1. Sound(structure) /\ structure \in Structures
  BY DEF ServicesIInv, Settled, Sound
<1>2. ChangedAt(structure, k, s)
  BY <1>1 DEF ChangedAt, Structures
<1> HIDE DEF k
<1>3. PlainEdit(ConfigurationChange(k, s))
  BY DEF k
<1> QED
  BY <1>1, <1>2, <1>3, EditFacts, PlainStep

LEMMA LinksStep ==
  ASSUME ServicesIInv, NEW s \in AllServices, NEW t \in AllServices,
         AddLinkedService(s, t) \/ RemoveLinkedService(s, t)
  PROVE  ServicesIInv'
<1>1. structure.linked[s] \in SUBSET AllServices
  BY DEF ServicesIInv, Settled, Sound, Structures
<1>2. CASE AddLinkedService(s, t)
  <2> DEFINE L == structure.linked[s] \cup {t}
  <2>1. L \in SUBSET AllServices
    BY <1>1
  <2>2. PlainEdit(ConfigurationChange([structure EXCEPT !.linked[s] = L], s))
    BY <1>2 DEF AddLinkedService
  <2> HIDE DEF L
  <2> QED
    BY <2>1, <2>2, LinkStep
<1>3. CASE RemoveLinkedService(s, t)
  <2> DEFINE L == structure.linked[s] \ {t}
  <2>1. L \in SUBSET AllServices
    BY <1>1
  <2>2. PlainEdit(ConfigurationChange([structure EXCEPT !.linked[s] = L], s))
    BY <1>3 DEF RemoveLinkedService
  <2> HIDE DEF L
  <2> QED
    BY <2>1, <2>2, LinkStep
<1> QED
  BY <1>2, <1>3

LEMMA TypesStep ==
  ASSUME ServicesIInv, NEW s \in AllServices, NEW type \in Types,
         AddCharacteristic(s, type) \/ RemoveCharacteristic(s, type)
  PROVE  ServicesIInv'
<1>1. structure.types[s] \in SUBSET Types
  BY DEF ServicesIInv, Settled, Sound, Structures
<1>2. CASE AddCharacteristic(s, type)
  <2> DEFINE T == structure.types[s] \cup {type}
  <2>1. T \in SUBSET Types
    BY <1>1
  <2>2. PlainEdit(ConfigurationChange([structure EXCEPT !.types[s] = T], s))
    BY <1>2 DEF AddCharacteristic
  <2> HIDE DEF T
  <2> QED
    BY <2>1, <2>2, TypeStep
<1>3. CASE RemoveCharacteristic(s, type)
  <2> DEFINE T == structure.types[s] \ {type}
  <2>1. T \in SUBSET Types
    BY <1>1
  <2>2. PlainEdit(ConfigurationChange([structure EXCEPT !.types[s] = T], s))
    BY <1>3 DEF RemoveCharacteristic
  <2> HIDE DEF T
  <2> QED
    BY <2>1, <2>2, TypeStep
<1> QED
  BY <1>2, <1>3

-----------------------------------------------------------------------------
\* A controller is configured, with map in place of M, which is what it owned; or it threw.
LEMMA ConfiguredStep ==
  ASSUME ServicesIInv, NEW c \in ServiceControllers, NEW map \in ServiceMaps[c], NEW m, Sound(m), Becomes(m),
         attached[c] = {},
         Agrees(structure) => Agrees(m),
         m.updates \/ Shown(m, numbered') = Shown(structure, numbered),
         m.threw \in BOOLEAN, threw' = (threw \/ m.threw),
         attached' = IF m.threw THEN attached ELSE [attached EXCEPT ![c] = {map}],
         restorable' = IF m.threw THEN restorable ELSE [restorable EXCEPT ![c] = {}],
         numbered' \subseteq numbered, Edit,
         UNCHANGED <<serialized, announced, restores>>,
         ~threw' => Held(m) = (Held(structure) \ OwnedIn(restorable[c])) \cup Mapped(map)
  PROVE  ServicesIInv'
<1>1. /\ Settled(structure)' /\ Held(structure)' = Held(m) /\ updating' \in BOOLEAN
      /\ (announced # Representation => updating)'
      /\ (restores = 0 => Agrees(structure))'
  BY StructureStep
<1>2. \A json \in serialized' : SoundJson(json, threw')
  BY JsonKept DEF ServicesIInv
<1>3. edits' \in 0..MaxEdits
  BY ServicesAssumption DEF ServicesIInv, Edit
<1>4. map \in OfSlots /\ OneSlotEach(map) /\ Mapped(map) \subseteq ControllerServices
  BY ServiceMapFacts
<1>5. MapsTyped(attached) /\ MapsTyped(restorable)
  BY DEF ServicesIInv
<1>6. CASE m.threw
  <2>1. attached' = attached /\ restorable' = restorable /\ threw' = TRUE
    BY <1>6
  <2> QED
    BY <1>1, <1>2, <1>3, <2>1 DEF ServicesIInv, OneMapEach
<1>7. CASE ~m.threw
  <2>1. /\ attached' = [attached EXCEPT ![c] = {map}] /\ restorable' = [restorable EXCEPT ![c] = {}]
        /\ threw' = threw
    BY <1>7 DEF ServicesIInv
  <2>2. /\ MapsTyped(attached') /\ MapsTyped(restorable')
        /\ attached'[c] = {map} /\ restorable'[c] = {}
        /\ \A d \in ServiceControllers \ {c} : attached'[d] = attached[d] /\ restorable'[d] = restorable[d]
    <3> DEFINE A == [attached EXCEPT ![c] = {map}]
               none == {}
               R == [restorable EXCEPT ![c] = none]
    <3>1. {map} \subseteq OfSlots /\ none \subseteq OfSlots /\ none = {}
      BY <1>4
    <3> HIDE DEF none
    <3>2. MapsTyped(A) /\ A[c] = {map} /\ \A d \in ServiceControllers \ {c} : A[d] = attached[d]
      BY <1>5, <3>1, TypedAfter
    <3>3. MapsTyped(R) /\ R[c] = none /\ \A d \in ServiceControllers \ {c} : R[d] = restorable[d]
      BY <1>5, <3>1, TypedAfter
    <3> HIDE DEF A, R
    <3>4. attached' = A /\ restorable' = R
      BY <2>1, <3>1 DEF A, R
    <3> QED
      BY <3>1, <3>2, <3>3, <3>4
  <2>3. \A d \in ServiceControllers : attached'[d] = {} \/ restorable'[d] = {}
    BY <2>2 DEF ServicesIInv
  <2>4. OneMapEach(attached', restorable')
    BY <2>2 DEF ServicesIInv, OneMapEach
  <2>5. ASSUME ~threw' PROVE Owning(attached', restorable', Held(m))
    <3> DEFINE H == Held(structure)
               OA == Others(attached, c)
               OR == Others(restorable, c)
               M == OwnedIn(restorable[c])
    <3>1. Owning(attached, restorable, H)
      BY <2>1, <2>5 DEF ServicesIInv
    <3>2. \A d \in ServiceControllers : attached[d] \subseteq ServiceMaps[d] /\ restorable[d] \subseteq ServiceMaps[d]
      BY <3>1 DEF Owning
    <3>3. \A d \in ServiceControllers : attached'[d] \cup restorable'[d] \subseteq ServiceMaps[d]
      BY <2>2, <3>2
    <3>4. OwnedBy(attached) = OA /\ OwnedBy(attached') = OA \cup Mapped(map)
      <4>1. Others(attached', c) = OA
        BY <2>2 DEF Others
      <4>2. OwnedBy(attached) = OA \cup OwnedIn(attached[c]) /\ OwnedBy(attached') = OA \cup OwnedIn(attached'[c])
        BY <4>1, OwnedApart
      <4> QED
        BY <2>2, <4>2, OwnedInFacts
    <3>5. OwnedBy(restorable) = OR \cup M /\ OwnedBy(restorable') = OR
      <4>1. Others(restorable', c) = OR
        BY <2>2 DEF Others
      <4>2. OwnedBy(restorable) = OR \cup M /\ OwnedBy(restorable') = OR \cup OwnedIn(restorable'[c])
        BY <4>1, OwnedApart
      <4> QED
        BY <2>2, <4>2, OwnedInFacts
    <3>6. (OA \cup OR) \cap M = {}
      <4>1. ASSUME NEW old \in restorable[c] PROVE (OA \cup OR) \cap Mapped(old) = {}
        <5>1. old \in ServiceMaps[c]
          BY <3>2
        <5> QED
          BY <3>2, <5>1, OthersApart
      <4> QED
        BY <4>1 DEF OwnedIn
    <3>7. OA \cup (OR \cup M) = H \cap ControllerServices
      BY <3>1, <3>4, <3>5 DEF Owning
    <3>8. Held(m) = (H \ M) \cup Mapped(map)
      BY <2>5
    <3> HIDE DEF H, OA, OR, M
    <3>9. (OA \cup Mapped(map)) \cup OR = Held(m) \cap ControllerServices
      BY <1>4, <3>6, <3>7, <3>8
    <3> QED
      BY <3>3, <3>4, <3>5, <3>9 DEF Owning
  <2>6. numbered' \subseteq AllServices /\ threw' \in BOOLEAN /\ restores' \in 0..MaxRestores
    BY <2>1 DEF ServicesIInv
  <2> QED
    BY <1>1, <1>2, <1>3, <2>2, <2>3, <2>4, <2>5, <2>6 DEF ServicesIInv
<1> QED
  BY <1>6, <1>7

LEMMA ConfigureNewStep ==
  ASSUME ServicesIInv, NEW c \in ServiceControllers, NEW map \in ServiceMaps[c], ConfigureNew(c, map)
  PROVE  ServicesIInv'
<1> DEFINE S == Mapped(map)
           f == Fresh(structure, S)
           m == Exchanged(f, Nothing, map)
<1>1. /\ attached[c] = {} /\ restorable[c] = {} /\ Unknown(S) /\ Edit /\ Becomes(m)
      /\ threw' = (threw \/ m.threw)
      /\ attached' = IF m.threw THEN attached ELSE [attached EXCEPT ![c] = {map}]
      /\ numbered' = numbered \ S
      /\ UNCHANGED <<restorable, serialized, announced, restores>>
  BY DEF ConfigureNew
<1>2. Sound(structure) /\ structure.updates = FALSE /\ structure.threw = FALSE
  BY DEF ServicesIInv, Settled
<1>3. map \in OfSlots /\ OneSlotEach(map) /\ S = ServicesIn(map, Slots)
  BY ServiceMapFacts, MappedFacts
<1>4. /\ Sound(f) /\ Held(f) = Held(structure) /\ f.threw = FALSE
      /\ Agrees(structure) => Agrees(f)
      /\ Shown(f, numbered \ S) = Shown(structure, numbered)
  <2> HIDE DEF S
  <2> QED
    BY <1>1, <1>2, FreshFacts DEF Unknown
<1> HIDE DEF S, f
<1>5. ExchangedSo(f, m, Nothing, map, Slots)
  BY <1>3, <1>4, ExchangedFacts, NothingFacts
<1> HIDE DEF m
<1>6. Sound(m) /\ (Agrees(f) => Agrees(m)) /\ Silent(f, m) /\ m.threw \in BOOLEAN
  BY <1>5 DEF ExchangedSo, Sound, Structures
<1>7. m.updates \/ Shown(m, numbered') = Shown(structure, numbered)
  <2>1. ShownAlike(f, m)
    BY <1>4, <1>6, SilentIsShownAlike DEF Sound
  <2> QED
    BY <1>1, <1>4, <2>1 DEF ShownAlike
<1>8. ~threw' => Held(m) = (Held(structure) \ OwnedIn(restorable[c])) \cup Mapped(map)
  <2> SUFFICES ASSUME ~m.threw PROVE Held(m) = (Held(structure) \ OwnedIn(restorable[c])) \cup Mapped(map)
    BY <1>1
  <2>1. ServicesIn(Nothing, Slots) = {} /\ OneSlotEach(Nothing)
    BY NothingFacts
  <2>2. Exact(f, m, Nothing, map, Slots)
    BY <1>5, <2>1 DEF ExchangedSo
  <2> QED
    BY <1>1, <1>3, <1>4, <2>1, <2>2, OwnedInFacts DEF Exact, S
<1>9. restorable' = IF m.threw THEN restorable ELSE [restorable EXCEPT ![c] = {}]
  BY <1>1 DEF ServicesIInv, MapsTyped
<1>10. numbered' \subseteq numbered
  BY <1>1
<1> QED
  BY <1>1, <1>4, <1>6, <1>7, <1>8, <1>9, <1>10, ConfiguredStep

LEMMA ConfigureRestoredStep ==
  ASSUME ServicesIInv, NEW c \in ServiceControllers, NEW new \in ServiceMaps[c], NEW old \in restorable[c],
         ConfigureRestored(c, old, new)
  PROVE  ServicesIInv'
<1> DEFINE S == Mapped(new) \ Mapped(old)
           f == Fresh(structure, S)
           m == IF new = old THEN f ELSE Replaced(f, old, new)
<1>1. /\ attached[c] = {} /\ Unknown(S) /\ Edit /\ Becomes(m)
      /\ threw' = (threw \/ m.threw)
      /\ attached' = IF m.threw THEN attached ELSE [attached EXCEPT ![c] = {new}]
      /\ restorable' = IF m.threw THEN restorable ELSE [restorable EXCEPT ![c] = {}]
      /\ numbered' = numbered \ S
      /\ UNCHANGED <<serialized, announced, restores>>
  BY DEF ConfigureRestored
<1>2. Sound(structure) /\ structure.updates = FALSE /\ structure.threw = FALSE
  BY DEF ServicesIInv, Settled
<1>3. new \in OfSlots /\ old \in OfSlots
  BY ServiceMapFacts DEF ServicesIInv, MapsTyped
<1>4. /\ Sound(f) /\ Held(f) = Held(structure) /\ f.threw = FALSE
      /\ Agrees(structure) => Agrees(f)
      /\ Shown(f, numbered \ S) = Shown(structure, numbered)
  <2> HIDE DEF S
  <2> QED
    BY <1>1, <1>2, FreshFacts DEF Unknown
<1> HIDE DEF S, f
<1>5. /\ Sound(m) /\ (Agrees(f) => Agrees(m)) /\ Silent(f, m)
      /\ OneSlotEach(old) /\ Mapped(old) \subseteq Held(f) /\ ~m.threw
           => Held(m) = (Held(f) \ Mapped(old)) \cup Mapped(new)
  <2>1. CASE new = old
    <3>1. m = f
      BY <2>1
    <3>2. Silent(f, f)
      BY <1>4, SilentIfSame DEF Sound
    <3>3. Mapped(old) \subseteq Held(f) => Held(f) = (Held(f) \ Mapped(old)) \cup Mapped(new)
      BY <2>1
    <3> QED
      BY <1>4, <3>1, <3>2, <3>3
  <2>2. CASE new # old
    BY <1>3, <1>4, <2>2, ReplacedFacts
  <2> QED
    BY <2>1, <2>2
<1> HIDE DEF m
<1>6. m.threw \in BOOLEAN
  BY <1>5 DEF Sound, Structures
<1>7. m.updates \/ Shown(m, numbered') = Shown(structure, numbered)
  <2>1. ShownAlike(f, m)
    BY <1>4, <1>5, SilentIsShownAlike DEF Sound
  <2> QED
    BY <1>1, <1>4, <2>1 DEF ShownAlike
<1>8. ~threw' => Held(m) = (Held(structure) \ OwnedIn(restorable[c])) \cup Mapped(new)
  <2> SUFFICES ASSUME ~m.threw, ~threw
               PROVE  Held(m) = (Held(structure) \ OwnedIn(restorable[c])) \cup Mapped(new)
    BY <1>1, <1>6 DEF ServicesIInv
  <2>1. restorable[c] = {old}
    BY DEF ServicesIInv, OneMapEach
  <2>2. OwnedIn(restorable[c]) = Mapped(old)
    BY <2>1, OwnedInFacts
  <2>3. Owning(attached, restorable, Held(structure))
    BY DEF ServicesIInv
  <2>4. old \in ServiceMaps[c]
    BY <2>3 DEF Owning
  <2>5. OneSlotEach(old)
    BY <2>4, ServiceMapFacts
  <2>6. Mapped(old) \subseteq Held(structure)
    <3>1. Mapped(old) \subseteq OwnedBy(restorable)
      BY DEF OwnedBy
    <3> QED
      BY <2>3, <3>1 DEF Owning
  <2> QED
    BY <1>4, <1>5, <2>2, <2>5, <2>6
<1>9. numbered' \subseteq numbered
  BY <1>1
<1> QED
  BY <1>1, <1>4, <1>5, <1>6, <1>7, <1>8, <1>9, ConfiguredStep

LEMMA RemoveControllerStep ==
  ASSUME ServicesIInv, NEW c \in ServiceControllers, RemoveController(c)
  PROVE  ServicesIInv'
<1>1. PICK map \in attached[c] :
        /\ Edit
        /\ Becomes(Exchanged(structure, map, Nothing))
        /\ attached' = [attached EXCEPT ![c] = {}]
        /\ restorable' = [restorable EXCEPT ![c] = {}]
        /\ UNCHANGED <<numbered, serialized, announced, threw, restores>>
  BY DEF RemoveController
<1> DEFINE m == Exchanged(structure, map, Nothing)
<1>2. Sound(structure) /\ structure \in Structures /\ structure.threw = FALSE
  BY DEF ServicesIInv, Settled, Sound
<1>3. /\ attached[c] = {map} /\ restorable[c] = {} /\ map \in OfSlots
      /\ MapsTyped(attached) /\ MapsTyped(restorable)
  BY DEF ServicesIInv, OneMapEach, MapsTyped
<1>4. ExchangedSo(structure, m, map, Nothing, Slots)
  BY <1>2, <1>3, ExchangedFacts, NothingFacts
<1>5. Becomes(m)
  BY <1>1
<1> HIDE DEF m
<1>6. Sound(m) /\ (Agrees(structure) => Agrees(m)) /\ Silent(structure, m) /\ ~m.threw
  BY <1>2, <1>4 DEF ExchangedSo
<1>7. m.updates \/ Shown(m, numbered') = Shown(structure, numbered)
  <2>1. ShownAlike(structure, m)
    BY <1>2, <1>6, SilentIsShownAlike
  <2> QED
    BY <1>1, <2>1 DEF ShownAlike
<1>8. /\ Settled(structure)' /\ Held(structure)' = Held(m) /\ updating' \in BOOLEAN
      /\ (announced # Representation => updating)'
      /\ (restores = 0 => Agrees(structure))'
  BY <1>1, <1>5, <1>6, <1>7, StructureStep
<1>9. \A json \in serialized' : SoundJson(json, threw')
  BY <1>1, JsonKept DEF ServicesIInv
<1>10. edits' \in 0..MaxEdits
  BY <1>1, ServicesAssumption DEF ServicesIInv, Edit
<1>11. /\ MapsTyped(attached') /\ MapsTyped(restorable')
       /\ attached'[c] = {} /\ restorable'[c] = {}
       /\ \A d \in ServiceControllers \ {c} : attached'[d] = attached[d] /\ restorable'[d] = restorable[d]
  <2> DEFINE none == {}
  <2>1. none \subseteq OfSlots /\ none = {}
    OBVIOUS
  <2> HIDE DEF none
  <2> DEFINE A == [attached EXCEPT ![c] = none]
             R == [restorable EXCEPT ![c] = none]
  <2>2. MapsTyped(A) /\ A[c] = none /\ \A d \in ServiceControllers \ {c} : A[d] = attached[d]
    BY <1>3, <2>1, TypedAfter
  <2>3. MapsTyped(R) /\ R[c] = none /\ \A d \in ServiceControllers \ {c} : R[d] = restorable[d]
    BY <1>3, <2>1, TypedAfter
  <2>4. attached' = A /\ restorable' = R
    BY <1>1, <2>1
  <2> HIDE DEF A, R
  <2> QED
    BY <2>1, <2>2, <2>3, <2>4
<1>12. \A d \in ServiceControllers : attached'[d] = {} \/ restorable'[d] = {}
  BY <1>11 DEF ServicesIInv
<1>13. OneMapEach(attached', restorable')
  BY <1>11 DEF ServicesIInv, OneMapEach
<1>14. ASSUME ~threw' PROVE Owning(attached', restorable', Held(m))
  <2> DEFINE H == Held(structure)
             OA == Others(attached, c)
             OR == Others(restorable, c)
  <2>1. Owning(attached, restorable, H)
    BY <1>1, <1>14 DEF ServicesIInv
  <2>2. \A d \in ServiceControllers : attached[d] \subseteq ServiceMaps[d] /\ restorable[d] \subseteq ServiceMaps[d]
    BY <2>1 DEF Owning
  <2>3. \A d \in ServiceControllers : attached'[d] \cup restorable'[d] \subseteq ServiceMaps[d]
    BY <1>11, <2>2
  <2>4. map \in ServiceMaps[c]
    BY <2>2
  <2>5. OneSlotEach(map) /\ Mapped(map) \subseteq ControllerServices
    BY <2>4, ServiceMapFacts
  <2>6. (OA \cup OR) \cap Mapped(map) = {}
    BY <2>2, <2>4, OthersApart
  <2>7. OwnedBy(attached) = OA \cup Mapped(map) /\ OwnedBy(attached') = OA
    <3>1. Others(attached', c) = OA
      BY <1>11 DEF Others
    <3>2. OwnedBy(attached) = OA \cup OwnedIn(attached[c]) /\ OwnedBy(attached') = OA \cup OwnedIn(attached'[c])
      BY <3>1, OwnedApart
    <3> QED
      BY <1>3, <1>11, <3>2, OwnedInFacts
  <2>8. OwnedBy(restorable) = OR /\ OwnedBy(restorable') = OR
    <3>1. Others(restorable', c) = OR
      BY <1>11 DEF Others
    <3>2. OwnedBy(restorable) = OR \cup OwnedIn(restorable[c]) /\ OwnedBy(restorable') = OR \cup OwnedIn(restorable'[c])
      BY <3>1, OwnedApart
    <3> QED
      BY <1>3, <1>11, <3>2, OwnedInFacts
  <2>9. (OA \cup Mapped(map)) \cup OR = H \cap ControllerServices
    BY <2>1, <2>7, <2>8 DEF Owning
  <2>10. Held(m) = H \ Mapped(map)
    <3>1. ServicesIn(map, Slots) = Mapped(map) /\ ServicesIn(Nothing, Slots) = {}
      BY MappedFacts, NothingFacts
    <3>2. Exact(structure, m, map, Nothing, Slots)
      BY <1>4, <1>6, <2>5, <2>9, <3>1 DEF ExchangedSo
    <3> QED
      BY <3>1, <3>2 DEF Exact
  <2> HIDE DEF H, OA, OR
  <2>11. OA \cup OR = Held(m) \cap ControllerServices
    BY <2>6, <2>9, <2>10
  <2> QED
    BY <2>3, <2>7, <2>8, <2>11 DEF Owning
<1>15. numbered' \subseteq AllServices /\ threw' \in BOOLEAN /\ restores' \in 0..MaxRestores
  BY <1>1 DEF ServicesIInv
<1> QED
  BY <1>8, <1>9, <1>10, <1>11, <1>12, <1>13, <1>14, <1>15 DEF ServicesIInv

-----------------------------------------------------------------------------
LEMMA UpdateStep ==
  ASSUME ServicesIInv, UpdateConfiguration
  PROVE  ServicesIInv'
<1>1. /\ updating' = FALSE /\ numbered' = numbered \cup Held(structure)
      /\ announced' = Shown(structure, numbered')
      /\ UNCHANGED <<structure, attached, restorable, serialized, threw, edits, restores>>
  BY DEF UpdateConfiguration
<1>2. numbered' \subseteq AllServices
  BY <1>1 DEF ServicesIInv, Settled, Sound, Structures
<1>3. announced' = Representation'
  BY <1>1 DEF Representation
<1>4. \A json \in serialized' : SoundJson(json, threw')
  BY <1>1, JsonKept DEF ServicesIInv
<1> QED
  BY <1>1, <1>2, <1>3, <1>4 DEF ServicesIInv

\* What serialize makes of a map, and what deserialize makes of that.
NamesOf(map) == [slot \in {t \in Slots : map[t] # NoService} |-> Kind[map[slot]]]

OfKind(list, kind) == {t \in ToSet(list) : Kind[t] = kind}

FoundAgain(list, named) ==
  [slot \in Slots |-> IF slot \in DOMAIN named /\ OfKind(list, named[slot]) # {}
                      THEN CHOOSE t \in OfKind(list, named[slot]) : TRUE ELSE NoService]

LEMMA FoundTyped ==
  ASSUME NEW list, ToSet(list) \subseteq AllServices, NEW named
  PROVE  FoundAgain(list, named) \in OfSlots
<1>1. ASSUME NEW kind, OfKind(list, kind) # {}
      PROVE  (CHOOSE t \in OfKind(list, kind) : TRUE) \in AllServices
  BY <1>1 DEF OfKind
<1> QED
  BY <1>1 DEF FoundAgain, OfSlots

LEMMA FoundSame ==
  ASSUME NEW list \in Seq(AllServices), NoTwoAlike(list), NEW map \in OfSlots, Mapped(map) \subseteq ToSet(list)
  PROVE  FoundAgain(list, NamesOf(map)) = map
<1> DEFINE named == NamesOf(map)
           again == FoundAgain(list, named)
<1>1. DOMAIN named = {t \in Slots : map[t] # NoService} /\ \A slot \in DOMAIN named : named[slot] = Kind[map[slot]]
  BY DEF NamesOf
<1> HIDE DEF named
<1>2. ASSUME NEW slot \in Slots PROVE again[slot] = map[slot]
  <2>1. CASE map[slot] = NoService
    BY <1>1, <2>1 DEF FoundAgain
  <2>2. CASE map[slot] # NoService
    <3>1. map[slot] \in ToSet(list)
      BY <2>2 DEF Mapped
    <3>2. OfKind(list, Kind[map[slot]]) = {map[slot]}
      <4>1. \A t \in ToSet(list) : Kind[t] = Kind[map[slot]] => t = map[slot]
        BY <3>1 DEF ToSet, NoTwoAlike
      <4> QED
        BY <3>1, <4>1 DEF OfKind
    <3>3. named[slot] = Kind[map[slot]] /\ slot \in DOMAIN named
      BY <1>1, <2>2
    <3>4. again[slot] = CHOOSE t \in OfKind(list, named[slot]) : TRUE
      BY <3>2, <3>3 DEF FoundAgain
    <3>5. (CHOOSE t \in {map[slot]} : TRUE) = map[slot]
      OBVIOUS
    <3> QED
      BY <3>2, <3>3, <3>4, <3>5
  <2> QED
    BY <2>1, <2>2
<1>3. again = [slot \in Slots |-> again[slot]] /\ map = [slot \in Slots |-> map[slot]]
  BY DEF FoundAgain, OfSlots
<1> HIDE DEF again
<1>4. again = map
  BY <1>2, <1>3
<1> QED
  BY <1>4 DEF again, named

LEMMA SerializationIsSound ==
  ASSUME ServicesIInv
  PROVE  SoundJson(Serialization, threw)
<1> DEFINE json == Serialization
           D == Deserialized(json)
           maps == DeserializedMaps(json)
           list == structure.services
<1>1. /\ structure \in Structures /\ list \in Seq(AllServices) /\ NoTwoAlike(list)
      /\ ToSet(list) = Held(structure) /\ Held(structure) \subseteq AllServices
  BY DEF ServicesIInv, Settled, Sound, Structures, Held
<1>2. /\ json.services = list /\ json.flagged = structure.flagged /\ json.types = structure.types
      /\ json.controllers = [c \in ServiceControllers |-> SerializedMaps(c)]
  BY DEF Serialization
<1>3. Sound(D)
  <2> DEFINE F == {s \in AllServices : RestoredService(json, s).primary}
             T == [s \in AllServices |-> RestoredService(json, s).types]
             named(kind) == {t \in ToSet(json.services) : Kind[t] = kind}
             L == [s \in AllServices |-> UNION {named(kind) : kind \in json.linked[s]}]
  <2>1. D = [services |-> json.services, flagged |-> F, primary |-> NoService, linked |-> L, types |-> T,
             heard |-> ToSet(json.services), updates |-> TRUE, threw |-> FALSE]
    BY DEF Deserialized
  <2>2. F \in SUBSET AllServices
    OBVIOUS
  <2>3. L \in [AllServices -> SUBSET AllServices]
    BY <1>1, <1>2
  <2>4. T \in [AllServices -> SUBSET Types]
    <3>1. ASSUME NEW s \in AllServices PROVE RestoredService(json, s).types \in SUBSET Types
      BY <1>1, <1>2 DEF RestoredService, Structures
    <3> QED
      BY <3>1
  <2> HIDE DEF F, T, L, D, json
  <2>5. D \in Structures /\ D.services = list /\ D.heard = ToSet(list)
    BY <1>1, <1>2, <2>1, <2>2, <2>3, <2>4 DEF Structures
  <2> QED
    BY <1>1, <2>5 DEF Sound, Held
<1>4. ASSUME NEW c \in ServiceControllers
      PROVE  maps[c] = {FoundAgain(list, NamesOf(map)) : map \in attached[c] \cup restorable[c]}
  <2>1. maps[c] = {FoundAgain(list, named) : named \in json.controllers[c]}
    BY <1>2 DEF DeserializedMaps, FoundAgain, OfKind
  <2>2. json.controllers[c] = {NamesOf(map) : map \in attached[c] \cup restorable[c]}
    BY <1>2 DEF SerializedMaps, NamesOf
  <2> QED
    BY <2>1, <2>2
<1>5. MapsTyped(maps)
  <2>1. maps = [c \in ServiceControllers |-> maps[c]]
    BY DEF DeserializedMaps
  <2>2. ASSUME NEW c \in ServiceControllers PROVE maps[c] \in SUBSET OfSlots
    BY <1>1, <1>4, FoundTyped
  <2> HIDE DEF maps
  <2> QED
    BY <2>1, <2>2 DEF MapsTyped
<1>6. OneMapEach(maps, Unattached)
  <2>1. ASSUME NEW c \in ServiceControllers, NEW x \in maps[c], NEW y \in maps[c] PROVE x = y
    <3> HIDE DEF maps, list
    <3>1. PICK v \in attached[c] \cup restorable[c] : x = FoundAgain(list, NamesOf(v))
      BY <1>4
    <3>2. PICK w \in attached[c] \cup restorable[c] : y = FoundAgain(list, NamesOf(w))
      BY <1>4
    <3>3. v = w
      BY DEF ServicesIInv, OneMapEach
    <3> QED
      BY <3>1, <3>2, <3>3
  <2> HIDE DEF maps
  <2> QED
    BY <2>1 DEF OneMapEach, Unattached
<1>7. ASSUME ~threw PROVE Owning(maps, Unattached, ToSet(json.services))
  <2>1. Owning(attached, restorable, Held(structure))
    BY <1>7 DEF ServicesIInv
  <2>2. ASSUME NEW c \in ServiceControllers
        PROVE  maps[c] = attached[c] \cup restorable[c]
    <3>1. ASSUME NEW map \in attached[c] \cup restorable[c]
          PROVE  FoundAgain(list, NamesOf(map)) = map
      <4>1. map \in OfSlots
        BY DEF ServicesIInv, MapsTyped
      <4>2. Mapped(map) \subseteq OwnedBy(attached) \cup OwnedBy(restorable)
        BY DEF OwnedBy
      <4>3. Mapped(map) \subseteq ToSet(list)
        BY <1>1, <2>1, <4>2 DEF Owning
      <4> HIDE DEF list
      <4> QED
        BY <1>1, <4>1, <4>3, FoundSame
    <3> HIDE DEF maps, list
    <3> QED
      BY <1>4, <3>1
  <2> HIDE DEF maps
  <2>3. OwnedBy(maps) = OwnedBy(attached) \cup OwnedBy(restorable)
    BY <2>2 DEF OwnedBy
  <2>4. OwnedBy(Unattached) = {} /\ \A c \in ServiceControllers : Unattached[c] = {}
    BY DEF OwnedBy, Unattached
  <2>5. \A c \in ServiceControllers : maps[c] \cup Unattached[c] \subseteq ServiceMaps[c]
    BY <2>1, <2>2, <2>4 DEF Owning
  <2>6. ToSet(json.services) = Held(structure)
    BY <1>1, <1>2
  <2> QED
    BY <2>1, <2>3, <2>4, <2>5, <2>6 DEF Owning
<1> QED
  BY <1>3, <1>5, <1>6, <1>7 DEF SoundJson

LEMMA SerializeStep ==
  ASSUME ServicesIInv, Serialize
  PROVE  ServicesIInv'
<1>1. /\ serialized' = {Serialization}
      /\ UNCHANGED <<structure, attached, restorable, numbered, announced, updating, threw, edits, restores>>
  BY DEF Serialize
<1>2. \A json \in serialized' : SoundJson(json, threw')
  BY <1>1, SerializationIsSound
<1>3. Representation' = Representation
  BY <1>1 DEF Representation
<1> QED
  BY <1>1, <1>2, <1>3 DEF ServicesIInv

LEMMA RestoreStep ==
  ASSUME ServicesIInv, Restore
  PROVE  ServicesIInv'
<1>1. PICK json \in serialized :
        /\ restores < MaxRestores
        /\ restores' = restores + 1
        /\ Becomes(Deserialized(json))
        /\ attached' = Unattached
        /\ restorable' = DeserializedMaps(json)
        /\ numbered' = {}
        /\ UNCHANGED <<serialized, announced, threw, edits>>
  BY DEF Restore
<1> DEFINE m == Deserialized(json)
           s == structure'
<1>2. SoundJson(json, threw)
  BY DEF ServicesIInv
<1>3. Sound(m) /\ m.updates = TRUE /\ m.services = json.services
  BY <1>2 DEF SoundJson, Deserialized
<1>4. s = [m EXCEPT !.updates = FALSE, !.threw = FALSE] /\ updating' = (updating \/ m.updates)
  BY <1>1 DEF Becomes
<1> HIDE DEF s, m
<1>5. Settled(s) /\ Held(s) = ToSet(json.services)
  BY <1>3, <1>4, SettledAfter DEF Held
<1>6. updating' = TRUE
  BY <1>3, <1>4 DEF ServicesIInv
<1>7. restores' \in 0..MaxRestores /\ restores' # 0
  BY <1>1, ServicesAssumption DEF ServicesIInv
<1>8. MapsTyped(attached') /\ MapsTyped(restorable') /\ OneMapEach(attached', restorable')
  BY <1>1, <1>2 DEF SoundJson, Unattached, MapsTyped, OneMapEach
<1>9. \A c \in ServiceControllers : attached'[c] = {} \/ restorable'[c] = {}
  BY <1>1 DEF Unattached
<1>10. ASSUME ~threw' PROVE Owning(attached', restorable', Held(s))
  BY <1>1, <1>2, <1>5, <1>10 DEF SoundJson, Owning
<1>11. \A j \in serialized' : SoundJson(j, threw')
  BY <1>1, JsonKept DEF ServicesIInv
<1> QED
  BY <1>1, <1>5, <1>6, <1>7, <1>8, <1>9, <1>10, <1>11 DEF ServicesIInv, s

-----------------------------------------------------------------------------
LEMMA ServicesInitially == ServicesInit => ServicesIInv
<1> SUFFICES ASSUME ServicesInit PROVE ServicesIInv
  OBVIOUS
<1>1. /\ structure = Empty /\ attached = Unattached /\ restorable = Unattached
      /\ numbered = {} /\ serialized = {} /\ announced = Representation
      /\ updating = FALSE /\ threw = FALSE /\ edits = 0 /\ restores = 0
  BY DEF ServicesInit
<1>2. /\ Empty \in Structures /\ Empty.services = <<>> /\ Empty.flagged = {} /\ Empty.primary = NoService
      /\ Empty.heard = {} /\ Empty.updates = FALSE /\ Empty.threw = FALSE
  BY DEF Empty, Structures
<1>3. Held(Empty) = {}
  BY <1>2 DEF Held, ToSet
<1>4. NoTwoAlike(<<>>)
  BY DEF NoTwoAlike
<1>5. Settled(Empty) /\ Agrees(Empty)
  BY <1>2, <1>3, <1>4 DEF Settled, Sound, Agrees
<1>6. MapsTyped(Unattached) /\ OneMapEach(Unattached, Unattached) /\ OwnedBy(Unattached) = {}
      /\ \A c \in ServiceControllers : Unattached[c] = {}
  BY DEF MapsTyped, OneMapEach, Unattached, OwnedBy
<1>7. Owning(Unattached, Unattached, Held(Empty))
  BY <1>3, <1>6 DEF Owning
<1>8. edits \in 0..MaxEdits /\ restores \in 0..MaxRestores
  BY <1>1, ServicesAssumption
<1> QED
  BY <1>1, <1>5, <1>6, <1>7, <1>8 DEF ServicesIInv

LEMMA ServicesPreserved == ServicesIInv /\ [ServicesNext]_structureVars => ServicesIInv'
<1> SUFFICES ASSUME ServicesIInv, [ServicesNext]_structureVars PROVE ServicesIInv'
  OBVIOUS
<1>0. PluginServices \subseteq AllServices
  BY DEF AllServices
<1>1. ASSUME NEW s \in PluginServices, AddServiceTo(s) \/ RemoveServiceFrom(s) PROVE ServicesIInv'
  BY <1>1, AddServiceStep, RemoveServiceStep
<1>2. ASSUME NEW s \in AllServices, NEW on \in BOOLEAN, SetPrimaryService(s, on) PROVE ServicesIInv'
  BY <1>2, SetPrimaryStep
<1>3. ASSUME NEW s \in AllServices, NEW t \in AllServices, AddLinkedService(s, t) \/ RemoveLinkedService(s, t)
      PROVE  ServicesIInv'
  BY <1>3, LinksStep
<1>4. ASSUME NEW s \in PluginServices, NEW type \in Types, AddCharacteristic(s, type) \/ RemoveCharacteristic(s, type)
      PROVE  ServicesIInv'
  BY <1>0, <1>4, TypesStep
<1>5. ASSUME NEW c \in ServiceControllers, NEW new \in ServiceMaps[c],
             ConfigureNew(c, new) \/ \E old \in restorable[c] : ConfigureRestored(c, old, new)
      PROVE  ServicesIInv'
  BY <1>5, ConfigureNewStep, ConfigureRestoredStep
<1>6. ASSUME NEW c \in ServiceControllers, RemoveController(c) PROVE ServicesIInv'
  BY <1>6, RemoveControllerStep
<1>7. CASE UpdateConfiguration
  BY <1>7, UpdateStep
<1>8. CASE Serialize
  BY <1>8, SerializeStep
<1>9. CASE Restore
  BY <1>9, RestoreStep
<1>10. CASE UNCHANGED structureVars
  <2>1. UNCHANGED <<structure, attached, restorable, numbered, serialized, announced, updating, threw, edits, restores>>
    BY <1>10 DEF structureVars
  <2>2. Representation' = Representation
    BY <2>1 DEF Representation
  <2>3. \A json \in serialized' : SoundJson(json, threw')
    BY <2>1, JsonKept DEF ServicesIInv
  <2> QED
    BY <2>1, <2>2, <2>3 DEF ServicesIInv
<1> QED
  BY <1>1, <1>2, <1>3, <1>4, <1>5, <1>6, <1>7, <1>8, <1>9, <1>10 DEF ServicesNext

LEMMA ServicesInvariant == ServicesSpec => []ServicesIInv
<1> QED
  BY ServicesInitially, ServicesPreserved, PTL DEF ServicesSpec

LEMMA ServicesAgreeThen == ServicesIInv => ServicesAgree
<1> SUFFICES ASSUME ServicesIInv PROVE ServicesAgree
  OBVIOUS
<1>1. Sound(structure) /\ structure \in Structures
  BY DEF ServicesIInv, Settled, Sound
<1>2. ASSUME NEW c \in ServiceControllers, NEW M, M \subseteq attached[c] \cup restorable[c]
      PROVE  Cardinality(M) <= 1
  <2>1. CASE M = {}
    <3>1. Cardinality({}) = 0
      BY FS_EmptySet
    <3> QED
      BY <2>1, <3>1
  <2>2. CASE M # {}
    <3>1. PICK x \in M : TRUE
      BY <2>2
    <3>2. M = {x}
      BY <1>2 DEF ServicesIInv, OneMapEach
    <3>3. Cardinality({x}) = 1
      BY FS_Singleton
    <3> QED
      BY <3>2, <3>3
  <2> QED
    BY <2>1, <2>2
<1>3. Held(structure) \subseteq AllServices
  BY <1>1 DEF Sound, Structures
<1>4. structure.primary \in AllServices \cup {NoService} /\ structure.linked \in [AllServices -> SUBSET AllServices]
  BY <1>1 DEF Structures
<1>5. ServicesTypeOK
  BY <1>2, <1>3, <1>4 DEF ServicesTypeOK, ServicesIInv
<1>6. ChangesAnnounced
  BY DEF ServicesIInv, ChangesAnnounced
<1>7. ControllersOwnServices
  BY DEF ServicesIInv, ControllersOwnServices, Owning
<1>8. PrimaryAgrees
  BY DEF ServicesIInv, PrimaryAgrees, Agrees
<1> QED
  BY <1>5, <1>6, <1>7, <1>8 DEF ServicesAgree

\* An accessory, its services and its controllers agree: a change that controllers of the home were
\* not told of has a configuration update under way, every service of a controller belongs to one
\* that is configured or whose data waits for it, and no other (but for a configureController that
\* threw), whatever services are added, removed, linked, exchanged and restored; and until structures
\* are restored the primary service is the one that has the flag.
THEOREM ServicesAlwaysAgree == ServicesSpec => []ServicesAgree
<1> QED
  BY ServicesInvariant, ServicesAgreeThen, PTL
================================================================================
