----------------------------------- MODULE TLV8 -----------------------------------
(***************************************************************************)
(* The TLV8 encoding of pairing messages and configurations: encode,       *)
(* decode, decodeWithLists and decodeList of tlv.ts.                       *)
(*                                                                         *)
(* An entry is its type, its length and its bytes.  What is longer than an *)
(* entry can be continues in the next one of the same type; the items of a *)
(* list are separated by an empty entry of type 0.  A buffer that arrives  *)
(* may be cut short.                                                       *)
(***************************************************************************)
EXTENDS Integers, Sequences, SequencesExt

CONSTANTS
  Types,        \* types of entries
  Items,        \* byte sequences: the data of an entry, or an item of a list
  MaxLength,    \* the longest entry (255 in the code)
  MaxItems,     \* bound on the items of a list
  MaxEntries    \* bound on the entries of a message

ASSUME TLVAssumption ==
  /\ Types \subseteq Nat /\ \A b \in Items : b \in Seq(Nat)
  /\ MaxLength \in Nat \ {0} /\ MaxItems \in Nat /\ MaxEntries \in Nat

VARIABLES
  entries,   \* what was encoded: [type, items]
  tlv,       \* the bytes of it
  cut        \* the bytes that arrive

tlvVars == <<entries, tlv, cut>>

\* An empty list is written as one empty item is.
ItemLists == UNION {[1..n -> Items] : n \in 1..MaxItems}

TLVTypeOK ==
  /\ entries \in Seq([type : Types, items : ItemLists])
  /\ tlv \in Seq(Nat) /\ cut \in 0..Len(tlv)

TLVInit == entries = <<>> /\ tlv = <<>> /\ cut = 0

-----------------------------------------------------------------------------
Upto(a, b) == IF a < b THEN a ELSE b

\* What the wire has of an entry; of one that is cut the data is shorter than the length.
WireEntry(type, data) == [type |-> type, length |-> Len(data), data |-> data, whole |-> TRUE]
Delimiter == WireEntry(0, <<>>)

(* data longer than an entry is taken apart: so much of it is written, as these entries *)
Continue(type, data, c) ==
  IF c.at = Len(data) THEN c
  ELSE LET end == Upto(Len(data), c.at + MaxLength)
       IN  [at |-> end, wire |-> Append(c.wire, WireEntry(type, SubSeq(data, c.at + 1, end)))]

EncodeItem(type, data) ==
  LET after[n \in 0..Len(data)] ==
        IF n = 0 THEN [at |-> 0, wire |-> <<>>] ELSE Continue(type, data, after[n - 1])
  IN  IF Len(data) <= MaxLength THEN <<WireEntry(type, data)>> ELSE after[Len(data)].wire

\* Mutant of EncodeItems: no delimiter between the items of a list.
EncodeUndelimited(type, items) ==
  LET after[k \in 0..Len(items)] == IF k = 0 THEN <<>> ELSE after[k - 1] \o EncodeItem(type, items[k])
  IN  after[Len(items)]

EncodeItems(type, items) ==
  LET after[k \in 0..Len(items)] ==
        IF k = 0 THEN <<>>
        ELSE after[k - 1] \o (IF k > 1 THEN <<Delimiter>> ELSE <<>>) \o EncodeItem(type, items[k])
  IN  after[Len(items)]

Bytes(wire) ==
  LET after[k \in 0..Len(wire)] ==
        IF k = 0 THEN <<>> ELSE after[k - 1] \o (<<wire[k].type, wire[k].length>> \o wire[k].data)
  IN  after[Len(wire)]

(* encode(type, data, ...) with types that differ, the message growing *)
AddEntry(type, items) ==
  /\ Len(entries) < MaxEntries /\ cut = Len(tlv)
  /\ \A k \in DOMAIN entries : entries[k].type # type
  /\ entries' = Append(entries, [type |-> type, items |-> items])
  /\ tlv' = tlv \o Bytes(EncodeItems(type, items))
  /\ cut' = Len(tlv')

CutShort(length) == cut = Len(tlv) /\ length < cut /\ cut' = length /\ UNCHANGED <<entries, tlv>>

TLVNext ==
  \/ \E type \in Types, items \in ItemLists : AddEntry(type, items)
  \/ \E length \in 0..Len(tlv) : CutShort(length)

TLVSpec == TLVInit /\ [][TLVNext]_tlvVars

-----------------------------------------------------------------------------
(* The decoders.  What is read maps the types met to their data; refused   *)
(* is an exception.                                                        *)

NothingRead == [t \in {} |-> <<>>]
CutOff == [refused |-> TRUE, read |-> NothingRead]
Decoded(read) == [refused |-> FALSE, read |-> read]

(* One after the other the entries [type, length, data] of a buffer; of the *)
(* last the data may be shorter than its length, and a header may be cut.   *)
EntryAt(bytes, position) ==
  LET left == Len(bytes) - position
      end == Upto(Len(bytes), position + 2 + bytes[position + 2])
  IN  IF left = 1 THEN [type |-> bytes[position + 1], length |-> 0, data |-> <<>>, whole |-> FALSE]
      ELSE [type |-> bytes[position + 1], length |-> bytes[position + 2],
            data |-> SubSeq(bytes, position + 3, end), whole |-> 2 + bytes[position + 2] <= left]

ReadEntry(bytes, r) ==
  IF r.position = Len(bytes) THEN r
  ELSE LET e == EntryAt(bytes, r.position)
       IN  [position |-> Upto(Len(bytes), r.position + 2 + e.length), met |-> Append(r.met, e)]

EntriesOf(bytes) ==
  LET after[n \in 0..Len(bytes)] ==
        IF n = 0 THEN [position |-> 0, met |-> <<>>] ELSE ReadEntry(bytes, after[n - 1])
  IN  after[Len(bytes)].met

With(result, type, value) ==
  [t \in DOMAIN result \cup {type} |-> IF t = type THEN value ELSE result[t]]

Joined(read, e) == With(read, e.type, IF e.type \in DOMAIN read THEN read[e.type] \o e.data ELSE e.data)

JoinedAll(met) ==
  LET after[k \in 0..Len(met)] == IF k = 0 THEN NothingRead ELSE Joined(after[k - 1], met[k])
  IN  after[Len(met)]

(* decode: entries of one type are concatenated *)
Decode8(bytes) ==
  LET met == EntriesOf(bytes)
  IN  IF \E k \in DOMAIN met : ~met[k].whole THEN CutOff ELSE Decoded(JoinedAll(met))

(* decodeWithLists: a cut header throws, cut data is taken as it is.  Here  *)
(* data that is no list is a list of one.                                   *)
Listed(r, e) ==
  LET result == r.result
      items == result[e.type]
      same == r.lastType = e.type
  IN  CASE r.failed -> r
        [] ~r.failed /\ e.type = 0 /\ e.length = 0 -> [r EXCEPT !.delimited = TRUE]
        [] OTHER ->
             LET value == CASE e.type \notin DOMAIN result -> <<e.data>>
                            [] e.type \in DOMAIN result /\ same /\ r.delimited -> Append(items, e.data)
                            [] e.type \in DOMAIN result /\ same /\ ~r.delimited
                               /\ r.lastLength = MaxLength ->
                                 [items EXCEPT ![Len(items)] = @ \o e.data]
                            [] OTHER -> <<>>
             IN  [result |-> With(result, e.type, value), lastType |-> e.type, lastLength |-> e.length,
                  delimited |-> FALSE, failed |-> value = <<>>]

NothingListed ==
  [result |-> NothingRead, lastType |-> MaxLength + 1, lastLength |-> MaxLength + 1,
   delimited |-> FALSE, failed |-> FALSE]

ListedAll(met) ==
  LET after[k \in 0..Len(met)] == IF k = 0 THEN NothingListed ELSE Listed(after[k - 1], met[k])
  IN  after[Len(met)]

DecodeWithLists(bytes) ==
  LET met == EntriesOf(bytes)
      last == ListedAll(met)
  IN  IF last.failed \/ \E k \in DOMAIN met : met[k].length = 0 /\ ~met[k].whole
      THEN CutOff ELSE Decoded(last.result)

(* decodeList: each entry of type start begins a structure of its own *)
NoStructure == [finished |-> <<>>, begun |-> FALSE, current |-> NothingRead, failed |-> FALSE]
Finished(r) == IF r.begun THEN Append(r.finished, r.current) ELSE r.finished

Structured(start, r, e) ==
  IF e.type = start
    THEN [finished |-> Finished(r), begun |-> TRUE, current |-> Joined(NothingRead, e), failed |-> r.failed]
    ELSE [finished |-> r.finished, begun |-> r.begun, current |-> Joined(r.current, e),
          failed |-> r.failed \/ ~r.begun]

StructuredAll(start, met) ==
  LET after[k \in 0..Len(met)] == IF k = 0 THEN NoStructure ELSE Structured(start, after[k - 1], met[k])
  IN  after[Len(met)]

DecodeList(bytes, start) ==
  LET last == StructuredAll(start, EntriesOf(bytes))
  IN  IF last.failed THEN CutOff ELSE Decoded(Finished(last))

-----------------------------------------------------------------------------
(* A list entry of type 0 with an empty item reads as a delimiter.         *)
Ambiguous == \E k \in DOMAIN entries : entries[k].type = 0 /\ Contains(entries[k].items, <<>>)

Concatenated(seqs) ==
  LET after[k \in 0..Len(seqs)] == IF k = 0 THEN <<>> ELSE after[k - 1] \o seqs[k]
  IN  after[Len(seqs)]

Encoded == [t \in {entries[k].type : k \in DOMAIN entries} |->
              entries[CHOOSE k \in DOMAIN entries : entries[k].type = t].items]

(* What arrives whole is read as it was written: lists as lists, long data *)
(* put together again; decode gives the items of each type in one piece    *)
(* (unless an empty item of type 0 is taken for a delimiter).              *)
TLVRoundTrip ==
  cut = Len(tlv) /\ ~Ambiguous =>
    /\ DecodeWithLists(tlv) = Decoded(Encoded)
    /\ \A t \in DOMAIN Encoded : Decode8(tlv).read[t] = Concatenated(Encoded[t])

(* A buffer cut short is refused by decode, or what is read of it is a     *)
(* prefix of what was written: whole entries, at least.                    *)
CutIsNoticed ==
  LET read == Decode8(SubSeq(tlv, 1, cut))
  IN  cut < Len(tlv) /\ ~read.refused =>
        LET met == EntriesOf(SubSeq(tlv, 1, cut))
        IN  met = SubSeq(EntriesOf(tlv), 1, Len(met))

(* Structures that begin with the same entry, one after the other, are     *)
(* told apart, as long as that entry fits in one piece and is no delimiter. *)
StructuresApart ==
  cut = Len(tlv) /\ entries # <<>> /\ entries[1].type # 0
  /\ Len(entries[1].items) = 1 /\ Len(entries[1].items[1]) <= MaxLength =>
    DecodeList(tlv \o tlv, entries[1].type) = Decoded(<<Decode8(tlv).read, Decode8(tlv).read>>)

(* The same of decodeWithLists.                                            *)
CutListIsNoticed ==
  LET read == DecodeWithLists(SubSeq(tlv, 1, cut))
  IN  cut < Len(tlv) /\ ~read.refused =>
        LET met == EntriesOf(SubSeq(tlv, 1, cut))
        IN  met = SubSeq(EntriesOf(tlv), 1, Len(met))

(* And every message reads back.                                           *)
TLVRoundTripOfAll == cut = Len(tlv) => DecodeWithLists(tlv) = Decoded(Encoded)

\* Fragments and lists are put together as they were taken apart, or a cut is noticed.
StructuresSurvive == TLVTypeOK /\ TLVRoundTrip /\ CutIsNoticed /\ StructuresApart
=============================================================================
