--------------------------------- MODULE HDSCodec ---------------------------------
(***************************************************************************)
(* The encoding of HomeKit Data Stream messages: DataStreamParser,         *)
(* DataStreamWriter and DataStreamReader.                                  *)
(*                                                                         *)
(* A value is written as a tagged token; a value written before is written *)
(* as its index among the values tracked so far.  Writer and reader each   *)
(* keep their own list of tracked values and must number alike.  Bytes are *)
(* left out: a token is its tag and what the bytes behind the tag say.     *)
(***************************************************************************)
EXTENDS Integers, Sequences, SequencesExt

CONSTANTS
  Values,          \* what is written: [type, value], [type, value, length] or [type, elements]
  MaxSmall,        \* the widths, scaled down: 39, 127, 32767, 2^31 - 1 in the code
  MaxInt8, MaxInt16, MaxInt32,
  RangeStop,       \* the last small number whose tag the reader knows: its INTEGER_RANGE_STOP_39 is that of 38
  MaxTagLength,    \* the longest string or buffer whose length is in the tag (32)
  MaxTagArray, MaxTagDictionary,   \* the most elements, and pairs, counted in the tag (12, 14)
  MaxIndex,        \* the last index a compression tag can hold (47)
  MaxValues        \* bound on the values of a message

\* Texts and buffers know their length; the value of others is a number or what else they say.
IsText(v)  == v = [type |-> v.type, value |-> v.value, length |-> v.length] /\ v.length \in Nat
IsScalar(v) ==
  IF v.type \in {"string", "data"} THEN IsText(v)
  ELSE /\ v.type \in {"null", "bool", "int", "int64", "float", "date", "uuid"}
       /\ v = [type |-> v.type, value |-> v.value]
       /\ v.type \in {"int", "int64"} => v.value \in Int

\* An array, or the pairs of a dictionary: each key, a text, before what it stands for.
IsContainer(v) == v.type \in {"array", "dictionary"}
WellFormed(v) ==
  IF ~IsContainer(v) THEN IsScalar(v)
  ELSE /\ v = [type |-> v.type, elements |-> v.elements]
       /\ v.elements \in Seq(ToSet(v.elements))
       /\ \A k \in DOMAIN v.elements : IsScalar(v.elements[k])
       /\ v.type = "dictionary" =>
            /\ Len(v.elements) % 2 = 0
            /\ \A k \in DOMAIN v.elements : k % 2 = 1 => v.elements[k].type = "string"

ASSUME CodecAssumption ==
  /\ \A v \in Values : WellFormed(v)
  /\ {MaxSmall, MaxInt8, MaxInt16, MaxInt32} \subseteq Nat
  /\ RangeStop \in 0..MaxSmall
  /\ 0 < MaxSmall /\ MaxSmall < MaxInt8 /\ MaxInt8 < MaxInt16 /\ MaxInt16 < MaxInt32
  /\ MaxTagLength \in Nat /\ MaxTagArray \in Nat /\ MaxTagDictionary \in Nat
  /\ MaxIndex \in Nat /\ MaxValues \in Nat

VARIABLES
  message,      \* the values written
  buffer,       \* their tokens
  writtenData,  \* what the writer tracks
  writeFailed   \* the writer has thrown; the message is not sent

codecVars == <<message, buffer, writtenData, writeFailed>>

CodecTypeOK ==
  /\ message \in Seq(Values)
  /\ \A k \in DOMAIN buffer : DOMAIN buffer[k] = {"tag", "content"}
  /\ writeFailed \in BOOLEAN

CodecInit == message = <<>> /\ buffer = <<>> /\ writtenData = <<>> /\ writeFailed = FALSE

-----------------------------------------------------------------------------
(* The writer.                                                             *)

Count(v) == IF v.type = "array" THEN Len(v.elements) ELSE Len(v.elements) \div 2   \* of pairs
InTag(v) == Count(v) <= IF v.type = "array" THEN MaxTagArray ELSE MaxTagDictionary
Token(tag, says) == [tag |-> tag, content |-> says]

Fits(n, max) == -max - 1 <= n /\ n <= max

NumberTag(n) ==
  CASE n = -1 -> "minusOne"
    [] n \in 0..MaxSmall -> "range"
    [] n \notin -1..MaxSmall /\ Fits(n, MaxInt8) -> "int8"
    [] ~Fits(n, MaxInt8) /\ Fits(n, MaxInt16) -> "int16"
    [] ~Fits(n, MaxInt16) /\ Fits(n, MaxInt32) -> "int32"
    [] OTHER -> "int64"

LengthTag(length, inTag, behindTag) == IF length <= MaxTagLength THEN inTag ELSE behindTag

TagOf(v) ==
  CASE v.type = "int"    -> NumberTag(v.value)
    [] v.type = "string" -> LengthTag(v.length, "utf8", "utf8Length")
    [] v.type = "data"   -> LengthTag(v.length, "data", "dataLength")
    [] OTHER             -> v.type   \* null, bool, float, date, uuid, and the wrapper int64

\* Written as a bare tag, and not tracked by the writer.
BareTags == {"null", "bool", "minusOne", "range"}

(* writeInt64LE writes the number as a uint32 *)
Unwritable(v) == TagOf(v) = "int64" /\ ~(v.value >= 0 /\ v.value <= 2 * MaxInt32 + 1)

\* Mutant of Scalar: one index too many; behind the compression tags begin those of arrays.
ScalarPastTheTag(v, tracked) ==
  LET token == Token(TagOf(v), v)
  IN  IF token.tag \in BareTags THEN [token |-> token, tracked |-> tracked]
      ELSE IF ~Contains(tracked, token) THEN [token |-> token, tracked |-> Append(tracked, token)]
      ELSE LET index == (CHOOSE i \in DOMAIN tracked : tracked[i] = token) - 1
           IN  [token |-> IF index <= MaxIndex THEN Token("compression", index)
                          ELSE IF index = MaxIndex + 1 THEN Token("array", 0) ELSE token,
               tracked |-> tracked]

(* compressDataIfPossible, and the token; equal is what has one tag and one value *)
Scalar(v, tracked) ==
  LET token == Token(TagOf(v), v)
  IN  IF token.tag \in BareTags THEN [token |-> token, tracked |-> tracked]
      ELSE IF ~Contains(tracked, token) THEN [token |-> token, tracked |-> Append(tracked, token)]
      ELSE LET index == (CHOOSE i \in DOMAIN tracked : tracked[i] = token) - 1
           IN  [token |-> IF index <= MaxIndex THEN Token("compression", index) ELSE token,
               tracked |-> tracked]

Scalars(vs, tracked) ==
  LET after[k \in 0..Len(vs)] ==
        IF k = 0 THEN [tokens |-> <<>>, tracked |-> tracked]
        ELSE LET s == Scalar(vs[k], after[k - 1].tracked)
             IN  [tokens |-> Append(after[k - 1].tokens, s.token), tracked |-> s.tracked]
  IN  after[Len(vs)]

(* of a container the number of its elements is in the tag, or it is terminated *)
Encode(v, tracked) ==
  IF ~IsContainer(v) THEN Scalars(<<v>>, tracked)
  ELSE LET inner == Scalars(v.elements, tracked)
       IN  [tokens  |-> IF InTag(v) THEN <<Token(v.type, Count(v))>> \o inner.tokens
                        ELSE <<Token(v.type, -1)>> \o inner.tokens \o <<Token("terminator", 0)>>,
            tracked |-> inner.tracked]

Leaves(v) == IF IsContainer(v) THEN v.elements ELSE <<v>>

WriteMessage(v) ==
  /\ ~writeFailed /\ Len(message) < MaxValues
  /\ message' = Append(message, v)
  /\ IF \E k \in DOMAIN Leaves(v) : Unwritable(Leaves(v)[k])
       THEN writeFailed' = TRUE /\ UNCHANGED <<buffer, writtenData>>
       ELSE LET encoded == Encode(v, writtenData)
            IN  /\ buffer' = buffer \o encoded.tokens
                /\ writtenData' = encoded.tracked
                /\ UNCHANGED writeFailed

CodecNext == \E v \in Values : WriteMessage(v)
CodecSpec == CodecInit /\ [][CodecNext]_codecVars

-----------------------------------------------------------------------------
(* The reader, which tracks the bare values, too; short data is read but   *)
(* not returned.                                                           *)

Undefined == [type |-> "undefined"]
Thrown == [type |-> "thrown"]

\* What a value is once read: wrappers are unwrapped.
Plain(v) == IF v.type = "int64" THEN [v EXCEPT !.type = "int"] ELSE v
PlainAll(v) == IF IsContainer(v) THEN [v EXCEPT !.elements = [k \in DOMAIN @ |-> Plain(@[k])]] ELSE Plain(v)

\* The tags behind that of RangeStop are not known.
UnknownTag(token) == token.tag = "range" /\ token.content.value > RangeStop

(* One token: the value it stands for, or Thrown; and what is tracked after it. *)
ReadScalar(token, tracked) ==
  CASE token.tag = "compression" ->
         [value |-> IF token.content < Len(tracked) THEN tracked[token.content + 1] ELSE Thrown,
          tracked |-> tracked]
    [] token.tag = "null" -> [value |-> token.content, tracked |-> tracked]
    [] UnknownTag(token) -> [value |-> Thrown, tracked |-> tracked]
    [] OTHER ->
         [value |-> IF token.tag = "data" THEN Undefined ELSE Plain(token.content),
          tracked |-> Append(tracked, Plain(token.content))]

(* The tokens, one after the other: read is what has been read, container   *)
(* the one still open with the number of elements it lacks, negative for    *)
(* one that a terminator ends.  A reader that has thrown reads no more.     *)
NoContainer == [type |-> "none", elements |-> <<>>, left |-> 0]
Abandoned == [type |-> "thrown", elements |-> <<>>, left |-> 0]
Closed(c) == [type |-> c.type, elements |-> c.elements]

ReadToken(token, r) ==
  CASE r.container = Abandoned -> r
    [] r.container # Abandoned /\ token.tag \in {"array", "dictionary"} ->
         LET opened == [type |-> token.tag, elements |-> <<>>,
                        left |-> IF token.tag = "array" THEN token.content ELSE 2 * token.content]
         IN  IF token.content = 0 THEN [r EXCEPT !.read = Append(@, Closed(opened))]
             ELSE [r EXCEPT !.container = opened]
    [] r.container # Abandoned /\ token.tag = "terminator" ->
         [r EXCEPT !.read = Append(@, Closed(r.container)), !.container = NoContainer]
    [] OTHER ->
         LET s == ReadScalar(token, r.tracked)
             c == [type |-> r.container.type, elements |-> Append(r.container.elements, s.value),
                   left |-> r.container.left - 1]
         IN  CASE s.value = Thrown -> [r EXCEPT !.container = Abandoned]
               [] s.value # Thrown /\ r.container.type = "none" ->
                    [r EXCEPT !.tracked = s.tracked, !.read = Append(@, s.value)]
               [] s.value # Thrown /\ r.container.type # "none" /\ c.left = 0 ->
                    [r EXCEPT !.tracked = s.tracked, !.read = Append(@, Closed(c)), !.container = NoContainer]
               [] OTHER -> [r EXCEPT !.tracked = s.tracked, !.container = c]

Reader(tokens) ==
  LET after[k \in 0..Len(tokens)] ==
        IF k = 0 THEN [read |-> <<>>, tracked |-> <<>>, container |-> NoContainer]
        ELSE ReadToken(tokens[k], after[k - 1])
  IN  after[Len(tokens)]

Decode(tokens) == IF Reader(tokens).container = Abandoned THEN <<Thrown>> ELSE Reader(tokens).read

-----------------------------------------------------------------------------
NumberAlike ==
  \A k \in DOMAIN message : \A j \in DOMAIN Leaves(message[k]) :
    TagOf(Leaves(message[k])[j]) \notin (BareTags \ {"null"}) \cup {"data"}

(* What is read is what was written, in the messages whose values writer   *)
(* and reader both track (no Boolean, no number from -1 to 39) and without *)
(* short data.                                                             *)
RoundTrip ==
  ~writeFailed /\ NumberAlike => Decode(buffer) = [k \in DOMAIN message |-> PlainAll(message[k])]

\* The message has no number that is written with a tag the reader does not know.
Known(v) == ~(v.type = "int" /\ v.value \in (RangeStop + 1)..MaxSmall)
TagsKnown == \A k \in DOMAIN message : \A j \in DOMAIN Leaves(message[k]) : Known(Leaves(message[k])[j])

(* Whatever else was written, the reader finds every value where it        *)
(* begins: it throws nowhere, and containers have the elements they were   *)
(* given.                                                                  *)
Shape(vs) == [k \in DOMAIN vs |-> IF IsContainer(vs[k]) THEN <<vs[k].type, Len(vs[k].elements)>>
                                  ELSE <<IF vs[k] = Thrown THEN "thrown" ELSE "scalar">>]
StructureKept == ~writeFailed /\ TagsKnown => Shape(Decode(buffer)) = Shape(message)

(* "integer values from 0-39" are what the reader takes by their tag, and   *)
(* what the writer gives such a tag: a message of these is read as it was.  *)
IsSmall(v) == v.type = "int" /\ v.value \in 0..MaxSmall
SmallNumbersRead ==
  ~writeFailed /\ (\A k \in DOMAIN message : IsSmall(message[k])) => Decode(buffer) = message

(* The round trip of every message.                                        *)
RoundTripOfAll == ~writeFailed => Decode(buffer) = [k \in DOMAIN message |-> PlainAll(message[k])]

(* Every number the range check of writeNumber lets pass can be written.   *)
EveryNumberWritten == ~writeFailed

\* What is written is read again, container for container if no number has a
\* tag that the reader does not know, and value for value if writer and reader
\* track the same values.
MessagesSurvive == CodecTypeOK /\ RoundTrip /\ StructureKept
=============================================================================
