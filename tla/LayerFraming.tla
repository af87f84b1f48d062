----------------------------- MODULE LayerFraming -----------------------------
(***************************************************************************)
(* The record layer of an encrypted connection.  layerEncrypt cuts what is *)
(* written into frames of at most 0x400 bytes: two bytes of length, the    *)
(* ciphertext, a tag of 16 bytes, sealed with a nonce that counts frames.  *)
(* TCP hands the bytes over in packets cut anywhere; layerDecrypt puts the *)
(* frames together again, keeps an incomplete last frame for the next      *)
(* packet, and throws when a frame cannot be read or verified, upon which  *)
(* onTCPSocketData closes the connection, with what it had decrypted of the *)
(* packet.                                                                 *)
(*                                                                         *)
(* A byte is its position in the stream, a frame is the length of its      *)
(* plaintext, and its nonce is its place among the frames.  Every byte is  *)
(* genuine: the controller and the network are well behaved.               *)
(***************************************************************************)
EXTENDS Naturals, Integers, Sequences, SequencesExt

CONSTANTS
  Chunk,            \* 0x400
  Tag,              \* 16
  MaxWrite,         \* bound: bytes of one write
  MaxFrames         \* bound: frames in the stream

ASSUME FramingAssumption ==
  /\ Chunk \in Nat \ {0} /\ Tag \in Nat \ {0}
  /\ MaxWrite \in Nat /\ MaxFrames \in Nat

VARIABLES
  frames,           \* the frames written so far
  arrived,          \* bytes that have arrived
  incomplete,       \* length of encryption.incompleteFrame, 0 when undefined
  count,            \* encryption.controllerToAccessoryCount
  delivered,        \* the frames handed to the HTTP server
  open              \* FALSE once close() was called

framesVars == <<frames, arrived, incomplete, count, delivered, open>>

Header == 2

Size(length) == Header + length + Tag

\* Position of the first byte after the first i frames.
End(fs, i) ==
  LET end[k \in 0..Len(fs)] == IF k = 0 THEN 0 ELSE end[k - 1] + Size(fs[k])
  IN end[i]

Total == End(frames, Len(frames))

FramesInit ==
  /\ frames = <<>>
  /\ arrived = 0
  /\ incomplete = 0
  /\ count = 0
  /\ delivered = <<>>
  /\ open = TRUE

-----------------------------------------------------------------------------
\* The frames of n bytes: full chunks, and what is left.
LayerEncrypt(n) ==
  [i \in 1 .. (n + Chunk - 1) \div Chunk |-> IF i * Chunk <= n THEN Chunk ELSE n - (i - 1) * Chunk]

\* The controller, whose record layer is the same, writes n bytes.
Write(n) ==
  /\ Len(frames) + Len(LayerEncrypt(n)) <= MaxFrames
  /\ frames' = frames \o LayerEncrypt(n)
  /\ UNCHANGED <<arrived, incomplete, count, delivered, open>>

\* Mutant: off by one.
FragmentedWhenComplete(length, bytes) == length >= bytes - Header - Tag

\* realDataLength > availableDataLength
Fragmented(length, bytes) == length > bytes - Header - Tag

\* packet.subarray(offset)
Rest(from, offset, to) == to - offset

\* What layerDecrypt has of a packet: where it is, the frames it has decrypted, what it keeps.
Begun(offset) == [offset |-> offset, count |-> count, incomplete |-> 0, chunks |-> <<>>, error |-> FALSE]
Over(s, to) == s.offset >= to \/ s.incomplete # 0 \/ s.error

FrameAt(offset) == {i \in 1..Len(frames) : End(frames, i - 1) = offset}

\* One round of the loop of layerDecrypt: a frame is decrypted, or kept, or
\* readUInt16LE() or the verification of the frame throws.
Round(s, from, to) ==
  LET throws == [s EXCEPT !.error = TRUE]
      verifies(i) == i = s.count + 1 /\ Size(frames[i]) <= to - s.offset
  IN IF Over(s, to) THEN s
     ELSE IF to - s.offset < Header \/ FrameAt(s.offset) = {} THEN throws
     ELSE LET i == CHOOSE j \in FrameAt(s.offset) : TRUE
          IN IF Fragmented(frames[i], to - s.offset)
             THEN [s EXCEPT !.incomplete = Rest(from, s.offset, to)]
             ELSE IF ~verifies(i) THEN [throws EXCEPT !.count = @ + 1]
             ELSE [s EXCEPT !.offset = @ + Size(frames[i]), !.count = @ + 1, !.chunks = Append(@, i)]

\* What layerDecrypt makes of the bytes from .. to - 1.  A round uses up a frame or is the last one.
LayerDecrypt(from, to) ==
  LET after[n \in 0 .. Len(frames) + 1] == IF n = 0 THEN Begun(from) ELSE Round(after[n - 1], from, to)
  IN after[Len(frames) + 1]

\* onTCPSocketData of the next n bytes
OnTCPSocketBytes(n) ==
  /\ open
  /\ n \in 1 .. Total - arrived
  /\ LET d == LayerDecrypt(arrived - incomplete, arrived + n) IN
       /\ arrived' = arrived + n
       /\ incomplete' = d.incomplete
       /\ count' = d.count
       /\ delivered' = IF d.error THEN delivered ELSE delivered \o d.chunks
       /\ open' = ~d.error
  /\ UNCHANGED frames

FramesNext ==
  \/ \E n \in 1..MaxWrite : Write(n)
  \/ \E n \in 1 .. Total - arrived : OnTCPSocketBytes(n)

FramesSpec == FramesInit /\ [][FramesNext]_framesVars

-----------------------------------------------------------------------------
\* Types, and a bound: less than one frame is kept of a packet.
FramesTypeOK ==
  /\ frames \in Seq(1..Chunk) /\ Len(frames) <= MaxFrames
  /\ arrived \in 0..Total
  /\ incomplete \in 0 .. Size(Chunk) - 1
  /\ count \in 0..Len(frames)
  /\ delivered \in Seq(1..Len(frames))
  /\ open \in BOOLEAN

\* Frames are handed to the HTTP server in order and once, and on an open connection every frame
\* that has arrived in full was, however the stream is cut: no request waits for bytes of the next
\* one (layerDecrypt).
CompleteIsDelivered ==
  /\ delivered = [i \in DOMAIN delivered |-> i]
  /\ open => Len(delivered) = Cardinality({j \in 1..Len(frames) : End(frames, j) <= arrived})

\* Is this position one byte into a frame, between the two bytes of its length?
CutsHeader(position) == \E i \in 0 .. Len(frames) - 1 : End(frames, i) + 1 = position

\* The record layer closes a connection whose bytes are genuine for one reason only: a packet ended
\* between the two bytes of a length, where layerDecrypt reads both; and then it always does.
ClosedByOneByte == ~open <=> CutsHeader(arrived)

\* A connection whose bytes are genuine is not closed by the record layer
\* (onTCPSocketData: "decryption and/or verification failed, disconnect the
\* client" is the only reason it has to close).
OpenWhileGenuine == open

\* Complete frames are delivered however the data is cut, and genuine data keeps the connection
\* unless it is cut inside a length.
FramesDelivered == FramesTypeOK /\ CompleteIsDelivered /\ ClosedByOneByte
=============================================================================
