------------------------------- MODULE Sha256 -------------------------------
(***************************************************************************)
(* The padding of SHA-256 (soroban-zk-std/src/gadgets/hash/sha256.rs): a   *)
(* message is read byte by byte into blocks, which are compressed in turn. *)
(* The compression is opaque: the chaining value is the blocks so far.     *)
(***************************************************************************)
EXTENDS Integers, Sequences

CONSTANTS
    BlockBytes,      \* 64
    LengthBytes,     \* 8
    FieldBytes,      \* 32
    MAX_MSG_BYTES,   \* 2048
    Lengths,         \* lengths of byte strings given to sha256
    FieldCounts      \* numbers of elements given to sha256_fields

(* Eight times a length, with the lowest k bytes shifted out.                *)
Shifted(len) ==
    LET shifted[k \in 0..LengthBytes] == IF k = 0 THEN len * 8 ELSE shifted[k - 1] \div 256
    IN  shifted

(* A length is a word of the host: in bits it fits the bytes for it.         *)
ASSUME ShaAssumption ==
    /\ BlockBytes \in Nat /\ LengthBytes \in Nat \ {0} /\ FieldBytes \in Nat \ {0}
    /\ BlockBytes > LengthBytes + 1 /\ MAX_MSG_BYTES \in Nat
    /\ Lengths \subseteq Nat /\ FieldCounts \subseteq Nat
    /\ \A len \in Lengths : Shifted(len)[LengthBytes] = 0
    /\ \A n \in FieldCounts :
          n * FieldBytes <= MAX_MSG_BYTES => Shifted(n * FieldBytes)[LengthBytes] = 0

VARIABLES
    data,     \* the length of the message, -1 when none is hashed
    g,        \* the index in the padded message of the next block
    h,        \* the blocks compressed
    refused   \* sha256_fields refused its input

shaVars == <<data, g, h, refused>>

ShaInit == data = -1 /\ g = 0 /\ h = <<>> /\ refused = FALSE

(* Byte k of the message is the symbol k; the bytes that padding adds are   *)
(* negative: -1 is 0x00, -2 is 0x80, and -3 - b the byte b of the length.    *)
ZERO_PAD == -1
END_MARK == -2
LengthByte(b) == -3 - b

(* Mutant of PadLen: a message that fits gets a whole block of zeros.        *)
PadLenWhole(len) == BlockBytes - ((len + 1 + LengthBytes) % BlockBytes)

PadLen(len) == (BlockBytes - ((len + 1 + LengthBytes) % BlockBytes)) % BlockBytes
Total == data + 1 + PadLen(data) + LengthBytes

(* The length in bits, its highest byte first.                               *)
BitLength(idx) == Shifted(data)[LengthBytes - 1 - idx] % 256

PaddedByte(k) ==
    CASE k < data -> k
      [] k = data -> END_MARK
      [] k > data /\ k >= Total - LengthBytes -> LengthByte(BitLength(k - (Total - LengthBytes)))
      [] OTHER -> ZERO_PAD

Start(len) ==
    /\ data = -1 /\ ~refused
    /\ data' = len /\ g' = 0 /\ h' = <<>> /\ UNCHANGED refused

Compress ==
    /\ data >= 0 /\ g < Total
    /\ h' = Append(h, [p \in 0..(BlockBytes - 1) |-> PaddedByte(g + p)])
    /\ g' = g + BlockBytes
    /\ UNCHANGED <<data, refused>>

(* Elements are laid out one after the other.                                *)
Sha256Fields(n) ==
    IF n * FieldBytes > MAX_MSG_BYTES
    THEN data = -1 /\ ~refused /\ refused' = TRUE /\ UNCHANGED <<data, g, h>>
    ELSE Start(n * FieldBytes)

TakeDigest ==
    /\ refused \/ (data >= 0 /\ g >= Total)
    /\ data' = -1 /\ g' = 0 /\ h' = <<>> /\ refused' = FALSE

ShaNext ==
    \/ \E len \in Lengths : Start(len)
    \/ Compress
    \/ \E n \in FieldCounts : Sha256Fields(n)
    \/ TakeDigest

ShaSpec == ShaInit /\ [][ShaNext]_shaVars

-----------------------------------------------------------------------------

(* What was compressed, byte by byte, and its last bytes read as a number.   *)
CompressedByte(k) == h[k \div BlockBytes + 1][k % BlockBytes]
LengthRead(body) ==
    LET bits[k \in 0..LengthBytes] ==
          IF k = 0 THEN 0 ELSE bits[k - 1] * 256 + (-3 - CompressedByte(body + k - 1))
    IN  bits[LengthBytes]

(* What was compressed is the message, the mark, the fewest zeros that fill  *)
(* a block, and the length in bits: whole blocks, from which the message    *)
(* can be read back.                                                       *)
PaddingIsExact ==
    data >= 0 /\ g >= Total =>
        LET total == Len(h) * BlockBytes
            body == total - LengthBytes
        IN  /\ \A k \in 0..(data - 1) : CompressedByte(k) = k
            /\ body > data /\ CompressedByte(data) = END_MARK
            /\ \A k \in (data + 1)..(body - 1) : CompressedByte(k) = ZERO_PAD
            /\ \A k \in body..(total - 1) : CompressedByte(k) <= -3
            /\ LengthRead(body) = 8 * data
            /\ body - data - 1 < BlockBytes

-----------------------------------------------------------------------------
(* Why: the blocks compressed are the padded message up to g, which never    *)
(* gets past its end.                                                       *)
ShaType ==
    /\ data \in Nat \cup {-1} /\ g \in Nat /\ refused \in BOOLEAN
    /\ h \in Seq([0..(BlockBytes - 1) -> Int])
Padded ==
    data >= 0 =>
        /\ Shifted(data)[LengthBytes] = 0
        /\ g = Len(h) * BlockBytes /\ g <= Total
        /\ \A k \in 1..Len(h), p \in 0..(BlockBytes - 1) :
              h[k][p] = PaddedByte((k - 1) * BlockBytes + p)
ShaInv == ShaType /\ Padded /\ PaddingIsExact
=============================================================================
