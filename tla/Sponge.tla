------------------------------- MODULE Sponge -------------------------------
(***************************************************************************)
(* What the sponges hash: Poseidon2Sponge and the transcripts of           *)
(* soroban-zk-std/src/poseidon2.rs and soroban-zk-core/src/poseidon2.rs,   *)
(* poseidon_hash_chunked, rescue_prime_hash and hash_to_fq.  The           *)
(* permutation is opaque and has no collisions: a state is the blocks that *)
(* were permuted into it and what was added to the rate since.  So is      *)
(* SHA-256 in the transcript of soroban-zk-std/src/stark/transcript.rs:    *)
(* its state is the chunks hashed into it.                                 *)
(***************************************************************************)
EXTENDS Integers, Sequences, SequencesExt

CONSTANTS
    Inputs,       \* field elements, from 0
    MaxCalls,     \* calls of a transcript
    MaxMessage,   \* elements of a message
    ByteValues,   \* bytes, from 0
    Chunk,        \* bytes of an element, 32
    Residue(_)    \* a chunk of bytes as a number modulo the prime

ASSUME SpongeAssumption ==
    /\ 0 \in Inputs /\ Inputs \subseteq Nat /\ 0 \in ByteValues /\ ByteValues \subseteq Nat
    /\ Chunk \in Nat \ {0} /\ MaxCalls \in Nat /\ MaxMessage \in Nat
    /\ \A c \in [1..Chunk -> ByteValues] : Residue(c) \in Nat
    /\ Residue([k \in 1..Chunk |-> 0]) = 0

Rate == 2
Zeros == <<0, 0>>

NewSponge == [permuted |-> <<>>, added |-> Zeros, rate_idx |-> 0]

PermuteSponge(s) ==
    [permuted |-> Append(s.permuted, s.added), added |-> Zeros, rate_idx |-> 0]

AbsorbOne(s, x) ==
    LET t == [permuted |-> s.permuted,
              added |-> [s.added EXCEPT ![s.rate_idx + 1] = @ + x],
              rate_idx |-> s.rate_idx + 1]
    IN  IF t.rate_idx = Rate THEN PermuteSponge(t) ELSE t

Absorb(s, xs) ==
    LET after[k \in 0..Len(xs)] == IF k = 0 THEN s ELSE AbsorbOne(after[k - 1], xs[k])
    IN  after[Len(xs)]

(* Mutant of Squeeze: a full block is not permuted a second time.            *)
SqueezeFlushed(s) == IF s.rate_idx = 0 /\ s.permuted # <<>> THEN s ELSE PermuteSponge(s)

(* Whether input waits or not.                                               *)
Squeeze(s) == PermuteSponge(s)

(* What squeeze returns stands for the state it leaves.                      *)
Digest(s) == s.permuted

HashToField(message) == Digest(Squeeze(Absorb(NewSponge, message)))

Refusal == <<>>   \* InvalidInput

PoseidonHashChunked(chunks) ==
    LET after[k \in 0..Len(chunks)] ==
          IF k = 0 THEN NewSponge ELSE Absorb(after[k - 1], chunks[k])
    IN  IF \E k \in DOMAIN chunks : Len(chunks[k]) > Rate THEN Refusal
        ELSE Digest(Squeeze(after[Len(chunks)]))

(* Whole blocks, the last one shorter, and one for an empty message.         *)
RescueHash(message) ==
    LET blocks == (Len(message) + Rate - 1) \div Rate
        Element(k) == IF k <= Len(message) THEN message[k] ELSE 0
    IN  IF message = <<>> THEN <<Zeros>>
        ELSE [b \in 1..blocks |-> <<Element(2 * b - 1), Element(2 * b)>>]

(* The bytes in chunks, the last one filled with zeros.                      *)
FilledChunks(bytes) ==
    [c \in 1..((Len(bytes) + Chunk - 1) \div Chunk) |->
        [k \in 1..Chunk |-> LET at == (c - 1) * Chunk + k IN
                            IF at <= Len(bytes) THEN bytes[at] ELSE 0]]

(* Nothing to absorb is a zero.                                              *)
Chunks(bytes) ==
    LET filled == FilledChunks(bytes) IN [c \in DOMAIN filled |-> Residue(filled[c])]
HashToFq(bytes) ==
    HashToField(IF bytes = <<>> THEN <<0>> ELSE Chunks(bytes))

(* The transcript of the STARK verifier: a chunk is hashed with the state,   *)
(* a challenge is the hash of the state alone.                              *)
SQUEEZE == <<-1>>
StarkAbsorb(state, data) == state \o FilledChunks(data)
StarkSqueeze(state) == Append(state, <<>>)
StarkTranscript(calls) ==
    LET after[k \in 0..Len(calls)] ==
          IF k = 0 THEN <<>>
          ELSE IF calls[k] = SQUEEZE THEN StarkSqueeze(after[k - 1])
          ELSE StarkAbsorb(after[k - 1], calls[k])
    IN  after[Len(calls)]

-----------------------------------------------------------------------------

VARIABLES
    tracks,   \* two transcripts, each a sponge with the calls made so far
    hashed    \* two inputs of one hash function with their digests

spongeVars == <<tracks, hashed>>

NewTrack == [sponge |-> NewSponge, log |-> <<>>]
NothingHashed == [by |-> "none", inputs |-> <<<<>>, <<>>>>, digests |-> <<<<>>, <<>>>>]

SpongeInit == tracks = <<NewTrack, NewTrack>> /\ hashed = NothingHashed

(* Elements of the log are inputs; -1 is a challenge.                        *)
AbsorbOn(k, x) ==
    /\ hashed = NothingHashed /\ Len(tracks[k].log) < MaxCalls
    /\ tracks' = [tracks EXCEPT ![k] =
                    [sponge |-> AbsorbOne(@.sponge, x), log |-> Append(@.log, x)]]
    /\ UNCHANGED hashed

ChallengeOn(k) ==
    /\ hashed = NothingHashed /\ Len(tracks[k].log) < MaxCalls
    /\ tracks' = [tracks EXCEPT ![k] =
                    [sponge |-> Squeeze(@.sponge), log |-> Append(@.log, -1)]]
    /\ UNCHANGED hashed

Hash(by, F(_), one, other) ==
    /\ tracks = <<NewTrack, NewTrack>> /\ hashed = NothingHashed
    /\ hashed' = [by |-> by, inputs |-> <<one, other>>, digests |-> <<F(one), F(other)>>]
    /\ UNCHANGED tracks

StartOver ==
    /\ tracks' = <<NewTrack, NewTrack>> /\ hashed' = NothingHashed

Messages == BoundedSeq(Inputs, MaxMessage)
Blocks == BoundedSeq(Inputs, Rate + 1)
Chunkings == BoundedSeq(Blocks, 2)
ByteStrings == BoundedSeq(ByteValues, 2 * Chunk + 1)
StarkCalls == BoundedSeq(BoundedSeq(ByteValues, Chunk + 1) \cup {SQUEEZE}, 2)

Untouched == tracks = <<NewTrack, NewTrack>> /\ hashed = NothingHashed

SpongeNext ==
    \/ \E k \in 1..2, x \in Inputs : AbsorbOn(k, x)
    \/ \E k \in 1..2 : ChallengeOn(k)
    \/ Untouched /\ \E one, other \in Messages : Hash("field", HashToField, one, other)
    \/ Untouched /\ \E one, other \in Messages : Hash("rescue", RescueHash, one, other)
    \/ Untouched /\ \E one, other \in Chunkings : Hash("chunked", PoseidonHashChunked, one, other)
    \/ Untouched /\ \E one, other \in ByteStrings : Hash("fq", HashToFq, one, other)
    \/ Untouched /\ \E one, other \in StarkCalls : Hash("stark", StarkTranscript, one, other)
    \/ StartOver

SpongeSpec == SpongeInit /\ [][SpongeNext]_spongeVars

-----------------------------------------------------------------------------

Flushed(es) == IF Len(es) % 2 = 1 THEN Append(es, 0) ELSE es \o Zeros

(* A transcript as the elements it stands for: a challenge fills its block   *)
(* with zeros, or is a block of zeros.                                      *)
AsElements(log) ==
    LET es[k \in 0..Len(log)] ==
          IF k = 0 THEN <<>>
          ELSE IF log[k] # -1 THEN Append(es[k - 1], log[k]) ELSE Flushed(es[k - 1])
    IN  es[Len(log)]

(* The three words of the permutation.                                       *)
SameState(s, t) == s.permuted = t.permuted /\ s.added = t.added

(* Without a zero that waits.                                                *)
Settled(es) == IF Len(es) % 2 = 1 /\ Last(es) = 0 THEN Front(es) ELSE es

InBlocks(m) == IF Len(m) % 2 = 1 THEN Append(m, 0) ELSE IF m = <<>> THEN Zeros ELSE m

(* Equal, or one is the other, of even length, with a zero after it.         *)
EqualUpToZero(one, other) ==
    \/ one = other
    \/ Len(one) % 2 = 0 /\ other = Append(one, 0)
    \/ Len(other) % 2 = 0 /\ one = Append(other, 0)

Joined(chunks) ==
    LET all[k \in 0..Len(chunks)] == IF k = 0 THEN <<>> ELSE all[k - 1] \o chunks[k]
    IN  all[Len(chunks)]
Refused(chunks) == \E k \in DOMAIN chunks : Len(chunks[k]) > 2

(* Each message with zeros up to a multiple of the chunk.                    *)
Filled(calls) ==
    [k \in DOMAIN calls |->
       IF calls[k] = SQUEEZE THEN SQUEEZE
       ELSE calls[k] \o [z \in 1..((-Len(calls[k])) % Chunk) |-> 0]]

(* What shares a digest, or leaves a transcript in one state, does so by    *)
(* zeros alone, as the padding is by zeros and no length is absorbed.  Two  *)
(* transcripts are in one state only if the elements they stand for agree   *)
(* but for a zero that waits.  Two messages share a digest only if they     *)
(* agree or an even one is continued by one zero; for Rescue it is an odd   *)
(* one, and the empty message.  Lists of chunks meet only if their elements *)
(* in a row do.  Bytes are filled with zeros, too, and the STARK transcript *)
(* is that of the filled bytes and the squeezes.                            *)
DigestsMeetOnlyByZeros ==
    LET one == hashed.inputs[1]   other == hashed.inputs[2]
        same == hashed.digests[1] = hashed.digests[2]
        InChunks(m) == IF m = <<>> THEN <<0>> ELSE Chunks(m)
    IN  /\ SameState(tracks[1].sponge, tracks[2].sponge)
             => Settled(AsElements(tracks[1].log)) = Settled(AsElements(tracks[2].log))
        /\ CASE hashed.by = "field" -> same => EqualUpToZero(one, other)
             [] hashed.by = "rescue" -> same => InBlocks(one) = InBlocks(other)
             [] hashed.by = "chunked" ->
                  IF Refused(one) \/ Refused(other) THEN same => Refused(one) /\ Refused(other)
                  ELSE same => EqualUpToZero(Joined(one), Joined(other))
             [] hashed.by = "fq" -> same => EqualUpToZero(InChunks(one), InChunks(other))
             [] hashed.by = "stark" -> same => Joined(Filled(one)) = Joined(Filled(other))
             [] OTHER -> hashed = NothingHashed

(* Two lists of chunks of which none is too wide share a digest only if     *)
(* they are one list, as poseidon_hash_chunked promises of its domain       *)
(* separation.  Nothing is absorbed between the chunks.                     *)
ChunksAreSeparated ==
    LET one == hashed.inputs[1]   other == hashed.inputs[2]
    IN  hashed.by = "chunked" /\ ~Refused(one) /\ ~Refused(other) =>
          (hashed.digests[1] = hashed.digests[2] => one = other)
=============================================================================
