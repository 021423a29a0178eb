------------------------------- MODULE Groth16 -------------------------------
(***************************************************************************)
(* Groth16 verification of soroban-zk-std: decoding of keys and proofs     *)
(* (vk.rs, groth16.rs), the verification equation (groth16.rs), the checks *)
(* around the host's pairing (host.rs), under the entry points of          *)
(* ZkContract (lib.rs).                                                    *)
(*                                                                         *)
(* A point is its discrete logarithm: 0 is the identity, which the code    *)
(* writes (0, 0), and Off is any pair of coordinates that is not a point   *)
(* of the curve.  A point of the second curve may be Stray: on the curve   *)
(* but outside the subgroup of order Q, which the code does not notice,    *)
(* because g2_scalar_mul reduces the order it multiplies by to zero.       *)
(* Addition of points is addition modulo Q, and the pairing of two points  *)
(* is their product.                                                       *)
(***************************************************************************)
EXTENDS Integers, Sequences

CONSTANTS
  Q,           (* The group order, FR_MODULUS.                               *)
  Off,         (* Coordinates outside the field or the curve.                *)
  Stray,       (* A point of the second curve outside the subgroup.          *)
  Msm(_, _),   (* What the host's g1_msm makes of points and scalars.        *)
  FixedLen,        (* Bytes of a serialized key before its ic points: 452.       *)
  PointLen,        (* Bytes of a serialized G1 point: 64.                        *)
  Word,        (* Values of a usize: 2^32 on wasm.                           *)
  Buffer,      (* Arguments of set_verifying_key, see BufferAssumption.      *)
  ProofBuffer, (* Proof arguments of verify_proof.                           *)
  Inputs,      (* Public inputs of verify_proof.                             *)
  NoKey

Exponent == 0 .. (Q - 1)
Point == Exponent \union {Off}
Point2 == Point \union {Stray}

(* A buffer that may be a serialized key: its length, the coordinates at   *)
(* the places of the four fixed points, the word at the place of ic_len,   *)
(* and the coordinates that fill the rest, as far as they are whole.       *)
KeyBuffer == [len : Nat, alpha : Point, beta : Point2, gamma : Point2, delta : Point2,
              icLen : Nat, ic : Seq(Point)]

ASSUME OrderAssumption ==
  Q \in Nat \ {0, 1} /\ Off \notin Int /\ Stray \notin Int /\ Off # Stray
ASSUME SizeAssumption == FixedLen \in Nat /\ PointLen \in Nat \ {0} /\ Word \in Nat
ASSUME BufferAssumption ==
  /\ Buffer \subseteq KeyBuffer
  /\ \A b \in Buffer : /\ b.len < Word /\ b.icLen < Word
                       /\ b.len >= FixedLen => Len(b.ic) = (b.len - FixedLen) \div PointLen
  /\ ProofBuffer \subseteq [whole : BOOLEAN, a : Point, b : Point2, c : Point]
  /\ Inputs \subseteq Seq(Nat)
ASSUME MsmAssumption ==
  \A b \in Buffer, s \in Inputs :
    /\ Len(s) + 1 = Len(b.ic)
    /\ \A i \in 2 .. Len(b.ic) : b.ic[i] # Off
    => Msm(SubSeq(b.ic, 2, Len(b.ic)), s) \in Exponent
ASSUME NoKeyAssumption == NoKey \notin KeyBuffer

VARIABLES
  stored,   (* The buffer of the key on the ledger, or NoKey.                *)
  answer    (* The last call: its arguments, the key it saw, its result.     *)

vars == <<stored, answer>>

Errors == {"InvalidInput", "InvalidFieldElement", "DeserializationError", "StorageError"}
Results == Errors \union {"ok", "true", "false", "trap"}

(* is_valid_g1_subgroup and validate_g2_coords: (0, 0) is on neither curve.*)
IsValid(p) == p \in Exponent \ {0}
IsValid2(p) == p \in (Exponent \ {0}) \union {Stray}

(* Addition of points with the identity written (0, 0), and neg_g1.  What  *)
(* is not a point does not become one.                                     *)
Plus(p, q) == IF Off \in {p, q} THEN Off ELSE (p + q) % Q
Neg(p) == IF p = Off THEN Off ELSE (Q - p) % Q

-----------------------------------------------------------------------------
(***************************************************************************)
(* vk_to_bytes and vk_from_bytes.  The length is computed from ic_len in   *)
(* usize, with overflow checks on (profile.release), before it is compared.*)
(***************************************************************************)
Serialized(k) == [len |-> FixedLen + Len(k.ic) * PointLen,
                  alpha |-> k.alpha, beta |-> k.beta, gamma |-> k.gamma, delta |-> k.delta,
                  icLen |-> Len(k.ic), ic |-> k.ic]

KeyOf(b) == [alpha |-> b.alpha, beta |-> b.beta, gamma |-> b.gamma, delta |-> b.delta,
             ic |-> b.ic]

FixedPointsAreValid(b) ==
  IsValid(b.alpha) /\ \A p \in {b.beta, b.gamma, b.delta} : IsValid2(p)
IcIsValid(b) == \A i \in 1 .. Len(b.ic) : IsValid(b.ic[i])
Expected(b) == FixedLen + b.icLen * PointLen

(* Mutant of Decoding: a buffer longer than its key passes.                *)
DecodingLong(b) ==
  IF b.len < FixedLen \/ ~FixedPointsAreValid(b) THEN "DeserializationError"
  ELSE IF Expected(b) >= Word THEN "trap"
  ELSE IF b.len < Expected(b) \/ ~IcIsValid(b) THEN "DeserializationError" ELSE "ok"

Decoding(b) ==
  IF b.len < FixedLen \/ ~FixedPointsAreValid(b) THEN "DeserializationError"
  ELSE IF Expected(b) >= Word THEN "trap"
  ELSE IF b.len # Expected(b) \/ ~IcIsValid(b) THEN "DeserializationError" ELSE "ok"

(* Groth16Proof::from_bytes.                                               *)
ProofDecodes(p) == p.whole /\ IsValid(p.a) /\ IsValid2(p.b) /\ IsValid(p.c)

(***************************************************************************)
(* The host.  Its functions trap on what is not a point of the group.      *)
(***************************************************************************)
Accepts(p) == p \notin {Off, Stray}

(* pairing_check: validate_pairs, then the host.                           *)
PairingCheckHost(pairs) ==
  IF \E i \in 1 .. 4 : ~Accepts(pairs[i][1]) \/ ~Accepts(pairs[i][2]) THEN "trap"
  ELSE IF (pairs[1][1] * pairs[1][2] + pairs[2][1] * pairs[2][2]
            + pairs[3][1] * pairs[3][2] + pairs[4][1] * pairs[4][2]) % Q = 0
    THEN "true" ELSE "false"

PairingCheck(pairs) ==
  IF \E i \in 1 .. 4 : ~IsValid(pairs[i][1]) \/ ~IsValid2(pairs[i][2])
    THEN "InvalidInput" ELSE PairingCheckHost(pairs)

(* g1_msm and the addition of ic[0] to what it returns.                    *)
MsmOf(k, inputs) == Msm(SubSeq(k.ic, 2, Len(k.ic)), inputs)
Acc(k, inputs) == IF inputs = <<>> THEN k.ic[1] ELSE Plus(k.ic[1], MsmOf(k, inputs))

Pairs(k, p, acc) == << <<p.a, p.b>>, <<Neg(k.alpha), k.beta>>,
                       <<Neg(acc), k.gamma>>, <<Neg(p.c), k.delta>> >>

(* Mutant of CheckedInputs: the largest reduced input is refused.          *)
CheckedBelow(k, inputs) ==
  IF Len(k.ic) = 0 \/ Len(inputs) # Len(k.ic) - 1 THEN "InvalidInput"
  ELSE IF \E i \in 1 .. Len(inputs) : inputs[i] >= Q - 1 THEN "InvalidFieldElement"
  ELSE "ok"

(* The first checks of groth16_verify.                                     *)
CheckedInputs(k, inputs) ==
  IF Len(k.ic) = 0 \/ Len(inputs) # Len(k.ic) - 1 THEN "InvalidInput"
  ELSE IF \E i \in 1 .. Len(inputs) : inputs[i] >= Q THEN "InvalidFieldElement"
  ELSE "ok"

(* Mutant of Verify: the constant term ic[0] is left out.                  *)
VerifyWithoutFirst(k, p, inputs) ==
  IF CheckedInputs(k, inputs) # "ok" THEN CheckedInputs(k, inputs)
  ELSE IF \E i \in 1 .. Len(inputs) : ~Accepts(k.ic[i + 1]) THEN "trap"
  ELSE IF inputs # <<>> /\ ~IsValid(MsmOf(k, inputs)) THEN "DeserializationError"
  ELSE PairingCheck(Pairs(k, p, MsmOf(k, inputs)))

(* groth16_verify.  What the host returns is decoded like any point, and   *)
(* the identity does not decode.                                           *)
Verify(k, p, inputs) ==
  IF CheckedInputs(k, inputs) # "ok" THEN CheckedInputs(k, inputs)
  ELSE IF \E i \in 1 .. Len(inputs) : ~Accepts(k.ic[i + 1]) THEN "trap"
  ELSE IF inputs # <<>> /\ ~IsValid(MsmOf(k, inputs)) THEN "DeserializationError"
  ELSE PairingCheck(Pairs(k, p, Acc(k, inputs)))

-----------------------------------------------------------------------------
Nothing == [op |-> "none", result |-> "ok"]

(* set_verifying_key: decode, and save what was decoded.                   *)
SetVerifyingKey(b) ==
  /\ stored' = IF Decoding(b) = "ok" THEN Serialized(KeyOf(b)) ELSE stored
  /\ answer' = [op |-> "set", arg |-> b, result |-> Decoding(b)]

(* verify_proof: load and decode the key, decode the proof, verify.        *)
VerifyProof(p, inputs) ==
  /\ answer' = [op |-> "verify", key |-> stored, proof |-> p, inputs |-> inputs,
                result |-> IF stored = NoKey THEN "StorageError"
                           ELSE IF Decoding(stored) # "ok" THEN Decoding(stored)
                           ELSE IF ~ProofDecodes(p) THEN "DeserializationError"
                           ELSE Verify(KeyOf(stored), p, inputs)]
  /\ UNCHANGED stored

Init == stored = NoKey /\ answer = Nothing

Next == \/ \E b \in Buffer : SetVerifyingKey(b)
        \/ \E p \in ProofBuffer, inputs \in Inputs : VerifyProof(p, inputs)

Spec == Init /\ [][Next]_vars

-----------------------------------------------------------------------------
(* Variables have their types.                                             *)
TypeOK ==
  /\ stored \in KeyBuffer \union {NoKey}
  /\ \/ answer = Nothing
     \/ answer \in [op : {"set"}, arg : Buffer, result : Results]
     \/ answer \in [op : {"verify"}, key : {stored}, proof : ProofBuffer,
                    inputs : Inputs, result : Results]

(* What is on the ledger decodes, to the key that was submitted: the       *)
(* re-serialization of set_verifying_key loses nothing (vk.rs, "Inverse of *)
(* vk_to_bytes").                                                          *)
StoredKeyDecodes ==
  /\ stored # NoKey => Decoding(stored) = "ok"
  /\ answer.op = "set" /\ answer.result = "ok" => stored = answer.arg

(* A verdict is the verdict of the Groth16 equation, on as many inputs as  *)
(* the key has and each of them reduced (groth16.rs:42-50).                *)
Equation(k, p, inputs) ==
  (p.a * p.b) % Q = (k.alpha * k.beta + Acc(k, inputs) * k.gamma + p.c * k.delta) % Q
VerdictIsTheEquation ==
  answer.op = "verify" /\ answer.result \in {"true", "false"} =>
    /\ Len(answer.inputs) + 1 = Len(answer.key.ic)
    /\ \A i \in 1 .. Len(answer.inputs) : answer.inputs[i] < Q
    /\ (answer.result = "true") <=>
         Equation(KeyOf(answer.key), answer.proof, answer.inputs)

(* A point of the key or of the proof lies outside the subgroup.           *)
Strays(a) == Stray \in {a.key.beta, a.key.gamma, a.key.delta, a.proof.b}

(* The host traps on no call of verify_proof but for a stray point:        *)
(* whatever else reaches g1_msm or the pairing was decoded.  The comment   *)
(* on validate_pairs (host.rs:128-135) says so of stray points too.        *)
OnlyStraysTrap == answer.op = "verify" /\ answer.result = "trap" => Strays(answer)

(* A claim that is well formed: the proof decodes and the inputs are as    *)
(* many as the key has, and reduced.                                       *)
WellFormed(a) == /\ a.op = "verify" /\ a.key # NoKey /\ ProofDecodes(a.proof)
                 /\ Len(a.inputs) + 1 = Len(a.key.ic)
                 /\ \A i \in 1 .. Len(a.inputs) : a.inputs[i] < Q

(* A well-formed claim gets a verdict, with two exceptions.  When a sum of *)
(* ic points is the identity, which happens for inputs of the right number *)
(* and size, it is refused with an error that the comment on               *)
(* groth16_verify (groth16.rs:42-50) does not speak of; and when a point   *)
(* is stray it traps.                                                      *)
SumIsIdentity(k, inputs) ==
  \/ inputs # <<>> /\ MsmOf(k, inputs) = 0
  \/ Acc(k, inputs) = 0

OnlyIdentityIsRefused ==
  WellFormed(answer) =>
    IF SumIsIdentity(KeyOf(answer.key), answer.inputs)
      THEN answer.result \in {"DeserializationError", "InvalidInput"}
      ELSE IF Strays(answer) THEN answer.result = "trap"
      ELSE answer.result \in {"true", "false"}

(* The inductive invariant: what is stored was submitted and decodes, the  *)
(* host traps on stray points only, and the last answer is right about it  *)
(* (vk.rs, vk_from_bytes; groth16.rs, groth16_verify; host.rs,             *)
(* validate_pairs).                                                        *)
Stored == stored \in Buffer \union {NoKey} /\ (stored # NoKey => Decoding(stored) = "ok")
IInv == /\ Stored /\ TypeOK /\ StoredKeyDecodes
        /\ VerdictIsTheEquation /\ OnlyStraysTrap /\ OnlyIdentityIsRefused
=============================================================================
