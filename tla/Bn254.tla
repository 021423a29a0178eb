------------------------------- MODULE Bn254 -------------------------------
(***************************************************************************)
(* Arithmetic of the two prime fields of the curve, on machine words       *)
(* (impl Bn254 of soroban-zk-core/src/lib.rs).  Products by MulMod are     *)
(* exact: the module Montgomery says why.                                  *)
(***************************************************************************)
EXTENDS Integers

CONSTANTS
    HalfBits,    \* 128, half the bits of a u256
    FR_MODULUS,  \* the order of the curve
    FQ_MODULUS   \* the prime of the coordinates

(* Two to the powers that fit a word or just leave it.                       *)
TwoTo[k \in 0..(2 * HalfBits)] == IF k = 0 THEN 1 ELSE 2 * TwoTo[k - 1]

Half == TwoTo[HalfBits]
Word == Half * Half
U256 == 0..(Word - 1)
Moduli == {FR_MODULUS, FQ_MODULUS}

ASSUME FieldAssumption ==
    /\ HalfBits \in Nat \ {0} /\ Moduli \subseteq Nat
    /\ \A m \in Moduli : 2 < m /\ 2 * m < Word
    /\ FQ_MODULUS % 4 = 3

(* Mutant of AddMod: a sum that wraps past the word is not reduced.         *)
AddModWraps(a, b, m) ==
    LET sum == (a + b) % Word IN IF sum >= m THEN sum - m ELSE sum

(* One subtraction of the modulus, when the sum wraps or reaches it.        *)
AddMod(a, b, m) ==
    LET sum == (a + b) % Word IN
    IF (a + b >= Word) \/ (sum >= m) THEN (sum - m) % Word ELSE sum

(* One addition of the modulus, when the difference wraps.                  *)
SubMod(a, b, m) == IF a < b THEN (a - b + m) % Word ELSE a - b

MulMod(a, b, m) == (a * b) % m

(* value * 2^shift modulo m, by doubling.                                   *)
ShiftLeftMod(value, shift, m) ==
    LET shifted[k \in 0..shift] ==
            IF k = 0 THEN value % m ELSE AddMod(shifted[k - 1], shifted[k - 1], m)
    IN  shifted[shift]

(* The product of words that wraps is built from the halves of the operands.*)
MulModWithOverflow(a, b, m) ==
    LET aLow == a % Half   aHigh == a \div Half
        bLow == b % Half   bHigh == b \div Half
        ll == (aLow * bLow) % m
        lh == ShiftLeftMod(aLow * bHigh, HalfBits, m)
        hl == ShiftLeftMod(aHigh * bLow, HalfBits, m)
        hh == ShiftLeftMod(aHigh * bHigh, 2 * HalfBits, m)
    IN  AddMod(AddMod(AddMod(ll, lh, m), hl, m), hh, m)

MulModNaive(a, b, m) ==
    IF a * b >= Word THEN MulModWithOverflow(a, b, m) ELSE (a * b) % m

(* Square and multiply from the lowest bit: after k squarings base[k] is    *)
(* base to the power 2^k.                                                  *)
PowMod(base, exp, m) ==
    LET square[k \in 0..(2 * HalfBits)] ==
            IF k = 0 THEN base ELSE MulMod(square[k - 1], square[k - 1], m)
        res[k \in 0..(2 * HalfBits)] ==
            IF k = 0 THEN 1
            ELSE IF (exp \div TwoTo[k - 1]) % 2 = 1
                 THEN MulMod(res[k - 1], square[k - 1], m) ELSE res[k - 1]
    IN  res[2 * HalfBits]

(* invert and invert_fq: zero has no inverse and stays zero.                *)
Invert(a, m) == IF a = 0 THEN 0 ELSE PowMod(a, m - 2, m)

SqrtFq(a) == PowMod(a, (FQ_MODULUS + 1) \div 4, FQ_MODULUS)

(* Fr::safe_from, fr_from_bytes and fq_from_bytes: words below the modulus. *)
IsReduced(a, m) == a < m
=============================================================================
