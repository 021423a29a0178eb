------------------------------- MODULE FieldAdd -------------------------------
(***************************************************************************)
(* The addition of the sponge on byte arrays                               *)
(* (soroban-zk-std/src/poseidon2.rs), where carries and borrows ripple by  *)
(* hand and results are selected by a mask.  Arrays are big-endian, the    *)
(* first byte the most significant.                                        *)
(***************************************************************************)
EXTENDS Integers, Sequences

CONSTANTS
    Byte,      \* the values of a byte, 256
    Bytes,     \* the bytes of a word, 32
    Modulus    \* FR_MODULUS

(* The powers of Byte, up to that of an extended array.                      *)
ByteTo[k \in 0..(Bytes + 1)] == IF k = 0 THEN 1 ELSE Byte * ByteTo[k - 1]

ASSUME BytesAssumption ==
    /\ Byte \in Nat /\ Byte > 1 /\ Bytes \in Nat \ {0}
    /\ Modulus \in Nat /\ 1 < Modulus /\ Modulus < ByteTo[Bytes]

ValueOf(a) ==
    LET value[k \in 0..Len(a)] == IF k = 0 THEN 0 ELSE value[k - 1] * Byte + a[k]
    IN  value[Len(a)]
ArrayOf(v, n) == [k \in 1..n |-> (v \div ByteTo[n - k]) % Byte]

(* Greater or equal: the first position that differs decides.               *)
BeGe(a, b) ==
    ~\E k \in DOMAIN a : a[k] < b[k] /\ \A l \in 1..(k - 1) : a[l] = b[l]

ZeroExtend(a) == <<0>> \o a

(* Carry[k] is the carry out of position k.                                  *)
BeAdd(a, b) ==
    LET n == Len(a)
        carry[k \in 1..(n + 1)] ==
          IF k = n + 1 THEN 0 ELSE (a[k] + b[k] + carry[k + 1]) \div Byte
    IN  <<carry[1]>> \o [k \in 1..n |-> (a[k] + b[k] + carry[k + 1]) % Byte]

(* Mutant of BeSub: the borrow is not carried to the next byte.              *)
BeSubNoBorrow(a, b) == [k \in DOMAIN a |-> (a[k] - b[k]) % Byte]

BeSub(a, b) ==
    LET n == Len(a)
        borrow[k \in 1..(n + 1)] ==
          IF k = n + 1 THEN 0 ELSE IF a[k] - b[k] - borrow[k + 1] < 0 THEN 1 ELSE 0
    IN  [k \in DOMAIN a |-> (a[k] - b[k] - borrow[k + 1]) % Byte]

Select(mask, a, b) == [k \in DOMAIN a |-> IF mask THEN a[k] ELSE b[k]]

ReduceOnce(x, m) ==
    Select(BeGe(ZeroExtend(x), ZeroExtend(m)), Tail(BeSub(ZeroExtend(x), ZeroExtend(m))), x)

(* The first byte of the sum or of the difference is dropped.                *)
FieldAdd(a, b) ==
    LET m == ArrayOf(Modulus, Bytes)
        sum == BeAdd(ReduceOnce(a, m), ReduceOnce(b, m))
    IN  Select(BeGe(sum, ZeroExtend(m)), Tail(BeSub(sum, ZeroExtend(m))), Tail(sum))

-----------------------------------------------------------------------------

VARIABLE sum   \* the last addition, as numbers

NoSum == [a |-> 0, b |-> 0, out |-> -1]

SumInit == sum = NoSum

SumNext ==
    \/ /\ sum = NoSum
       /\ \E a, b \in 0..(ByteTo[Bytes] - 1) :
            sum' = [a |-> a, b |-> b,
                    out |-> ValueOf(FieldAdd(ArrayOf(a, Bytes), ArrayOf(b, Bytes)))]
    \/ sum # NoSum /\ sum' = NoSum

SumSpec == SumInit /\ [][SumNext]_sum

(* An addition never leaves the word.  It is the reduced sum for all        *)
(* operands below twice the modulus.  A larger operand keeps what one       *)
(* subtraction leaves: the result is congruent to the sum unless the part   *)
(* above the word was dropped.                                              *)
FieldAddIsExact ==
    LET a == sum.a   b == sum.b   out == sum.out
        Rest(v) == IF v >= Modulus THEN v - Modulus ELSE v
        rest == Rest(Rest(a) + Rest(b))
    IN  sum # NoSum =>
          /\ out \in 0..(ByteTo[Bytes] - 1)
          /\ a < 2 * Modulus /\ b < 2 * Modulus => out = (a + b) % Modulus
          /\ rest < ByteTo[Bytes] => (out - (a + b)) % Modulus = 0

(* The sum of any two words is the reduced one, as the test of words near   *)
(* 2^256 says (poseidon2.rs).  Words of two moduli and more are not.        *)
SumIsReduced ==
    sum # NoSum => sum.out = (sum.a + sum.b) % Modulus
=============================================================================
