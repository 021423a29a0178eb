---------------------------- MODULE Permutations ----------------------------
(***************************************************************************)
(* The permutations that run in software: Poseidon2 of soroban-zk-core     *)
(* (poseidon2.rs) and Rescue-Prime (soroban-zk-std/src/gadgets/hash/       *)
(* rescue_prime.rs) with its search for an exponent and its inverse.       *)
(***************************************************************************)
EXTENDS Bn254, Sequences, FiniteSets

CONSTANTS
    FULL_HALF, ROUNDS_P,   \* full rounds before and after, 4; partial rounds, 56
    RC,                    \* the rows of round constants
    RESCUE_ROUNDS,         \* 6
    RoundKeys,             \* the rows of round keys
    Totients               \* numbers p - 1 that an exponent is searched for

T == 3
State == [1..T -> 0..(FR_MODULUS - 1)]

(* Rows of partial rounds have their first constant only.                    *)
ASSUME RCAssumption ==
    /\ FULL_HALF \in Nat /\ ROUNDS_P \in Nat /\ RESCUE_ROUNDS \in Nat
    /\ RC \in [1..(2 * FULL_HALF + ROUNDS_P) -> State]
    /\ \A k \in (FULL_HALF + 1)..(FULL_HALF + ROUNDS_P) : RC[k][2] = 0 /\ RC[k][3] = 0
    /\ RoundKeys \in [1..RESCUE_ROUNDS -> State]
    /\ Totients \subseteq Nat /\ \A pm1 \in Totients : 2 < pm1 /\ 4 * pm1 < Word

(* The fifth power has an inverse, and the matrices do.                      *)
ASSUME SboxAssumption ==
    /\ FR_MODULUS > 7
    /\ \E e \in 1..(FR_MODULUS - 1) : (5 * e) % (FR_MODULUS - 1) = 1

AddFr(a, b) == AddMod(a, b, FR_MODULUS)
SubFr(a, b) == SubMod(a, b, FR_MODULUS)
MulFr(a, b) == MulMod(a, b, FR_MODULUS)

-----------------------------------------------------------------------------
(* Poseidon2.                                                               *)

Sbox(x) == LET x2 == MulFr(x, x) IN MulFr(MulFr(x2, x2), x)

(* Mutant of Mds: the sum is taken from the elements already updated.        *)
MdsInPlace(s) ==
    LET Twice(v) == AddFr(v, v)
        a == AddFr(s[1], Twice(AddFr(AddFr(s[1], s[2]), s[3])))
        b == AddFr(s[2], Twice(AddFr(AddFr(a, s[2]), s[3])))
    IN  <<a, b, AddFr(s[3], Twice(AddFr(AddFr(a, b), s[3])))>>

(* The matrix is the identity plus twice the matrix of ones.                 *)
Mds(s) ==
    LET sum == AddFr(AddFr(s[1], s[2]), s[3])
    IN  [k \in 1..T |-> AddFr(s[k], AddFr(sum, sum))]

FullRound(s, rc) == Mds([k \in 1..T |-> Sbox(AddFr(s[k], rc[k]))])
PartialRound(s, rc) == Mds([s EXCEPT ![1] = Sbox(AddFr(@, rc[1]))])

Permute(s) ==
    LET after[k \in 0..Len(RC)] ==
          IF k = 0 THEN s
          ELSE IF k <= FULL_HALF \/ k > FULL_HALF + ROUNDS_P
               THEN FullRound(after[k - 1], RC[k]) ELSE PartialRound(after[k - 1], RC[k])
    IN  after[Len(RC)]

-----------------------------------------------------------------------------
(* Rescue-Prime.                                                            *)

(* One turn of the loop of gcd; none changes anything after the last one.    *)
EuclidStep(s) == IF s.b = 0 THEN s ELSE [a |-> s.b, b |-> s.a % s.b]

(* There are at most b turns, as every one makes b smaller.                  *)
Gcd(a, b) ==
    LET euclid[k \in 0..b] ==
          IF k = 0 THEN [a |-> a, b |-> b] ELSE EuclidStep(euclid[k - 1])
    IN  euclid[b].a

(* Double and add from the highest bit of a.                                 *)
DoubleAndAdd(a, b, m) ==
    LET res[k \in 0..(2 * HalfBits)] ==   \* the k highest bits are done
          IF k = 0 THEN 0
          ELSE LET twice == (2 * res[k - 1]) % m IN
               IF ((a % m) \div TwoTo[2 * HalfBits - k]) % 2 = 1
               THEN (twice + b) % m ELSE twice
    IN  res[2 * HalfBits]

SubWithin(a, b, m) == IF a >= b THEN (a - b) % m ELSE (m - (b - a)) % m

(* Extended Euclid with the coefficient kept in range; m may be composite.   *)
InverseStep(s, m) ==
    LET q == s.r \div s.newr IN
    IF s.newr = 0 THEN s
    ELSE [t |-> s.newt, newt |-> SubWithin(s.t, DoubleAndAdd(q, s.newt, m), m),
          r |-> s.newr, newr |-> s.r - q * s.newr]

ModInv(a, m) ==
    LET loop[k \in 0..m] ==
          IF k = 0 THEN [t |-> 0, newt |-> 1, r |-> m, newr |-> a % m]
          ELSE InverseStep(loop[k - 1], m)
    IN  loop[m].t % m

(* The smallest odd exponent from 3 on that is coprime to p - 1, which one   *)
(* of p and p + 1 is.                                                        *)
Alpha(pm1) ==
    LET search[k \in 0..pm1] ==   \* with k more exponents to try
          LET alpha == 3 + 2 * (pm1 - k) IN
          IF k = 0 \/ Gcd(alpha, pm1) = 1 THEN alpha ELSE search[k - 1]
    IN  search[pm1]

AlphaInv(pm1) == ModInv(Alpha(pm1), pm1)

(* A Cauchy matrix: 1 / (x - y) for rows x from 1 and columns y from T + 1.  *)
CauchyMds ==
    [i \in 1..T |-> [j \in 1..T |-> Invert(SubFr(i, T + j), FR_MODULUS)]]

RescueRound(s, r, mds, alpha, alphaInv) ==
    LET keyed == [k \in 1..T |->
          AddFr(PowMod(s[k], IF r % 2 = 1 THEN alpha ELSE alphaInv, FR_MODULUS),
                RoundKeys[r][k])]
    IN  [k \in 1..T |-> AddFr(AddFr(MulFr(mds[k][1], keyed[1]), MulFr(mds[k][2], keyed[2])),
                              MulFr(mds[k][3], keyed[3]))]

Exponents == [forward |-> Alpha(FR_MODULUS - 1), back |-> AlphaInv(FR_MODULUS - 1)]

RescuePermute(s) ==
    LET e == Exponents   mds == CauchyMds
        after[k \in 0..RESCUE_ROUNDS] ==
          IF k = 0 THEN s ELSE RescueRound(after[k - 1], k, mds, e.forward, e.back)
    IN  after[RESCUE_ROUNDS]

-----------------------------------------------------------------------------

VARIABLE permuted   \* the last state given to a permutation and its image

NothingPermuted == [by |-> "none", input |-> <<>>, output |-> <<>>]

PermInit == permuted = NothingPermuted

PermNext ==
    \/ /\ permuted = NothingPermuted
       /\ \/ \E s \in State :
               permuted' = [by |-> "poseidon2", input |-> s, output |-> Permute(s)]
          \/ \E s \in State :
               permuted' = [by |-> "rescue", input |-> s, output |-> RescuePermute(s)]
          \/ \E pm1 \in Totients :
               permuted' = [by |-> "exponents", input |-> <<pm1>>,
                            output |-> <<Alpha(pm1), AlphaInv(pm1)>>]
    \/ permuted # NothingPermuted /\ permuted' = NothingPermuted

PermSpec == PermInit /\ [][PermNext]_permuted

-----------------------------------------------------------------------------

(* The way back, from the algebra of the layers.                             *)
Elements == 0..(FR_MODULUS - 1)
Power(x, e) ==
    LET p[k \in 0..e] == IF k = 0 THEN 1 ELSE (p[k - 1] * x) % FR_MODULUS IN p[e]
Coprime(a, b) == \A d \in 2..a : ~(a % d = 0 /\ b % d = 0)
RefAlpha(pm1) == CHOOSE a \in 3..(pm1 + 3) :
    /\ a % 2 = 1 /\ Coprime(a, pm1)
    /\ \A b \in 3..(a - 1) : b % 2 = 1 => ~Coprime(b, pm1)
AlphaPower == [x \in Elements |-> Power(x, RefAlpha(FR_MODULUS - 1))]
Root == [y \in Elements |-> CHOOSE x \in Elements : AlphaPower[x] = y]
FifthRoot == [y \in Elements |-> CHOOSE x \in Elements : Power(x, 5) = y]
Reciprocal(x) == CHOOSE y \in Elements : (x * y) % FR_MODULUS = 1

(* The inverse of I + 2J is I - 2J/7.                                        *)
UnMds(s) ==
    [k \in 1..T |-> (s[k] - 2 * Reciprocal(7) * (s[1] + s[2] + s[3])) % FR_MODULUS]

Unpermute(s) ==
    LET before[k \in 1..(Len(RC) + 1)] ==
          IF k = Len(RC) + 1 THEN s
          ELSE LET u == UnMds(before[k + 1])
                   full == k <= FULL_HALF \/ k > FULL_HALF + ROUNDS_P
               IN  [l \in 1..T |-> IF full \/ l = 1
                                   THEN (FifthRoot[u[l]] - RC[k][l]) % FR_MODULUS ELSE u[l]]
    IN  before[1]

(* The inverse of the matrix 1 / (i - j - 3), by its cofactors.              *)
Cauchy == [i \in 1..T |-> [j \in 1..T |-> Reciprocal((i - j - 3) % FR_MODULUS)]]
Cofactor(i, j) ==
    LET After(k) == (k % 3) + 1   i1 == After(i)   j1 == After(j)
    IN  Cauchy[i1][j1] * Cauchy[After(i1)][After(j1)]
          - Cauchy[i1][After(j1)] * Cauchy[After(i1)][j1]
Determinant == Cauchy[1][1] * Cofactor(1, 1) + Cauchy[1][2] * Cofactor(1, 2)
                 + Cauchy[1][3] * Cofactor(1, 3)
UnCauchy ==
    [j \in 1..T |-> [i \in 1..T |->
        (Cofactor(i, j) * Reciprocal(Determinant % FR_MODULUS)) % FR_MODULUS]]

UnRescue(s) ==
    LET before[k \in 1..(RESCUE_ROUNDS + 1)] ==
          IF k = RESCUE_ROUNDS + 1 THEN s
          ELSE LET v == before[k + 1]
                   u == [l \in 1..T |->
                          (UnCauchy[l][1] * v[1] + UnCauchy[l][2] * v[2]
                             + UnCauchy[l][3] * v[3] - RoundKeys[k][l]) % FR_MODULUS]
               IN  [l \in 1..T |-> IF k % 2 = 1 THEN Root[u[l]] ELSE AlphaPower[u[l]]]
    IN  before[1]

(* Every state comes back from its image, so that no two states have one    *)
(* image.  The exponent is the smallest odd one from 3 on that is coprime   *)
(* to p - 1, and its inverse undoes it, for primes of many kinds.           *)
PermutationsAreInvertible ==
    CASE permuted.by = "poseidon2" -> Unpermute(permuted.output) = permuted.input
      [] permuted.by = "rescue" -> UnRescue(permuted.output) = permuted.input
      [] permuted.by = "exponents" ->
           /\ permuted.output[1] = RefAlpha(permuted.input[1])
           /\ (permuted.output[1] * permuted.output[2]) % permuted.input[1] = 1
      [] OTHER -> permuted = NothingPermuted
=============================================================================
