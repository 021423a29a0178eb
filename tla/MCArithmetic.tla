--------------------------- MODULE MCArithmetic ---------------------------
(* Two primes below and near the size of a word of two limbs in base 4; a   *)
(* curve of 13 points over 19 elements, and its twist of 325 points over    *)
(* their extension, in which the subgroup of 13 points has cofactor 25.     *)
EXTENDS Arithmetic

MCWeight == [k \in 0..(2 * L + 1) |-> B ^ k]
MCEngines ==
  {[n |-> n, n0inv |-> CHOOSE v \in 0..(B - 1) : (v * n + 1) % B = 0,
    r2 |-> B ^ (2 * L) % n] : n \in {3, 13}}

MCG2B == <<1, 1>>
MCG1Generator == <<1, 2>>
MCG2Generator == <<<<1, 11>>, <<8, 8>>>>
MCG2Scales == {<<1, 0>>, <<2, 5>>}
MCSrs == <<1, 5>>

MCScalars == {0, 1, 5, 12, 13, 14, 63}
MCPolynomials == UNION {[1..n -> {0, 1, 7, 13, 20}] : n \in 0..3}

Fq2 == Fq \X Fq
MCCandidates ==
  {c \in Fq2 \X Fq2 : IsOnCurve(c[1], c[2])}
    \cup {<<ZERO, ZERO>>, <<<<1, 11>>, <<8, 9>>>>, <<<<20, 11>>, <<8, 8>>>>,
          <<<<1, 11>>, <<27, 8>>>>}
=============================================================================
