-------------------------- MODULE ArithmeticProofs --------------------------
(***************************************************************************)
(* That field arithmetic is exact, whatever the width of the words.        *)
(*                                                                         *)
(* The Montgomery product: a round clears one limb of the accumulator by   *)
(* adding a multiple of the modulus; after the last round the accumulator  *)
(* is R times the result, and since the prime divides neither R nor a      *)
(* product of smaller factors, R can be cancelled.                         *)
(*                                                                         *)
(* The calls of the fields on any words: one subtraction reduces a sum     *)
(* unless it exceeds the word by more than the modulus, doubling shifts, a *)
(* product is four products of halves, and square and multiply computes    *)
(* the power, so that Fermat's theorem gives inverses and square roots.    *)
(*                                                                         *)
(* The polynomials: their values are sums of powers of a point, on         *)
(* integers; a dense polynomial is the function of its coefficients, a     *)
(* sparse one lists the coefficients of a function on exponents that are   *)
(* not zero, and every operation carries one to the other.                 *)
(*                                                                         *)
(* The field of the STARK building blocks and its evaluation domains:      *)
(* points of a domain are powers of its root times its offset, and half a  *)
(* domain further a point is the opposite of what it was.                  *)
(***************************************************************************)
EXTENDS Montgomery, FieldCalls, Polynomials, Fri, FiniteSetTheorems,
        FunctionTheorems, SequenceTheorems, WellFoundedInduction, TLAPS

-----------------------------------------------------------------------------
(* Residues.                                                               *)

(* Quotient and remainder.                                                  *)
LEMMA DivMod ==
  ASSUME NEW v \in Int, NEW m \in Nat, m > 0
  PROVE  /\ v = m * (v \div m) + (v % m)
         /\ v \div m \in Int /\ v % m \in 0..(m - 1)
<1>1. v = m * (v \div m) + (v % m)
  BY Z3
<1>2. v \div m \in Int /\ v % m \in 0..(m - 1)
  BY SMT
<1> QED
  BY <1>1, <1>2

(* Quotient and remainder are unique.                                      *)
LEMMA DivModIs ==
  ASSUME NEW v \in Int, NEW m \in Nat, m > 0, NEW k \in Int, NEW s \in 0..(m - 1),
         v = m * k + s
  PROVE  v \div m = k /\ v % m = s
<1> DEFINE d == v \div m
           r == v % m
<1>1. v = m * d + r /\ d \in Int /\ r \in 0..(m - 1)
  BY DivMod
<1> HIDE DEF d, r
<1>2. ~ (d < k)
  <2>1. d < k => m * (d + 1) <= m * k
    BY <1>1, Z3
  <2>2. m * (d + 1) = m * d + m
    BY <1>1, Z3
  <2> QED
    BY <1>1, <2>1, <2>2
<1>3. ~ (k < d)
  <2>1. k < d => m * (k + 1) <= m * d
    BY <1>1, Z3
  <2>2. m * (k + 1) = m * k + m
    BY Z3
  <2> QED
    BY <1>1, <2>1, <2>2
<1>4. d = k
  BY <1>1, <1>2, <1>3
<1>5. r = s
  BY <1>1, <1>4
<1> QED
  BY <1>4, <1>5 DEF d, r

(* Numbers that differ by a multiple of m have the same residue.           *)
LEMMA SameResidue ==
  ASSUME NEW m \in Nat, m > 0, NEW v \in Int, NEW w \in Int, NEW k \in Int, v = w + m * k
  PROVE  v % m = w % m
<1>1. /\ w = m * (w \div m) + (w % m)
      /\ w \div m \in Int /\ w % m \in 0..(m - 1)
  BY DivMod
<1> DEFINE d == w \div m
           r == w % m
<1> HIDE DEF d, r
<1>2. w = m * d + r /\ d \in Int /\ r \in 0..(m - 1)
  BY <1>1 DEF d, r
<1>3. v = m * (d + k) + r
  <2>1. m * (d + k) = m * d + m * k
    BY <1>2, Z3
  <2> QED
    BY <1>2, <2>1, Z3
<1>4. d + k \in Int
  BY <1>2
<1>5. v % m = r
  BY <1>2, <1>3, <1>4, DivModIs
<1> QED
  BY <1>5 DEF r

(* Congruence, by the multiple of m that makes the difference.             *)
Same(v, w, m) == \E k \in Int : v = w + m * k

(* Congruent numbers are those with the same residue.                       *)
LEMMA SameIsResidue ==
  ASSUME NEW m \in Nat, m > 0, NEW v \in Int, NEW w \in Int
  PROVE  Same(v, w, m) <=> v % m = w % m
<1> DEFINE dv == v \div m
           dw == w \div m
           rv == v % m
           rw == w % m
<1>1. /\ v = m * dv + rv /\ dv \in Int /\ rv \in 0..(m - 1)
      /\ w = m * dw + rw /\ dw \in Int /\ rw \in 0..(m - 1)
  BY DivMod
<1> HIDE DEF dv, dw, rv, rw
<1>2. rv = rw => v = w + m * (dv - dw) /\ dv - dw \in Int
  <2>1. m * (dv - dw) = m * dv - m * dw
    BY <1>1, Z3
  <2> QED
    BY <1>1, <2>1, Z3
<1>3. rv = rw => Same(v, w, m)
  BY <1>2 DEF Same
<1>4. ASSUME NEW k \in Int, v = w + m * k PROVE rv = rw
  BY <1>4, SameResidue DEF rv, rw
<1> QED
  BY <1>3, <1>4 DEF Same, rv, rw

(* And those whose difference is congruent to zero.                         *)
LEMMA SameDifference ==
  ASSUME NEW m \in Nat, NEW v \in Int, NEW w \in Int
  PROVE  Same(v, w, m) <=> Same(v - w, 0, m)
<1>1. ASSUME NEW k \in Int PROVE v = w + m * k <=> v - w = 0 + m * k
  BY Z3
<1> QED
  BY <1>1 DEF Same

(* Congruence is an equivalence.                                            *)
LEMMA SameIsEquivalence ==
  ASSUME NEW m \in Nat, NEW u \in Int, NEW v \in Int, NEW w \in Int
  PROVE  /\ Same(v, v, m)
         /\ Same(v, w, m) => Same(w, v, m)
         /\ Same(u, v, m) /\ Same(v, w, m) => Same(u, w, m)
<1>1. v = v + m * 0
  BY Z3
<1>2. ASSUME NEW k \in Int, v = w + m * k PROVE w = v + m * (-k) /\ -k \in Int
  BY <1>2, Z3
<1>3. ASSUME NEW k \in Int, NEW l \in Int, u = v + m * k, v = w + m * l
      PROVE  u = w + m * (l + k) /\ l + k \in Int
  <2>1. m * (l + k) = m * l + m * k
    BY Z3
  <2> QED
    BY <1>3, <2>1, Z3
<1>4. Same(v, v, m)
  BY <1>1 DEF Same
<1>5. Same(v, w, m) => Same(w, v, m)
  BY <1>2 DEF Same
<1>6. Same(u, v, m) /\ Same(v, w, m) => Same(u, w, m)
  BY <1>3 DEF Same
<1> QED
  BY <1>4, <1>5, <1>6

(* Congruent factors have congruent products.                              *)
LEMMA SameProduct ==
  ASSUME NEW m \in Nat, NEW v \in Int, NEW w \in Int, NEW p \in Int, NEW q \in Int,
         Same(v, p, m), Same(w, q, m)
  PROVE  Same(v * w, p * q, m)
<1>1. PICK k \in Int : v = p + m * k
  BY DEF Same
<1>2. PICK l \in Int : w = q + m * l
  BY DEF Same
<1> DEFINE j == p * l + k * q + m * (k * l)
<1>3. v * w = p * q + m * j
  <2>1. v * w = (p + m * k) * (q + m * l)
    BY <1>1, <1>2
  <2>2. (p + m * k) * (q + m * l) = p * q + p * (m * l) + (m * k) * q + (m * k) * (m * l)
    BY Z3
  <2>3. m * j = m * (p * l) + m * (k * q) + m * (m * (k * l))
    BY Z3
  <2>4. p * (m * l) = m * (p * l) /\ (m * k) * q = m * (k * q)
        /\ (m * k) * (m * l) = m * (m * (k * l))
    BY Z3
  <2> QED
    BY <2>1, <2>2, <2>3, <2>4
<1>4. j \in Int
  OBVIOUS
<1> HIDE DEF j
<1> QED
  BY <1>3, <1>4 DEF Same

(* A residue is its own residue.                                            *)
LEMMA ResidueIsIdempotent ==
  ASSUME NEW m \in Nat, m > 0, NEW v \in Int
  PROVE  /\ v % m \in Int /\ (v % m) % m = v % m
         /\ v \in 0..(m - 1) => v % m = v
<1>1. ASSUME NEW w \in 0..(m - 1) PROVE w % m = w
  <2>1. w = m * 0 + w /\ w \in Int
    OBVIOUS
  <2> QED
    BY <2>1, DivModIs
<1> DEFINE r == v % m
<1>2. r \in 0..(m - 1)
  BY DivMod
<1> HIDE DEF r
<1>3. r \in Int /\ r % m = r
  BY <1>1, <1>2
<1>4. v \in 0..(m - 1) => v % m = v
  BY <1>1
<1> QED
  BY <1>3, <1>4 DEF r

-----------------------------------------------------------------------------
(* The engine.                                                             *)

(* The weights of limbs are positive powers of the base.                    *)
LEMMA WeightFacts ==
  /\ B \in Nat /\ B > 1 /\ L \in Nat /\ L > 0
  /\ R \in Nat /\ R > 0 /\ R = Weight[L]
  /\ Weight[0] = 1
  /\ \A k \in 0..L : Weight[k] \in Nat /\ Weight[k] > 0
  /\ \A k \in 0..(L - 1) : k + 1 \in 0..L /\ Weight[k + 1] = B * Weight[k]
  /\ Weight[2 * L + 1] \in Nat /\ Weight[2 * L + 1] = B * (R * R)
<1>1. B \in Nat /\ B > 1 /\ L \in Nat /\ L > 0
  BY BaseAssumption
<1>2. \A k \in 0..(2 * L + 1) : Weight[k] \in Nat /\ Weight[k] > 0
  BY WeightAssumption
<1>3. \A k \in 0..L : k \in 0..(2 * L + 1) /\ k \in 0..(2 * L)
  BY <1>1
<1>4. R \in Nat /\ R > 0 /\ R = Weight[L]
  BY <1>1, <1>2, <1>3 DEF R
<1>5. \A k \in 0..(L - 1) : k + 1 \in 0..L /\ Weight[k + 1] = B * Weight[k]
  <2>1. \A k \in 0..(L - 1) : k + 1 \in 0..L /\ k \in 0..(2 * L)
    BY <1>1
  <2> QED
    BY <2>1, WeightAssumption
<1>6. Weight[2 * L + 1] = B * (R * R)
  <2>1. L \in 0..L /\ 2 * L \in 0..(2 * L) /\ L + L = 2 * L
    BY <1>1
  <2>2. Weight[2 * L] = R * R
    BY <2>1, WeightAssumption DEF R
  <2> QED
    BY <2>1, <2>2, WeightAssumption
<1>7. Weight[2 * L + 1] \in Nat /\ \A k \in 0..L : Weight[k] \in Nat /\ Weight[k] > 0
  <2>1. 2 * L + 1 \in 0..(2 * L + 1)
    BY <1>1
  <2> QED
    BY <1>2, <1>3, <2>1
<1> QED
  BY <1>1, <1>4, <1>5, <1>6, <1>7, WeightAssumption

(* What the assumption says of one engine.                                  *)
LEMMA EngineFacts ==
  ASSUME eng \in Engines
  PROVE  /\ N \in Nat /\ N > 1 /\ N < R
         /\ eng.n0inv \in 0..(B - 1) /\ (eng.n0inv * N + 1) % B = 0
         /\ eng.r2 \in Int /\ eng.r2 = (R * R) % N
         /\ R % N # 0
         /\ \A v, w \in 0..(N - 1) : (v * w) % N = 0 => v = 0 \/ w = 0
<1>1. /\ eng \in [n : Words, n0inv : 0..(B - 1), r2 : Words]
      /\ eng.n > 1 /\ (eng.n0inv * eng.n + 1) % B = 0
      /\ eng.r2 = (R * R) % eng.n /\ R % eng.n # 0
      /\ \A v, w \in 0..(eng.n - 1) : (v * w) % eng.n = 0 => v = 0 \/ w = 0
  BY EngineAssumption
<1>2. eng.n \in Words /\ eng.n0inv \in 0..(B - 1) /\ eng.r2 \in Words
  BY <1>1
<1>3. eng.n \in Nat /\ eng.n < R /\ eng.r2 \in Int
  BY <1>2, WeightFacts DEF Words
<1> QED
  BY <1>1, <1>2, <1>3 DEF N

(* A number and its residue.                                               *)
LEMMA SameAsResidue ==
  ASSUME NEW m \in Nat, m > 0, NEW v \in Int, NEW r, r = v % m
  PROVE  r \in 0..(m - 1) /\ r \in Int /\ Same(r, v, m) /\ (v \in 0..(m - 1) => r = v)
<1>1. r \in 0..(m - 1) /\ r \in Int
  BY DivMod
<1>0. v \in 0..(m - 1) => r = v
  BY ResidueIsIdempotent
<1>2. r % m = r
  BY ResidueIsIdempotent
<1>3. Same(r, v, m)
  <2>1. r % m = v % m
    BY <1>2
  <2> QED
    BY <1>1, <2>1, SameIsResidue
<1> QED
  BY <1>0, <1>1, <1>3

(* Congruent to zero are the multiples.                                       *)
LEMMA SameAsZero ==
  ASSUME NEW m \in Nat, m > 0, NEW v \in Int
  PROVE  Same(v, 0, m) <=> v % m = 0
<1>1. 0 % m = 0
  <2>1. 0 \in 0..(m - 1) /\ 0 \in Int
    OBVIOUS
  <2> QED
    BY <2>1, ResidueIsIdempotent
<1>2. Same(v, 0, m) <=> v % m = 0 % m
  <2>1. 0 \in Int
    OBVIOUS
  <2> QED
    BY <2>1, SameIsResidue
<1> QED
  BY <1>1, <1>2

(* R has an inverse modulo the prime: it can be cancelled.                 *)
LEMMA Cancel ==
  ASSUME eng \in Engines, NEW v \in Int, NEW w \in Int, Same(R * v, R * w, N)
  PROVE  Same(v, w, N)
<1> DEFINE c == v - w
           rr == R % N
           rc == c % N
<1>1. N \in Nat /\ N > 0 /\ R \in Int /\ c \in Int
  BY EngineFacts, WeightFacts
<1>2. /\ rr \in 0..(N - 1) /\ rr \in Int /\ Same(rr, R, N) /\ rr # 0
      /\ rc \in 0..(N - 1) /\ rc \in Int /\ Same(rc, c, N)
  BY <1>1, SameAsResidue, EngineFacts
<1>3. Same(R * c, 0, N)
  <2>1. R * c = R * v - R * w /\ R * v \in Int /\ R * w \in Int
    BY <1>1, Z3
  <2> QED
    BY <1>1, <2>1, SameDifference
<1> HIDE DEF c, rr, rc
<1>4. Same(rr * rc, R * c, N)
  BY <1>1, <1>2, SameProduct
<1>5. Same(rr * rc, 0, N)
  <2>1. rr * rc \in Int /\ R * c \in Int /\ 0 \in Int
    BY <1>1, <1>2
  <2> QED
    BY <1>1, <1>3, <1>4, <2>1, SameIsEquivalence
<1>6. (rr * rc) % N = 0
  <2>1. rr * rc \in Int
    BY <1>1, <1>2
  <2> QED
    BY <1>1, <1>5, <2>1, SameAsZero
<1>7. rc = 0
  BY <1>2, <1>6, EngineFacts
<1>8. Same(c, 0, N)
  BY <1>1, <1>2, <1>7, SameIsEquivalence
<1> QED
  BY <1>1, <1>8, SameDifference DEF c

(* A value below the modulus that is w once R is cancelled is its residue. *)
LEMMA ResultIs ==
  ASSUME eng \in Engines, NEW p \in 0..(N - 1), NEW w \in Int, Same(R * p, R * w, N)
  PROVE  p = w % N
<1>1. N \in Nat /\ N > 0 /\ p \in Int
  BY EngineFacts
<1>2. Same(p, w, N)
  BY <1>1, Cancel
<1>3. p % N = w % N
  BY <1>1, <1>2, SameIsResidue
<1>4. p % N = p
  BY <1>1, ResidueIsIdempotent
<1> QED
  BY <1>3, <1>4

(* No limb weighs more than the last one.                                   *)
LEMMA WeightsAreOrdered ==
  \A k \in 0..L : Weight[k] <= R
<1> SUFFICES ASSUME NEW k \in 0..L PROVE Weight[k] <= R
  OBVIOUS
<1>1. L - k \in 0..L /\ k + (L - k) = L
  BY WeightFacts
<1>2. Weight[L] = Weight[k] * Weight[L - k]
  BY <1>1, WeightAssumption
<1> DEFINE u == Weight[k]
           v == Weight[L - k]
<1>3. u \in Nat /\ v \in Nat /\ v > 0
  BY <1>1, WeightFacts
<1> HIDE DEF u, v
<1>4. u * v >= u
  BY <1>3, Z3
<1> QED
  BY <1>2, <1>4, WeightFacts DEF u, v

(* The limb above what is below it.                                        *)
LEMMA LimbSplit ==
  ASSUME NEW b \in Nat, b > 0, NEW w \in Nat, w > 0, NEW v \in Nat
  PROVE  /\ (v \div w) % b \in 0..(b - 1)
         /\ v % w \in 0..(w - 1)
         /\ v % (b * w) = (v % w) + ((v \div w) % b) * w
<1> DEFINE d == v \div w
           r == v % w
           e == d \div b
           l == d % b
<1>1. v = w * d + r /\ d \in Int /\ r \in 0..(w - 1)
  BY DivMod
<1> HIDE DEF d, r
<1>2. d = b * e + l /\ e \in Int /\ l \in 0..(b - 1)
  BY <1>1, DivMod
<1> HIDE DEF e, l
<1> DEFINE bw == b * w
           s == r + l * w
<1>3. v = bw * e + s
  <2>1. w * (b * e + l) = (b * w) * e + l * w
    BY <1>2, Z3
  <2> QED
    BY <1>1, <1>2, <2>1
<1>4. bw \in Nat /\ bw > 0
  BY Z3
<1>5. s \in 0..(bw - 1)
  <2>1. l * w \in Nat /\ l * w <= (b - 1) * w
    BY <1>2, Z3
  <2>2. (b - 1) * w = b * w - w
    BY Z3
  <2> QED
    BY <1>1, <2>1, <2>2
<1> HIDE DEF bw, s
<1>6. v % bw = s
  BY <1>2, <1>3, <1>4, <1>5, DivModIs
<1> QED
  BY <1>1, <1>2, <1>6 DEF d, r, l, s, bw

(* The multiple of the modulus that a round adds clears its limb.          *)
LEMMA RoundClears ==
  ASSUME NEW b \in Nat, b > 0, NEW n \in Int, NEW n0 \in Int, (n0 * n + 1) % b = 0,
         NEW d \in Int, NEW m, m = ((d % b) * n0) % b
  PROVE  m \in 0..(b - 1) /\ Same(d + m * n, 0, b)
<1> DEFINE l == d % b
           o == n0 * n + 1
           ln == l * n0
           dn == d * n0
<1>1. l \in 0..(b - 1) /\ l \in Int /\ Same(l, d, b)
  BY SameAsResidue
<1>2. Same(o, 0, b)
  <2>1. o % b = 0 /\ o \in Int
    OBVIOUS
  <2> HIDE DEF o
  <2> QED
    BY <2>1, SameAsZero
<1>3. m = ln % b
  OBVIOUS
<1> HIDE DEF l
<1>4. ln \in Int /\ dn \in Int /\ Same(ln, dn, b)
  <2>1. Same(n0, n0, b)
    BY SameIsEquivalence
  <2>2. Same(l * n0, d * n0, b)
    BY <1>1, <2>1, SameProduct
  <2> QED
    BY <1>1, <2>2
<1> HIDE DEF ln
<1>5. m \in 0..(b - 1) /\ m \in Int /\ Same(m, ln, b)
  BY <1>3, <1>4, SameAsResidue
<1>6. Same(m, dn, b)
  BY <1>4, <1>5, SameIsEquivalence
<1>7. PICK k \in Int : m = dn + b * k
  BY <1>6 DEF Same
<1>8. PICK j \in Int : o = 0 + b * j
  BY <1>2 DEF Same
<1>9. d + m * n = 0 + b * (d * j + k * n) /\ d * j + k * n \in Int
  <2>1. d + (dn + b * k) * n = d * o + (b * k) * n
    BY Z3
  <2>2. d * (b * j) = b * (d * j) /\ (b * k) * n = b * (k * n)
    BY Z3
  <2>3. b * (d * j + k * n) = b * (d * j) + b * (k * n)
    BY Z3
  <2>4. d * o = d * (b * j)
    BY <1>8
  <2>5. d + m * n = d * (b * j) + (b * k) * n
    BY <1>7, <2>1, <2>4
  <2> QED
    BY <2>2, <2>3, <2>5
<1>10. Same(d + m * n, 0, b)
  BY <1>9 DEF Same
<1> QED
  BY <1>5, <1>10

-----------------------------------------------------------------------------
(* One product.                                                            *)

(* What the accumulator v holds after the limbs of u below the weight c,   *)
(* times w, have been added and cleared.                                   *)
Holds(v, c, u, w) ==
    /\ Same(v, 0, c)
    /\ Same(v, u * w, N)
    /\ v <= u * w + (c - 1) * N

(* A round: the limb l of the operand, and the multiple m of the modulus.  *)
LEMMA RoundHolds ==
  ASSUME eng \in Engines,
         NEW c \in Nat, c > 0, NEW u \in Nat, NEW w \in Nat, NEW v \in Nat,
         Holds(v, c, u, w),
         NEW l \in 0..(B - 1),
         NEW s, s = v + l * w * c,
         NEW m, m = (((s \div c) % B) * eng.n0inv) % B
  PROVE  /\ m \in Nat /\ s + m * N * c \in Nat
         /\ Holds(s + m * N * c, B * c, u + l * c, w)
<1> DEFINE n == N
           n0 == eng.n0inv
           b == B
           lw == l * w
           uw == u * w
<1>1. /\ n \in Nat /\ n > 0 /\ n0 \in Int /\ (n0 * n + 1) % b = 0
      /\ b \in Nat /\ b > 0 /\ l \in 0..(b - 1) /\ l \in Nat
      /\ lw \in Nat /\ uw \in Nat
  BY EngineFacts, WeightFacts
<1>2. PICK q \in Int : v = 0 + c * q
  BY DEF Holds, Same
<1>3. PICK j \in Int : v = uw + n * j
  BY DEF Holds, Same
<1>4. v <= uw + (c - 1) * n
  BY DEF Holds
<1> DEFINE d == q + lw
<1>5. s = c * d /\ d \in Int /\ s \in Nat /\ s = v + c * lw
  <2> HIDE DEF lw
  <2>1. c * (q + lw) = c * q + lw * c /\ lw * c = c * lw
    BY <1>1, Z3
  <2>2. s = v + lw * c /\ lw * c \in Nat
    BY <1>1, Z3 DEF lw
  <2> QED
    BY <1>1, <1>2, <2>1, <2>2
<1>6. s \div c = d
  <2>1. s = c * d + 0 /\ 0 \in 0..(c - 1) /\ s \in Int
    BY <1>5
  <2> HIDE DEF d
  <2> QED
    BY <1>5, <2>1, DivModIs
<1>7. m = ((d % b) * n0) % b
  BY <1>6
<1> HIDE DEF n, n0, b, lw, uw
<1>8. m \in 0..(b - 1) /\ Same(d + m * n, 0, b)
  <2>1. n \in Int
    BY <1>1
  <2>2. d \in Int
    BY <1>5
  <2> HIDE DEF d
  <2> QED
    BY <1>1, <1>7, <2>1, <2>2, RoundClears, Zenon
<1>9. PICK k \in Int : d + m * n = 0 + b * k
  BY <1>8 DEF Same
<1> HIDE DEF d
<1>10. m \in Nat /\ m <= b - 1
  BY <1>1, <1>8
<1> DEFINE mn == m * n
           r == s + mn * c
<1>11. mn \in Nat /\ r \in Nat
  <2>1. mn \in Nat
    BY <1>1, <1>10, Z3
  <2> HIDE DEF mn
  <2>2. mn * c \in Nat
    BY <2>1, Z3
  <2> QED
    BY <1>5, <2>1, <2>2
<1>12. r = 0 + (b * c) * k
  <2>1. r = c * (d + mn)
    <3> HIDE DEF mn
    <3>1. c * (d + mn) = c * d + mn * c
      BY <1>5, <1>11, Z3
    <3> QED
      BY <1>5, <3>1
  <2>2. c * (b * k) = (b * c) * k
    BY <1>1, Z3
  <2>3. d + mn = b * k
    BY <1>1, <1>9
  <2> QED
    BY <1>1, <2>1, <2>2, <2>3
<1> DEFINE lc == l * c
           ul == u + lc
           a == ul * w
<1>13. a = uw + c * lw
  <2>1. (u + l * c) * w = u * w + c * (l * w)
    BY <1>1, Z3
  <2> QED
    BY <2>1 DEF uw, lw
<1>14. r = a + n * (j + m * c) /\ j + m * c \in Int
  <2>1. n * (j + m * c) = n * j + mn * c
    BY <1>1, <1>10, Z3
  <2>2. j + m * c \in Int
    BY <1>10
  <2> HIDE DEF mn, a
  <2>3. c * lw \in Int /\ n * j \in Int /\ mn * c \in Int /\ uw \in Int
    BY <1>1, <1>11
  <2>4. r = (v + c * lw) + mn * c /\ v = uw + n * j /\ a = uw + c * lw
    BY <1>3, <1>5, <1>13
  <2> QED
    BY <2>1, <2>2, <2>3, <2>4
<1>15. r <= a + (b * c - 1) * n
  <2>1. mn * c <= (b - 1) * n * c
    <3>1. m * (n * c) <= (b - 1) * (n * c)
      <4> DEFINE nc == n * c
      <4>1. nc \in Nat
        BY <1>1
      <4> HIDE DEF nc
      <4>2. m * nc <= (b - 1) * nc
        BY <1>1, <1>10, <4>1, Z3
      <4> QED
        BY <4>2 DEF nc
    <3>2. m * (n * c) = mn * c /\ (b - 1) * (n * c) = (b - 1) * n * c
      BY <1>1, <1>10, Z3
    <3> QED
      BY <3>1, <3>2
  <2>2. (b - 1) * n * c + (c - 1) * n = (b * c - 1) * n
    BY <1>1, Z3
  <2> HIDE DEF mn, a
  <2>3. /\ c * lw \in Int /\ mn * c \in Int /\ uw \in Int /\ (b - 1) * n * c \in Int
        /\ (c - 1) * n \in Int
    BY <1>1, <1>11
  <2>4. r = (v + c * lw) + mn * c /\ a = uw + c * lw
    BY <1>5, <1>13
  <2> QED
    BY <1>4, <2>1, <2>2, <2>3, <2>4
<1>16. Same(r, 0, b * c) /\ Same(r, a, n)
  BY <1>12, <1>14, Zenon DEF Same
<1> QED
  BY <1>10, <1>11, <1>15, <1>16 DEF Holds, r, mn, a, ul, lc, n, b

(* Holds is what the model says of the accumulator.                        *)
LEMMA AccumulatorHolds ==
  ASSUME eng \in Engines, NEW k \in 0..L, NEW v \in Nat, NEW w \in Nat, NEW z \in Nat
  PROVE  /\ v % Weight[k] \in Nat /\ v % Weight[k] < Weight[k]
         /\ Holds(z, Weight[k], v % Weight[k], w)
              <=> /\ z % Weight[k] = 0
                  /\ (z - (v % Weight[k]) * w) % N = 0
                  /\ z <= (v % Weight[k]) * w + (Weight[k] - 1) * N
<1> DEFINE c == Weight[k]
           u == v % c
           uw == u * w
           n == N
           d == z - uw
<1>1. c \in Nat /\ c > 0 /\ n \in Nat /\ n > 0
  BY WeightFacts, EngineFacts
<1>2. u \in Nat /\ u < c
  <2>1. u \in 0..(c - 1)
    BY <1>1, DivMod
  <2> HIDE DEF u
  <2> QED
    BY <1>1, <2>1
<1> HIDE DEF u
<1>3. uw \in Int /\ d \in Int
  BY <1>1, <1>2
<1>4. z % c = 0 <=> Same(z, 0, c)
  BY <1>1, SameAsZero
<1>5. Same(z, uw, n) <=> Same(d, 0, n)
  <2>1. z \in Int
    OBVIOUS
  <2> HIDE DEF uw, n
  <2> QED
    BY <1>1, <1>3, <2>1, SameDifference, Zenon
<1>6. d % n = 0 <=> Same(d, 0, n)
  <2> HIDE DEF d
  <2> QED
    BY <1>1, <1>3, SameAsZero
<1>7. Holds(z, c, u, w) <=> Same(z, 0, c) /\ Same(z, uw, n) /\ z <= uw + (c - 1) * n
  BY Zenon DEF Holds
<1>8. Holds(z, c, u, w) <=> z % c = 0 /\ d % n = 0 /\ z <= uw + (c - 1) * n
  BY <1>4, <1>5, <1>6, <1>7, Zenon
<1> QED
  BY <1>2, <1>8, Zenon DEF c, u, uw, n, d

(* The accumulator fits the array of limbs.                                *)
LEMMA HoldsFits ==
  ASSUME eng \in Engines, NEW c \in Nat, c > 0, c <= R, NEW u \in 0..(c - 1),
         NEW w \in 0..(N - 1), NEW v \in Nat, Holds(v, c, u, w)
  PROVE  v < Weight[2 * L + 1]
<1> DEFINE n == N
           r == R
           b == B
<1>1. n \in Nat /\ n < r /\ r \in Nat /\ b \in Nat /\ b > 1 /\ n > 0 /\ c <= r
      /\ w \in 0..(n - 1)
  BY EngineFacts, WeightFacts
<1>2. v <= u * w + (c - 1) * n
  BY DEF Holds
<1>3. Weight[2 * L + 1] = b * (r * r)
  BY WeightFacts
<1> HIDE DEF n, r, b
<1>4. u * w <= (c - 1) * n
  <2>1. u * w <= (c - 1) * w
    <3>1. u \in Nat /\ u <= c - 1 /\ w \in Nat /\ c - 1 \in Nat
      BY <1>1
    <3> QED
      BY <3>1, Z3
  <2>2. (c - 1) * w <= (c - 1) * n
    <3>1. c - 1 \in Nat /\ w \in Nat /\ w <= n
      BY <1>1
    <3> QED
      BY <1>1, <3>1, Z3
  <2> QED
    BY <1>1, <2>1, <2>2
<1>5. (c - 1) * n < r * r
  <2>1. (c - 1) * n <= (r - 1) * n
    BY <1>1, Z3
  <2>2. (r - 1) * n <= (r - 1) * r
    BY <1>1, Z3
  <2>3. (r - 1) * r = r * r - r
    BY <1>1, Z3
  <2> QED
    BY <1>1, <2>1, <2>2, <2>3
<1> DEFINE rr == r * r
           cn == (c - 1) * n
           uw == u * w
<1>6. rr \in Nat /\ cn \in Nat /\ uw \in Nat /\ uw <= cn /\ cn < rr /\ v <= uw + cn
  BY <1>1, <1>2, <1>4, <1>5
<1> HIDE DEF rr, cn, uw
<1>7. b * rr >= 2 * rr
  BY <1>1, <1>6, Z3
<1>8. b * rr \in Nat
  BY <1>1, <1>6
<1> QED
  BY <1>3, <1>6, <1>7, <1>8 DEF rr

(* An empty accumulator.                                                   *)
LEMMA EmptyHolds ==
  ASSUME eng \in Engines, NEW u \in Nat, NEW w \in Nat
  PROVE  u % Weight[0] = 0 /\ Holds(0, Weight[0], u % Weight[0], w)
<1>1. Weight[0] = 1 /\ N \in Nat
  BY WeightFacts, EngineFacts
<1>2. u % 1 = 0
  <2>1. u = 1 * u + 0 /\ 0 \in 0..(1 - 1) /\ u \in Int
    OBVIOUS
  <2> QED
    BY <2>1, DivModIs
<1>3. Same(0, 0, 1) /\ Same(0, 0, N)
  BY <1>1, SameIsEquivalence
<1>4. 0 * w = 0 /\ (1 - 1) * N = 0
  BY <1>1
<1> QED
  BY <1>1, <1>2, <1>3, <1>4 DEF Holds

(* The high limbs after the last round, when they are not above N.         *)
LEMMA ProductHolds ==
  ASSUME eng \in Engines, NEW u \in 0..(N - 1), NEW w \in 0..(N - 1), NEW v \in Nat,
         Holds(v, R, u, w), ~Above(v \div R, N),
         NEW p, p = (v \div R) % R
  PROVE  p \in 0..(N - 1) /\ Same(R * p, u * w, N)
<1> DEFINE n == N
           r == R
           uw == u * w
           h == v \div r
<1>1. n \in Nat /\ n > 1 /\ n < r /\ r \in Nat /\ r > 0
  BY EngineFacts, WeightFacts
<1>2. u \in Nat /\ w \in Nat /\ uw \in Nat
  BY <1>1
<1>3. PICK q \in Int : v = 0 + r * q
  BY DEF Holds, Same
<1>4. Same(v, uw, n) /\ v <= uw + (r - 1) * n
  BY DEF Holds
<1>5. h = q
  <2>1. v = r * q + 0 /\ 0 \in 0..(r - 1) /\ v \in Int
    BY <1>1, <1>3
  <2> QED
    BY <1>1, <2>1, DivModIs
<1>6. ~(h > n) /\ p = h % r
  BY DEF Above
<1> HIDE DEF h, r
<1>7. h \in Nat /\ h <= n /\ v = r * h
  <2>1. q \in Nat
    <3>1. q < 0 => r * q < 0
      BY <1>1, Z3
    <3> QED
      BY <1>1, <1>3, <3>1
  <2> QED
    BY <1>1, <1>3, <1>5, <1>6, <2>1
<1>8. h # n
  <2> SUFFICES ASSUME h = n PROVE FALSE
    OBVIOUS
  <2>1. Same(v, 0, n)
    <3>1. v = 0 + n * r
      BY <1>1, <1>7, Z3
    <3> HIDE DEF n
    <3> QED
      BY <1>1, <3>1 DEF Same
  <2> HIDE DEF uw
  <2>2. Same(uw, 0, n)
    BY <1>1, <1>2, <1>4, <2>1, SameIsEquivalence
  <2>3. uw % n = 0
    <3>1. uw \in Int /\ n > 0
      BY <1>1, <1>2
    <3> QED
      BY <1>1, <2>2, <3>1, SameAsZero
  <2>4. u = 0 \/ w = 0
    BY <2>3, EngineFacts DEF uw
  <2>5. uw = 0
    BY <1>2, <2>4 DEF uw
  <2>6. r * n = (r - 1) * n + n
    BY <1>1, Z3
  <2> QED
    BY <1>1, <1>4, <1>7, <2>5, <2>6
<1>9. h \in 0..(n - 1) /\ h \in 0..(r - 1)
  BY <1>1, <1>7, <1>8
<1>10. p = h
  BY <1>1, <1>6, <1>9, ResidueIsIdempotent
<1> QED
  BY <1>4, <1>7, <1>9, <1>10 DEF r

-----------------------------------------------------------------------------
(* What each product of the chain is.                                      *)

(* A word times the square of R: its Montgomery form.                      *)
LEMMA FormIs ==
  ASSUME eng \in Engines, NEW a \in Nat, NEW u, u = a % N, NEW p \in 0..(N - 1),
         Same(R * p, u * eng.r2, N)
  PROVE  p = (a * R) % N
<1> DEFINE n == N
           r == R
           s == eng.r2
           rr == r * r
           ar == a * r
<1>1. /\ n \in Nat /\ n > 0 /\ r \in Nat /\ s \in Int /\ s = rr % n /\ rr \in Int
      /\ ar \in Int /\ a \in Int /\ p \in Int
  BY EngineFacts, WeightFacts
<1>2. u \in Int /\ Same(u, a, n)
  BY <1>1, SameAsResidue
<1>3. Same(s, rr, n)
  <2> HIDE DEF rr
  <2> QED
    BY <1>1, SameAsResidue
<1>4. Same(u * s, a * rr, n)
  <2> HIDE DEF rr, s
  <2> QED
    BY <1>1, <1>2, <1>3, SameProduct
<1>5. a * rr = r * ar
  BY <1>1, Z3
<1>6. Same(r * p, u * s, n)
  OBVIOUS
<1>7. Same(r * p, r * ar, n)
  <2>1. r * p \in Int /\ u * s \in Int /\ r * ar \in Int
    BY <1>1, <1>2
  <2> HIDE DEF n, r, s, rr, ar
  <2> QED
    BY <1>1, <1>4, <1>5, <1>6, <2>1, SameIsEquivalence
<1>8. Same(R * p, R * ar, N)
  BY <1>7
<1> HIDE DEF ar
<1>9. p = ar % N
  BY <1>1, <1>8, ResultIs
<1> QED
  BY <1>9 DEF ar

(* Two Montgomery forms: the Montgomery form of the product.               *)
LEMMA FormOfProductIs ==
  ASSUME eng \in Engines, NEW a \in Nat, NEW b \in Nat,
         NEW u, u = (a * R) % N, NEW v, v = (b * R) % N, NEW p \in 0..(N - 1),
         Same(R * p, u * v, N)
  PROVE  p = (a * b * R) % N
<1> DEFINE n == N
           r == R
           ar == a * r
           br == b * r
           abr == a * b * r
<1>1. /\ n \in Nat /\ n > 0 /\ r \in Nat /\ ar \in Int /\ br \in Int /\ abr \in Int
      /\ p \in Int
  BY EngineFacts, WeightFacts
<1>2. u \in Int /\ Same(u, ar, n)
  <2>1. u = ar % n
    OBVIOUS
  <2> HIDE DEF ar
  <2> QED
    BY <1>1, <2>1, SameAsResidue
<1>3. v \in Int /\ Same(v, br, n)
  <2>1. v = br % n
    OBVIOUS
  <2> HIDE DEF br
  <2> QED
    BY <1>1, <2>1, SameAsResidue
<1>4. ar * br = r * abr
  BY <1>1, Z3
<1>5. Same(r * p, u * v, n)
  OBVIOUS
<1>6. Same(r * p, r * abr, n)
  <2>1. r * p \in Int /\ u * v \in Int /\ r * abr \in Int /\ ar * br \in Int
    BY <1>1, <1>2, <1>3
  <2> HIDE DEF n, r, ar, br, abr
  <2>2. Same(u * v, ar * br, n)
    BY <1>1, <1>2, <1>3, SameProduct
  <2> QED
    BY <1>1, <1>4, <1>5, <2>1, <2>2, SameIsEquivalence
<1>7. Same(R * p, R * abr, N)
  BY <1>6
<1> HIDE DEF abr
<1>8. p = abr % N
  BY <1>1, <1>7, ResultIs
<1> QED
  BY <1>8 DEF abr

(* A Montgomery form times one: the number it stands for.                  *)
LEMMA NumberIs ==
  ASSUME eng \in Engines, NEW w \in Nat, NEW u, u = (w * R) % N, NEW p \in 0..(N - 1),
         Same(R * p, u * 1, N)
  PROVE  p = w % N
<1> DEFINE n == N
           r == R
           wr == w * r
<1>1. n \in Nat /\ n > 0 /\ r \in Nat /\ wr \in Int /\ p \in Int /\ w \in Int
  BY EngineFacts, WeightFacts
<1>2. u \in Int /\ Same(u, wr, n)
  <2>1. u = wr % n
    OBVIOUS
  <2> HIDE DEF wr
  <2> QED
    BY <1>1, <2>1, SameAsResidue
<1>3. u * 1 = u /\ wr = r * w
  BY <1>1, <1>2, Z3
<1>4. Same(r * p, u, n)
  BY <1>3
<1>5. Same(r * p, r * w, n)
  <2>1. r * p \in Int /\ r * w \in Int
    BY <1>1
  <2> HIDE DEF n, r, wr
  <2> QED
    BY <1>1, <1>2, <1>3, <1>4, <2>1, SameIsEquivalence
<1> QED
  BY <1>1, <1>5, ResultIs

(* A word times one: the number whose Montgomery form the word is.         *)
LEMMA WordIs ==
  ASSUME eng \in Engines, NEW a \in Nat, NEW u, u = a % N, NEW p \in 0..(N - 1),
         Same(R * p, u * 1, N)
  PROVE  (p * R) % N = a % N
<1> DEFINE n == N
           r == R
           pr == p * r
<1>1. n \in Nat /\ n > 0 /\ r \in Nat /\ pr \in Int /\ p \in Int /\ a \in Int
  BY EngineFacts, WeightFacts
<1>2. u \in Int /\ Same(u, a, n)
  BY <1>1, SameAsResidue
<1>3. u * 1 = u /\ r * p = pr
  BY <1>1, <1>2, Z3
<1>4. Same(pr, u, n)
  BY <1>3
<1> HIDE DEF pr
<1>5. Same(pr, a, n)
  <2> HIDE DEF n
  <2> QED
    BY <1>1, <1>2, <1>4, SameIsEquivalence
<1>6. pr % n = a % n
  BY <1>1, <1>5, SameIsResidue
<1> QED
  BY <1>6 DEF pr

-----------------------------------------------------------------------------
(* The steps.                                                              *)

(* What every product starts from.                                         *)
LEMMA MultiplyStarts ==
  ASSUME eng \in Engines, eng' = eng,
         NEW s, NEW v \in 0..(N - 1), NEW w \in 0..(N - 1), Multiply(s, v, w)
  PROVE  /\ x' \in Words /\ y' \in Words /\ i' \in 0..L /\ t' \in Nat
         /\ OperandsAreReduced' /\ AccumulatorIsExact' /\ CarriesFit'
<1>1. N \in Nat /\ N < R /\ R \in Nat /\ L \in Nat /\ N' = N
  BY EngineFacts, WeightFacts DEF N
<1>2. x' = v /\ y' = w /\ i' = 0 /\ t' = 0
  BY DEF Multiply
<1>3. v \in Nat /\ w \in Nat /\ v < N /\ w < N /\ v \in Words /\ w \in Words
  BY <1>1 DEF Words
<1>4. 0 \in 0..L /\ 0 \in Nat
  BY <1>1
<1>5. OperandsAreReduced'
  BY <1>1, <1>2, <1>3 DEF OperandsAreReduced
<1>6. AccumulatorIsExact'
  <2>1. Holds(0, Weight[0], v % Weight[0], w)
    BY <1>3, EmptyHolds
  <2>2. /\ 0 % Weight[0] = 0
        /\ (0 - (v % Weight[0]) * w) % N = 0
        /\ 0 <= (v % Weight[0]) * w + (Weight[0] - 1) * N
    BY <1>3, <1>4, <2>1, AccumulatorHolds
  <2> QED
    BY <1>1, <1>2, <2>2, Zenon DEF AccumulatorIsExact
<1>7. CarriesFit'
  <2>1. 2 * L + 1 \in 0..(2 * L + 1)
    BY <1>1
  <2>2. Weight[2 * L + 1] \in Nat /\ Weight[2 * L + 1] > 0
    BY <2>1, WeightAssumption
  <2> QED
    BY <1>2, <2>2 DEF CarriesFit
<1> QED
  BY <1>2, <1>3, <1>4, <1>5, <1>6, <1>7

(* The invariant holds at first.                                            *)
LEMMA InitInv == MontInit => MontInv
<1> SUFFICES ASSUME MontInit PROVE MontInv
  OBVIOUS
<1>1. L \in Nat /\ R \in Nat /\ R > 0 /\ 0 \in Words
  BY WeightFacts DEF Words
<1>2. MontTypeOK
  BY <1>1 DEF MontInit, MontTypeOK, Stages, NoWords, Calls
<1>3. OperandsAreReduced /\ AccumulatorIsExact
  BY DEF MontInit, OperandsAreReduced, AccumulatorIsExact
<1>4. CarriesFit
  <2>1. 2 * L + 1 \in 0..(2 * L + 1)
    BY <1>1
  <2>2. Weight[2 * L + 1] \in Nat /\ Weight[2 * L + 1] > 0
    BY <2>1, WeightAssumption
  <2> QED
    BY <2>2 DEF CarriesFit, MontInit
<1>5. ChainIsExact /\ MulModIsExact
  BY DEF MontInit, ChainIsExact, MulModIsExact
<1> QED
  BY <1>2, <1>3, <1>4, <1>5 DEF MontInv

(* A reduced operand.                                                       *)
LEMMA Reduced ==
  ASSUME eng \in Engines, NEW a \in Words
  PROVE  a \in Nat /\ a % N \in 0..(N - 1)
<1>1. N \in Nat /\ N > 0 /\ a \in Nat /\ a \in Int
  BY EngineFacts, WeightFacts DEF Words
<1> QED
  BY <1>1, DivMod

(* A call keeps the invariant.                                              *)
LEMMA BeginInv ==
  ASSUME MontInv, NEW op \in Calls, NEW a \in Words, NEW b \in Words, Begin(op, a, b)
  PROVE  MontInv'
<1>1. MontTypeOK /\ eng \in Engines /\ eng' = eng /\ ma' = ma /\ mb' = mb
  BY DEF MontInv, MontTypeOK, Begin
<1>2. call' = [op |-> op, a |-> a, b |-> b]
  BY DEF Begin
<1>3. /\ a % N \in 0..(N - 1) /\ eng.r2 \in 0..(N - 1) /\ 1 \in 0..(N - 1) /\ N' = N
  <2>1. N \in Nat /\ N > 1 /\ R * R \in Int /\ eng.r2 = (R * R) % N
    BY <1>1, EngineFacts, WeightFacts
  <2>2. (R * R) % N \in 0..(N - 1)
    BY <2>1, DivMod
  <2> QED
    BY <1>1, <2>1, <2>2, Reduced DEF N
<1>4. \/ op = "from_montgomery" /\ Multiply("from", a % N, 1)
      \/ op # "from_montgomery" /\ Multiply("to_a", a % N, eng.r2)
  BY DEF Begin
<1>5. /\ x' \in Words /\ y' \in Words /\ i' \in 0..L /\ t' \in Nat
      /\ OperandsAreReduced' /\ AccumulatorIsExact' /\ CarriesFit'
  <2>1. CASE Multiply("from", a % N, 1)
    BY <1>1, <1>3, <2>1, MultiplyStarts, Zenon
  <2>2. CASE Multiply("to_a", a % N, eng.r2)
    BY <1>1, <1>3, <2>2, MultiplyStarts, Zenon
  <2> QED
    BY <1>4, <2>1, <2>2
<1>6. \/ op = "from_montgomery" /\ stage' = "from" /\ x' = a % N /\ y' = 1
      \/ op \in {"mul_mod", "to_montgomery"} /\ stage' = "to_a" /\ x' = a % N /\ y' = eng.r2
  BY <1>4 DEF Multiply, Calls
<1>7. call'.op = op /\ call'.a = a
  BY <1>2
<1>8. MontTypeOK'
  <2>1. stage' \in {"from", "to_a"}
    BY <1>6
  <2> QED
    BY <1>1, <1>2, <1>5, <1>6, <1>7, <2>1 DEF MontTypeOK, Stages, Calls
<1>9. ChainIsExact' /\ MulModIsExact'
  <2>1. stage' = "from" => x' = (IF op = "mul_mod" THEN a * call'.b * R ELSE a) % N /\ y' = 1
    <3> DEFINE an == a % N
    <3>1. stage' = "from" => op = "from_montgomery" /\ x' = an /\ y' = 1
      BY <1>6
    <3> QED
      BY <3>1, Zenon
  <2>2. stage' = "to_a" => x' = a % N /\ y' = eng.r2
    BY <1>6
  <2>3. stage' \notin {"to_b", "product", "done"}
    BY <1>6
  <2>4. stage' \in {"to_a", "to_b"} => y' = eng.r2
    BY <2>2, <2>3
  <2>5. ChainIsExact'
    BY <1>1, <1>3, <1>7, <2>1, <2>2, <2>3, <2>4, Zenon DEF ChainIsExact
  <2> QED
    BY <2>3, <2>5 DEF MulModIsExact
<1> QED
  BY <1>5, <1>8, <1>9 DEF MontInv

(* What the invariant says while a product is computed.                    *)
LEMMA BusyFacts ==
  ASSUME MontInv, stage \notin {"idle", "done"}
  PROVE  /\ eng \in Engines /\ i \in 0..L /\ t \in Nat
         /\ x \in 0..(N - 1) /\ y \in 0..(N - 1) /\ x \in Nat /\ y \in Nat
         /\ Weight[i] \in Nat /\ Weight[i] > 0 /\ Weight[i] <= R
         /\ x % Weight[i] \in Nat
         /\ Holds(t, Weight[i], x % Weight[i], y)
<1>1. /\ eng \in Engines /\ i \in 0..L /\ t \in Nat /\ x \in Words /\ y \in Words
      /\ x < N /\ y < N /\ N \in Nat
  BY EngineFacts DEF MontInv, MontTypeOK, OperandsAreReduced
<1>2. x \in Nat /\ y \in Nat /\ x \in 0..(N - 1) /\ y \in 0..(N - 1)
  BY <1>1, WeightFacts DEF Words
<1>3. Weight[i] \in Nat /\ Weight[i] > 0 /\ Weight[i] <= R
  BY <1>1, WeightFacts, WeightsAreOrdered
<1>4. /\ t % Weight[i] = 0 /\ (t - (x % Weight[i]) * y) % N = 0
      /\ t <= (x % Weight[i]) * y + (Weight[i] - 1) * N
  BY Zenon DEF MontInv, AccumulatorIsExact
<1>5. x % Weight[i] \in Nat /\ Holds(t, Weight[i], x % Weight[i], y)
  BY <1>1, <1>2, <1>4, AccumulatorHolds
<1> QED
  BY <1>1, <1>2, <1>3, <1>5

(* A round keeps it.                                                        *)
LEMMA RoundInv ==
  ASSUME MontInv, Round
  PROVE  MontInv'
<1>1. /\ stage \notin {"idle", "done"} /\ i < L
      /\ t' = Sum + Multiple(Sum) * N * Weight[i] /\ i' = i + 1
      /\ eng' = eng /\ call' = call /\ stage' = stage /\ x' = x /\ y' = y
      /\ ma' = ma /\ mb' = mb
  BY DEF Round
<1> DEFINE c == Weight[i]
           u == x % c
           l == Limb(x, i)
           m == Multiple(Sum)
           bc == Weight[i + 1]
           ul == x % bc
<1>2. /\ eng \in Engines /\ i \in 0..(L - 1) /\ i + 1 \in 0..L /\ t \in Nat
      /\ x \in Nat /\ y \in Nat /\ y \in 0..(N - 1) /\ N' = N
      /\ c \in Nat /\ c > 0 /\ u \in Nat /\ Holds(t, c, u, y)
  <2>1. i + 1 \in 0..L /\ i \in 0..(L - 1)
    BY <1>1, BusyFacts, WeightFacts
  <2> QED
    BY <1>1, <2>1, BusyFacts DEF N
<1>3. bc = B * c /\ B \in Nat /\ B > 0 /\ bc \in Nat /\ bc > 0 /\ bc <= R
  BY <1>2, WeightFacts, WeightsAreOrdered
<1>4. l \in 0..(B - 1) /\ ul = u + l * c
  <2>1. /\ (x \div c) % B \in 0..(B - 1)
        /\ x % (B * c) = (x % c) + ((x \div c) % B) * c
    BY <1>2, <1>3, LimbSplit
  <2> QED
    BY <1>3, <2>1, Zenon DEF Limb
<1>5. Sum = t + l * y * c /\ m = (((Sum \div c) % B) * eng.n0inv) % B
  BY Zenon DEF Sum, Multiple, Limb
<1>6. t' = Sum + m * N * c
  BY <1>1
<1> HIDE DEF c, u, l, m, bc, ul
<1>7. t' \in Nat /\ Holds(t', B * c, u + l * c, y)
  <2>1. Sum + m * N * c \in Nat /\ Holds(Sum + m * N * c, B * c, u + l * c, y)
    BY <1>2, <1>4, <1>5, RoundHolds
  <2> QED
    BY <1>6, <2>1
<1>8. Holds(t', bc, ul, y)
  BY <1>3, <1>4, <1>7
<1>9. ul \in 0..(bc - 1) /\ /\ t' % bc = 0 /\ (t' - ul * y) % N = 0
                           /\ t' <= ul * y + (bc - 1) * N
  <2>1. ul \in Nat /\ ul < bc
    BY <1>2, AccumulatorHolds DEF ul, bc
  <2>2. /\ t' % bc = 0 /\ (t' - ul * y) % N = 0
        /\ t' <= ul * y + (bc - 1) * N
    BY <1>2, <1>7, <1>8, AccumulatorHolds DEF ul, bc
  <2> QED
    BY <1>3, <2>1, <2>2
<1>10. MontTypeOK'
  BY <1>1, <1>2, <1>7 DEF MontInv, MontTypeOK
<1>11. OperandsAreReduced' /\ ChainIsExact' /\ MulModIsExact'
  BY <1>1, <1>2, Zenon DEF MontInv, OperandsAreReduced, ChainIsExact, MulModIsExact, N
<1>12. AccumulatorIsExact'
  BY <1>1, <1>2, <1>9, Zenon DEF AccumulatorIsExact, ul, bc
<1>13. CarriesFit'
  BY <1>2, <1>3, <1>7, <1>8, <1>9, HoldsFits DEF CarriesFit
<1> QED
  BY <1>10, <1>11, <1>12, <1>13 DEF MontInv

(* The last subtraction keeps it.                                           *)
LEMMA SubtractModulusInv ==
  ASSUME MontInv, SubtractModulus
  PROVE  MontInv'
<1>1. /\ stage \notin {"idle", "done"} /\ i = L /\ t' = t - N * R
      /\ eng' = eng /\ call' = call /\ stage' = stage /\ x' = x /\ y' = y /\ i' = i
      /\ ma' = ma /\ mb' = mb
  BY DEF SubtractModulus
<1>2. t \div R > N
  BY DEF SubtractModulus, Above, High
<1> DEFINE c == Weight[i]
           u == x % c
           uy == u * y
           n == N
           h == t \div c
           r == t % c
<1>3. /\ eng \in Engines /\ i \in 0..L /\ t \in Nat /\ x \in Nat /\ y \in Nat
      /\ y \in 0..(n - 1) /\ c \in Nat /\ c > 0 /\ u \in Nat
      /\ Holds(t, c, u, y) /\ c = R /\ c <= R /\ n \in Nat /\ N' = N
  BY <1>1, BusyFacts, EngineFacts, WeightFacts DEF N
<1>4. /\ t = c * h + r /\ h \in Int /\ r \in Nat
  <2>1. t \in Int
    BY <1>3
  <2>2. t = c * h + r /\ h \in Int /\ r \in 0..(c - 1)
    BY <1>3, <2>1, DivMod
  <2> HIDE DEF h, r
  <2> QED
    BY <1>3, <2>2
<1>5. h > n
  BY <1>2, <1>3
<1>6. PICK q \in Int : t = 0 + c * q
  BY <1>3 DEF Holds, Same
<1>7. PICK j \in Int : t = uy + n * j
  BY <1>3 DEF Holds, Same
<1>8. t <= uy + (c - 1) * n
  BY <1>3 DEF Holds
<1>9. uy \in Int /\ t' = t - n * c
  BY <1>1, <1>3
<1> HIDE DEF h, r, uy
<1>10. t' \in Nat /\ t' <= t
  <2>1. c * h >= c * n
    BY <1>3, <1>4, <1>5, Z3
  <2>2. c * n = n * c /\ n * c \in Nat /\ c * h \in Int
    BY <1>3, <1>4, Z3
  <2> HIDE DEF c, n
  <2> QED
    BY <1>3, <1>4, <1>9, <2>1, <2>2
<1>11. t' = 0 + c * (q - n) /\ q - n \in Int
  <2>1. c * (q - n) = c * q - n * c
    BY <1>3, <1>6, Z3
  <2> QED
    BY <1>3, <1>6, <1>9, <2>1
<1>12. t' = uy + n * (j - c) /\ j - c \in Int
  <2>1. n * (j - c) = n * j - n * c
    BY <1>3, <1>7, Z3
  <2> QED
    BY <1>3, <1>7, <1>9, <2>1
<1>13. t' <= uy + (c - 1) * n
  <2>1. (c - 1) * n \in Int
    BY <1>3
  <2> QED
    BY <1>3, <1>8, <1>9, <1>10, <2>1
<1>14. Holds(t', c, u, y)
  BY <1>11, <1>12, <1>13 DEF Holds, Same, uy
<1> HIDE DEF c, u, n
<1>15. u \in 0..(c - 1) /\ /\ t' % c = 0 /\ (t' - u * y) % N = 0
                         /\ t' <= u * y + (c - 1) * N
  <2>1. u \in Nat /\ u < c
    BY <1>3, AccumulatorHolds DEF u, c
  <2>2. /\ t' % c = 0 /\ (t' - u * y) % N = 0
        /\ t' <= u * y + (c - 1) * N
    BY <1>3, <1>10, <1>14, AccumulatorHolds DEF u, c
  <2> QED
    BY <1>3, <2>1, <2>2
<1>16. MontTypeOK'
  BY <1>1, <1>10 DEF MontInv, MontTypeOK
<1>17. OperandsAreReduced' /\ ChainIsExact' /\ MulModIsExact'
  BY <1>1, <1>3, Zenon DEF MontInv, OperandsAreReduced, ChainIsExact, MulModIsExact, N
<1>18. AccumulatorIsExact'
  BY <1>1, <1>3, <1>15, Zenon DEF AccumulatorIsExact, u, c
<1>19. CarriesFit'
  BY <1>3, <1>10, <1>14, <1>15, HoldsFits DEF CarriesFit, n
<1> QED
  BY <1>16, <1>17, <1>18, <1>19 DEF MontInv

(* The product of a call is exact, and the next one starts from it.        *)
LEMMA FinishInv ==
  ASSUME MontInv, Finish
  PROVE  MontInv'
<1>1. /\ stage \notin {"idle", "done"} /\ i = L /\ ~Above(t \div R, N)
      /\ eng' = eng /\ call' = call
      /\ ma' = (IF stage = "to_b" THEN ma ELSE Product)
      /\ mb' = (IF stage = "to_b" THEN Product ELSE mb)
  BY DEF Finish, High
<1>2. /\ stage = "to_a" /\ call.op = "mul_mod" => Multiply("to_b", call.b % N, eng.r2)
      /\ stage = "to_b" => Multiply("product", ma, Product)
      /\ stage = "product" => Multiply("from", Product, 1)
      /\ ~(stage = "to_a" /\ call.op = "mul_mod") /\ stage \notin {"to_b", "product"}
           => Multiply("done", 0, 0)
  BY DEF Finish
<1> DEFINE p == Product
<1>3. /\ eng \in Engines /\ x \in 0..(N - 1) /\ y \in 0..(N - 1) /\ t \in Nat
      /\ N \in Nat /\ N > 1 /\ N < R /\ R \in Nat /\ N' = N /\ x \in Int
      /\ Weight[i] = R /\ Holds(t, R, x % R, y)
  BY <1>1, BusyFacts, EngineFacts, WeightFacts DEF N
<1>4. x % R = x
  <2>1. x \in 0..(R - 1) /\ R > 0
    BY <1>3
  <2> QED
    BY <1>3, <2>1, ResidueIsIdempotent
<1>5. p \in 0..(N - 1) /\ Same(R * p, x * y, N)
  <2>1. p = (t \div R) % R
    BY DEF Product, High
  <2> HIDE DEF p
  <2> QED
    BY <1>1, <1>3, <1>4, <2>1, ProductHolds
<1> HIDE DEF p
<1>6. /\ call \in [op : Calls, a : Words, b : Words]
      /\ call.op \in Calls /\ call.a \in Words /\ call.b \in Words
      /\ ma \in Words /\ mb \in Words
      /\ stage \in {"to_b", "product"} => call.op = "mul_mod"
      /\ stage = "to_a" => call.op \in {"mul_mod", "to_montgomery"}
      /\ stage = "from" => call.op \in {"mul_mod", "from_montgomery"}
      /\ stage \in {"to_a", "to_b", "product", "from"}
  <2>1. MontTypeOK /\ stage # "idle"
    BY <1>1 DEF MontInv
  <2>2. call # NoWords
    BY <2>1 DEF MontTypeOK, NoWords, Calls
  <2>3. call \in [op : Calls, a : Words, b : Words]
    BY <2>1, <2>2 DEF MontTypeOK
  <2> QED
    BY <1>1, <2>1, <2>3 DEF MontTypeOK, Stages
<1>7. /\ call.a \in Nat /\ call.b \in Nat /\ call.a * call.b \in Nat
      /\ p \in Words /\ ma' \in Words /\ mb' \in Words
      /\ call.b % N \in 0..(N - 1) /\ eng.r2 \in 0..(N - 1)
      /\ 1 \in 0..(N - 1) /\ 0 \in 0..(N - 1)
  <2>1. call.a \in Nat /\ call.b \in Nat /\ call.b % N \in 0..(N - 1)
    BY <1>3, <1>6, Reduced
  <2>2. p \in Words
    BY <1>3, <1>5 DEF Words
  <2>3. R * R \in Int /\ eng.r2 = (R * R) % N /\ N > 0
    BY <1>3, EngineFacts
  <2>4. (R * R) % N \in 0..(N - 1)
    BY <1>3, <2>3, DivMod
  <2>5. ma' \in Words /\ mb' \in Words
    BY <1>1, <1>6, <2>2 DEF p
  <2>6. call.a * call.b \in Nat /\ 1 \in 0..(N - 1) /\ 0 \in 0..(N - 1)
    BY <1>3, <2>1
  <2> QED
    BY <2>1, <2>2, <2>3, <2>4, <2>5, <2>6
<1>8. /\ stage \in {"to_b", "product"} => ma = (call.a * R) % N
      /\ stage = "product" => mb = (call.b * R) % N /\ x = ma /\ y = mb
      /\ stage = "from" /\ call.op = "mul_mod" => x = (call.a * call.b * R) % N
      /\ stage = "from" /\ call.op = "from_montgomery" => x = call.a % N
      /\ stage = "to_a" => x = call.a % N
      /\ stage = "to_b" => x = call.b % N
      /\ stage \in {"to_a", "to_b"} => y = eng.r2
      /\ stage = "from" => y = 1
  <2>1. ChainIsExact
    BY DEF MontInv
  <2>2. "from_montgomery" # "mul_mod"
    OBVIOUS
  <2> QED
    BY <2>1, <2>2, Zenon DEF ChainIsExact
<1>9. CASE stage = "to_a" /\ call.op = "mul_mod"
  <2>1. Multiply("to_b", call.b % N, eng.r2) /\ ma' = p
    BY <1>1, <1>2, <1>9 DEF p
  <2>2. p = (call.a * R) % N
    BY <1>3, <1>5, <1>7, <1>8, <1>9, FormIs
  <2>3. /\ x' \in Words /\ y' \in Words /\ i' \in 0..L /\ t' \in Nat
        /\ OperandsAreReduced' /\ AccumulatorIsExact' /\ CarriesFit'
    BY <1>1, <1>3, <1>7, <2>1, MultiplyStarts, Zenon
  <2>4. stage' = "to_b" /\ x' = call.b % N /\ y' = eng.r2
    BY <2>1 DEF Multiply
  <2>5. MontTypeOK'
    BY <1>1, <1>3, <1>6, <1>7, <1>9, <2>3, <2>4 DEF MontTypeOK, Stages
  <2>6. ChainIsExact' /\ MulModIsExact'
    BY <1>1, <1>3, <2>1, <2>2, <2>4, Zenon DEF ChainIsExact, MulModIsExact, N
  <2> QED
    BY <2>3, <2>5, <2>6 DEF MontInv
<1>10. CASE stage = "to_a" /\ call.op = "to_montgomery"
  <2>1. Multiply("done", 0, 0) /\ ma' = p
    BY <1>1, <1>2, <1>10 DEF p
  <2>2. p = (call.a * R) % N
    BY <1>3, <1>5, <1>7, <1>8, <1>10, FormIs
  <2>3. /\ x' \in Words /\ y' \in Words /\ i' \in 0..L /\ t' \in Nat
        /\ OperandsAreReduced' /\ AccumulatorIsExact' /\ CarriesFit'
    BY <1>1, <1>3, <1>7, <2>1, MultiplyStarts, Zenon
  <2>4. stage' = "done"
    BY <2>1 DEF Multiply
  <2>5. MontTypeOK'
    BY <1>1, <1>3, <1>6, <1>7, <1>10, <2>3, <2>4 DEF MontTypeOK, Stages
  <2>6. call'.op = "to_montgomery" /\ ma' = (call'.a * R) % N'
    BY <1>1, <1>3, <1>10, <2>1, <2>2, Zenon
  <2>7. ChainIsExact' /\ MulModIsExact'
    BY <2>4, <2>6 DEF ChainIsExact, MulModIsExact
  <2> QED
    BY <2>3, <2>5, <2>7 DEF MontInv
<1>11. CASE stage = "to_b"
  <2>1. Multiply("product", ma, p) /\ ma' = ma /\ mb' = p
    BY <1>1, <1>2, <1>11 DEF p
  <2>2. p = (call.b * R) % N /\ ma = (call.a * R) % N
    BY <1>3, <1>5, <1>7, <1>8, <1>11, FormIs
  <2>3. ma \in 0..(N - 1)
    <3>1. call.a * R \in Int /\ N > 0
      BY <1>3, <1>7
    <3>2. (call.a * R) % N \in 0..(N - 1)
      BY <1>3, <3>1, DivMod
    <3> QED
      BY <2>2, <3>2
  <2>4. /\ x' \in Words /\ y' \in Words /\ i' \in 0..L /\ t' \in Nat
        /\ OperandsAreReduced' /\ AccumulatorIsExact' /\ CarriesFit'
    BY <1>1, <1>3, <1>5, <2>1, <2>3, MultiplyStarts, Zenon
  <2>5. stage' = "product" /\ x' = ma /\ y' = p
    BY <2>1 DEF Multiply
  <2>6. MontTypeOK'
    BY <1>1, <1>3, <1>6, <1>7, <1>11, <2>4, <2>5 DEF MontTypeOK, Stages
  <2>7. ChainIsExact' /\ MulModIsExact'
    BY <1>1, <1>3, <2>1, <2>2, <2>5, Zenon DEF ChainIsExact, MulModIsExact, N
  <2> QED
    BY <2>4, <2>6, <2>7 DEF MontInv
<1>12. CASE stage = "product"
  <2>1. Multiply("from", p, 1) /\ ma' = p
    BY <1>1, <1>2, <1>12 DEF p
  <2>2. p = (call.a * call.b * R) % N
    BY <1>3, <1>5, <1>7, <1>8, <1>12, FormOfProductIs
  <2>3. /\ x' \in Words /\ y' \in Words /\ i' \in 0..L /\ t' \in Nat
        /\ OperandsAreReduced' /\ AccumulatorIsExact' /\ CarriesFit'
    BY <1>1, <1>3, <1>5, <1>7, <2>1, MultiplyStarts, Zenon
  <2>4. stage' = "from" /\ x' = p /\ y' = 1 /\ call.op = "mul_mod"
    BY <1>6, <1>12, <2>1 DEF Multiply
  <2>5. MontTypeOK'
    BY <1>1, <1>3, <1>6, <1>7, <1>12, <2>3, <2>4 DEF MontTypeOK, Stages
  <2>6. ChainIsExact' /\ MulModIsExact'
    BY <1>1, <1>3, <2>2, <2>4, Zenon DEF ChainIsExact, MulModIsExact, N
  <2> QED
    BY <2>3, <2>5, <2>6 DEF MontInv
<1>13. CASE stage = "from"
  <2>1. Multiply("done", 0, 0) /\ ma' = p
    BY <1>1, <1>2, <1>13 DEF p
  <2>2. Same(R * p, x * 1, N)
    BY <1>5, <1>8, <1>13
  <2>3. call.op = "mul_mod" => p = (call.a * call.b) % N
    BY <1>3, <1>5, <1>7, <1>8, <1>13, <2>2, NumberIs, Zenon
  <2>4. call.op = "from_montgomery" => (p * R) % N = call.a % N /\ p < N
    <3>1. call.op = "from_montgomery" => (p * R) % N = call.a % N
      BY <1>3, <1>5, <1>7, <1>8, <1>13, <2>2, WordIs, Zenon
    <3>2. p < N
      BY <1>3, <1>5
    <3> QED
      BY <3>1, <3>2
  <2>5. /\ x' \in Words /\ y' \in Words /\ i' \in 0..L /\ t' \in Nat
        /\ OperandsAreReduced' /\ AccumulatorIsExact' /\ CarriesFit'
    BY <1>1, <1>3, <1>7, <2>1, MultiplyStarts, Zenon
  <2>6. stage' = "done"
    BY <2>1 DEF Multiply
  <2>7. MontTypeOK'
    BY <1>1, <1>3, <1>6, <1>7, <1>13, <2>5, <2>6 DEF MontTypeOK, Stages
  <2>8. /\ call'.op \in {"mul_mod", "from_montgomery"}
        /\ call'.op = "mul_mod" => ma' = (call'.a * call'.b) % N'
        /\ call'.op = "from_montgomery" => ma' < N' /\ (ma' * R) % N' = call'.a % N'
    BY <1>1, <1>3, <1>6, <1>13, <2>1, <2>3, <2>4, Zenon
  <2>9. ChainIsExact' /\ MulModIsExact'
    BY <2>6, <2>8 DEF ChainIsExact, MulModIsExact
  <2> QED
    BY <2>5, <2>7, <2>9 DEF MontInv
<1> QED
  BY <1>6, <1>9, <1>10, <1>11, <1>12, <1>13

(* Returning keeps it.                                                      *)
LEMMA ReturnInv ==
  ASSUME MontInv, Return
  PROVE  MontInv'
<1>1. /\ stage' = "idle" /\ call' = NoWords /\ ma' = 0 /\ mb' = 0
      /\ eng' = eng /\ x' = x /\ y' = y /\ i' = i /\ t' = t
  BY DEF Return
<1>2. 0 \in Words
  BY WeightFacts DEF Words
<1>3. MontTypeOK'
  BY <1>1, <1>2 DEF MontInv, MontTypeOK, Stages
<1>4. /\ OperandsAreReduced' /\ AccumulatorIsExact' /\ CarriesFit'
      /\ ChainIsExact' /\ MulModIsExact'
  BY <1>1 DEF MontInv, OperandsAreReduced, AccumulatorIsExact, CarriesFit, ChainIsExact,
              MulModIsExact
<1> QED
  BY <1>3, <1>4 DEF MontInv

-----------------------------------------------------------------------------

(* Every product of mul_mod, to_montgomery and from_montgomery is exact and *)
(* no carry leaves the accumulator, for every base, every number of limbs   *)
(* and every prime whose engine is right.                                  *)
THEOREM Invariance == MontSpec => []MontInv
<1>1. ASSUME MontInv, MontNext PROVE MontInv'
  <2>1. CASE \E op \in Calls, a, b \in Words : Begin(op, a, b)
    BY <1>1, <2>1, BeginInv
  <2>2. CASE Round
    BY <1>1, <2>2, RoundInv
  <2>3. CASE SubtractModulus
    BY <1>1, <2>3, SubtractModulusInv
  <2>4. CASE Finish
    BY <1>1, <2>4, FinishInv
  <2>5. CASE Return
    BY <1>1, <2>5, ReturnInv
  <2> QED
    BY <1>1, <2>1, <2>2, <2>3, <2>4, <2>5 DEF MontNext
<1>2. ASSUME MontInv, UNCHANGED montVars PROVE MontInv'
  <2>1. /\ eng' = eng /\ call' = call /\ stage' = stage /\ x' = x /\ y' = y /\ i' = i
        /\ t' = t /\ ma' = ma /\ mb' = mb
    BY <1>2 DEF montVars
  <2> QED
    BY <1>2, <2>1, Zenon DEF MontInv, MontTypeOK, OperandsAreReduced, AccumulatorIsExact,
       CarriesFit, ChainIsExact, MulModIsExact, N
<1> QED
  BY <1>1, <1>2, InitInv, PTL DEF MontSpec

-----------------------------------------------------------------------------
(* Numbers.                                                                 *)

(* A set of natural numbers has a least element.                           *)
LEMMA LeastElement ==
  ASSUME NEW M \in SUBSET Nat, M # {}
  PROVE  \E u \in M : \A z \in M : u <= z
<1>1. PICK u \in M : \A z \in M : ~ (<<z, u>> \in OpToRel(<, Nat))
  BY NatLessThanWellFounded, WFMin
<1>2. ASSUME NEW z \in M PROVE u <= z
  <2>1. ~ (z < u)
    BY <1>1 DEF OpToRel
  <2>2. z \in Nat /\ u \in Nat
    BY <1>1
  <2> QED
    BY <2>1, <2>2
<1> QED
  BY <1>2

(* Induction, over a set of numbers.                                        *)
LEMMA Inductive ==
  ASSUME NEW Q \in SUBSET Nat, 0 \in Q, \A n \in Q : n + 1 \in Q
  PROVE  Q = Nat
<1> DEFINE M == Nat \ Q
<1> SUFFICES ASSUME M # {} PROVE FALSE
  OBVIOUS
<1>1. PICK u \in M : \A z \in M : u <= z
  <2>1. M \in SUBSET Nat
    OBVIOUS
  <2> HIDE DEF M
  <2> QED BY <2>1, LeastElement
<1>2. u # 0 /\ u - 1 \in Nat /\ u - 1 \notin M
  BY <1>1
<1>3. (u - 1) + 1 \in Q
  BY <1>2
<1> QED BY <1>1, <1>3

-----------------------------------------------------------------------------
(* Powers of two and words.                                                 *)

(* The width of a word.                                                     *)
LEMMA WidthType == HalfBits \in Nat /\ HalfBits > 0 /\ 2 * HalfBits \in Nat
BY FieldAssumption

(* The powers of two are a function.                                        *)
LEMMA TwoToUnfolds == TwoTo = [k \in 0..(2 * HalfBits) |-> IF k = 0 THEN 1 ELSE 2 * TwoTo[k - 1]]
<1> DEFINE Step(f, k) == IF k = 0 THEN 1 ELSE 2 * f[k - 1]
           P(n) == \E f : f = [k \in 0..n |-> Step(f, k)]
           Q == {n \in Nat : P(n)}
<1>1. 0 \in Q
  <2> DEFINE f == [k \in 0..0 |-> 1]
  <2>1. f = [k \in 0..0 |-> Step(f, k)]
    OBVIOUS
  <2> QED BY <2>1
<1>2. ASSUME NEW n \in Q PROVE n + 1 \in Q
  <2> HIDE DEF Step
  <2>1. PICK f : f = [k \in 0..n |-> Step(f, k)]
    OBVIOUS
  <2> DEFINE f1 == [k \in 0..(n + 1) |-> Step(f, k)]
  <2>2. \A k \in 0..n : f1[k] = f[k]
    BY <2>1
  <2>3. ASSUME NEW k \in 0..(n + 1) PROVE Step(f, k) = Step(f1, k)
    <3>1. k # 0 => k - 1 \in 0..n
      OBVIOUS
    <3> HIDE DEF f1
    <3>2. k # 0 => f1[k - 1] = f[k - 1]
      BY <2>2, <3>1
    <3> QED BY <3>2 DEF Step
  <2>4. f1 = [k \in 0..(n + 1) |-> Step(f1, k)]
    BY <2>3
  <2> HIDE DEF f1
  <2>5. n + 1 \in Nat /\ P(n + 1)
    BY <2>4
  <2> HIDE DEF P
  <2> QED BY <2>5
<1>3. P(2 * HalfBits)
  <2>1. Q \in SUBSET Nat
    OBVIOUS
  <2>2. Q = Nat
    <3> HIDE DEF Q
    <3> QED BY <1>1, <1>2, <2>1, Inductive
  <2> HIDE DEF P
  <2> QED BY <2>2, WidthType
<1> QED BY <1>3 DEF TwoTo

(* They are positive and double.                                            *)
LEMMA TwoToFacts ==
  /\ TwoTo[0] = 1
  /\ \A k \in 0..(2 * HalfBits) : TwoTo[k] \in Nat /\ TwoTo[k] > 0
  /\ \A k \in 1..(2 * HalfBits) : TwoTo[k] = 2 * TwoTo[k - 1]
<1>1. TwoTo[0] = 1 /\ \A k \in 1..(2 * HalfBits) : TwoTo[k] = 2 * TwoTo[k - 1]
  <2>1. \A k \in 0..(2 * HalfBits) : TwoTo[k] = IF k = 0 THEN 1 ELSE 2 * TwoTo[k - 1]
    BY TwoToUnfolds
  <2> QED BY <2>1, WidthType
<1> DEFINE Q == {n \in Nat : n <= 2 * HalfBits => TwoTo[n] \in Nat /\ TwoTo[n] > 0}
<1>2. ASSUME NEW n \in Q PROVE n + 1 \in Q
  <2>1. CASE n + 1 <= 2 * HalfBits
    <3>1. TwoTo[n] \in Nat /\ TwoTo[n] > 0 /\ TwoTo[n + 1] = 2 * TwoTo[(n + 1) - 1]
      BY <1>1, <2>1, WidthType
    <3> QED BY <3>1
  <2> QED BY <2>1, WidthType
<1>3. Q = Nat
  <2>1. Q \in SUBSET Nat /\ 0 \in Q
    BY <1>1
  <2> HIDE DEF Q
  <2> QED BY <1>2, <2>1, Inductive
<1> QED BY <1>1, <1>3

(* Powers of two add their exponents, and a word is two halves.             *)
LEMMA TwoToSum ==
  ASSUME NEW e \in Nat, NEW d \in Nat, e + d <= 2 * HalfBits
  PROVE  TwoTo[e + d] = TwoTo[e] * TwoTo[d]
<1> DEFINE Q == {n \in Nat : e + n <= 2 * HalfBits => TwoTo[e + n] = TwoTo[e] * TwoTo[n]}
<1>1. 0 \in Q
  <2>1. TwoTo[0] = 1 /\ (e <= 2 * HalfBits => TwoTo[e] \in Nat)
    BY TwoToFacts, WidthType
  <2> QED BY <2>1
<1>2. ASSUME NEW n \in Q PROVE n + 1 \in Q
  <2>1. CASE e + (n + 1) <= 2 * HalfBits
    <3>1. /\ TwoTo[e + (n + 1)] = 2 * TwoTo[(e + (n + 1)) - 1] /\ (e + (n + 1)) - 1 = e + n
          /\ TwoTo[n + 1] = 2 * TwoTo[(n + 1) - 1] /\ (n + 1) - 1 = n
          /\ TwoTo[e] \in Nat /\ TwoTo[n] \in Nat
      BY <2>1, TwoToFacts, WidthType
    <3>2. TwoTo[e + n] = TwoTo[e] * TwoTo[n]
      BY <2>1, WidthType
    <3>3. PICK u \in Nat, z \in Nat : u = TwoTo[e] /\ z = TwoTo[n]
      BY <3>1
    <3>4. 2 * (u * z) = u * (2 * z)
      OBVIOUS
    <3>5. TwoTo[e + (n + 1)] = 2 * (u * z) /\ TwoTo[n + 1] = 2 * z
      BY <3>1, <3>2, <3>3
    <3> QED BY <3>3, <3>4, <3>5
  <2> QED BY <2>1
<1>3. Q = Nat
  <2>1. Q \in SUBSET Nat
    OBVIOUS
  <2> HIDE DEF Q
  <2> QED BY <1>1, <1>2, <2>1, Inductive
<1> QED BY <1>3

(* Halves, words and moduli.                                                *)
LEMMA WordFacts ==
  /\ Half \in Nat /\ Half > 0 /\ Word \in Nat /\ Word > 0 /\ Word = Half * Half
  /\ TwoTo[HalfBits] = Half /\ TwoTo[2 * HalfBits] = Word
  /\ \A m \in Moduli : m \in Nat /\ 2 < m /\ 2 * m < Word
<1>1. Half \in Nat /\ Half > 0
  BY TwoToFacts, WidthType DEF Half
<1>2. Word = Half * Half
  BY DEF Word
<1>3. Word \in Nat /\ Word > 0
  <2>1. PICK u \in Nat : u = Half /\ u > 0
    BY <1>1
  <2>2. u * u \in Nat /\ u * u > 0
    BY <2>1
  <2> QED BY <1>2, <2>1, <2>2
<1>4. TwoTo[2 * HalfBits] = Word
  <2>1. HalfBits + HalfBits = 2 * HalfBits
    BY WidthType
  <2>2. TwoTo[HalfBits + HalfBits] = TwoTo[HalfBits] * TwoTo[HalfBits]
    BY <2>1, WidthType, TwoToSum
  <2> QED BY <1>2, <2>1, <2>2 DEF Half
<1>5. \A m \in Moduli : m \in Nat /\ 2 < m /\ 2 * m < Word
  BY FieldAssumption
<1> QED BY <1>1, <1>2, <1>3, <1>4, <1>5 DEF Half

-----------------------------------------------------------------------------
(* Sums and differences.                                                    *)

(* The sum of residues is the residue of the sum.                           *)
LEMMA SameSum ==
  ASSUME NEW m \in Nat, NEW v \in Int, NEW w \in Int, NEW p \in Int, NEW q \in Int,
         Same(v, p, m), Same(w, q, m)
  PROVE  Same(v + w, p + q, m)
<1>1. PICK k \in Int : v = p + m * k
  BY DEF Same
<1>2. PICK l \in Int : w = q + m * l
  BY DEF Same
<1>3. m * (k + l) = m * k + m * l
  OBVIOUS
<1>4. v + w = (p + q) + m * (k + l) /\ k + l \in Int
  BY <1>1, <1>2, <1>3
<1> QED BY <1>4 DEF Same

(* What add_mod returns for any two words.                                  *)
LEMMA AddModIs ==
  ASSUME NEW m \in Moduli, NEW a \in U256, NEW b \in U256
  PROVE  AddMod(a, b, m) = IF a + b < m THEN a + b
                           ELSE IF a + b < Word + m THEN a + b - m ELSE a + b - m - Word
<1>1. PICK w \in Nat : w = Word /\ m \in Nat /\ 2 < m /\ 2 * m < w /\ a \in 0..(w - 1) /\ b \in 0..(w - 1)
  BY WordFacts DEF U256
<1>2. PICK sum \in Nat : sum = (a + b) % w /\ sum = IF a + b < w THEN a + b ELSE a + b - w
  <2>1. CASE a + b < w
    BY <1>1, <2>1
  <2>2. CASE a + b >= w
    <3>1. a + b = w * 1 + (a + b - w) /\ a + b - w \in 0..(w - 1)
      BY <1>1, <2>2
    <3>2. (a + b) % w = a + b - w
      BY <1>1, <3>1, DivModIs
    <3> QED BY <2>2, <3>1, <3>2
  <2> QED BY <1>1, <2>1, <2>2
<1>3. AddMod(a, b, m) = IF (a + b >= w) \/ (sum >= m) THEN (sum - m) % w ELSE sum
  BY <1>1, <1>2 DEF AddMod
<1>4. CASE a + b < w
  <2>1. sum = a + b
    BY <1>2, <1>4
  <2>2. sum >= m => (sum - m) % w = sum - m
    BY <1>1, <1>4, <2>1
  <2> QED BY <1>1, <1>3, <1>4, <2>1, <2>2
<1>5. CASE a + b >= w
  <2>1. sum = a + b - w
    BY <1>1, <1>2, <1>5
  <2>2. CASE sum >= m
    <3>1. (sum - m) % w = sum - m
      BY <1>1, <2>1, <2>2
    <3> QED BY <1>1, <1>3, <1>5, <2>1, <2>2, <3>1
  <2>3. CASE sum < m
    <3>1. sum - m = w * (-1) + (sum - m + w) /\ sum - m + w \in 0..(w - 1) /\ -1 \in Int
      BY <1>1, <1>2, <2>3
    <3>2. (sum - m) % w = sum - m + w
      BY <1>1, <3>1, DivModIs
    <3> QED BY <1>1, <1>3, <1>5, <2>1, <2>3, <3>2
  <2> QED BY <1>1, <1>2, <2>2, <2>3
<1> QED BY <1>1, <1>4, <1>5

(* The remainder of a number is zero when that of its opposite is.          *)
LEMMA OppositeResidue ==
  ASSUME NEW m \in Nat, m > 0, NEW w \in Int, NEW nw \in Int, nw + w = 0
  PROVE  nw % m = 0 <=> w % m = 0
<1>1. w % m = 0 <=> Same(w, 0, m)
  <2>1. 0 % m = 0 /\ 0 \in Int
    BY ResidueIsIdempotent
  <2> QED BY <2>1, SameIsResidue
<1>2. nw % m = 0 <=> Same(nw, 0, m)
  <2>1. 0 % m = 0 /\ 0 \in Int
    BY ResidueIsIdempotent
  <2> QED BY <2>1, SameIsResidue
<1>3. ASSUME NEW k \in Int PROVE -k \in Int /\ (w = 0 + m * k <=> nw = 0 + m * (-k))
  <2>1. m * (-k) = -(m * k) /\ m * k \in Int
    OBVIOUS
  <2> QED BY <2>1
<1>4. Same(w, 0, m) => Same(nw, 0, m)
  BY <1>3 DEF Same
<1>5. ASSUME NEW k \in Int, nw = 0 + m * k PROVE -k \in Int /\ w = 0 + m * (-k)
  <2>1. m * (-k) = -(m * k) /\ m * k \in Int
    OBVIOUS
  <2> QED BY <1>5, <2>1
<1>6. Same(nw, 0, m) => Same(w, 0, m)
  BY <1>5 DEF Same
<1> QED BY <1>1, <1>2, <1>4, <1>6

(* Sums of elements are exact; of words they are unless the sum exceeds the  *)
(* word by more than the modulus.                                           *)
LEMMA SumIsExact ==
  ASSUME NEW m \in Moduli, NEW a \in U256, NEW b \in U256, NEW out, out = AddMod(a, b, m)
  PROVE  /\ a < m /\ b < m => out = (a + b) % m
         /\ (out - (a + b)) % m = 0 <=> a + b < Word + m \/ Word % m = 0
         /\ a + b < Word + m => Same(out, a + b, m) /\ out \in U256
<1>1. PICK w \in Nat : w = Word /\ m \in Nat /\ 2 < m /\ 2 * m < w /\ a \in 0..(w - 1) /\ b \in 0..(w - 1)
  BY WordFacts DEF U256
<1>2. out = IF a + b < m THEN a + b ELSE IF a + b < w + m THEN a + b - m ELSE a + b - m - w
  BY <1>1, AddModIs
<1>0. out \in Int /\ m > 0 /\ a + b \in Int
  BY <1>1, <1>2
<1>d. PICK gap \in Int : gap = out - (a + b)
  BY <1>0, <1>1
<1>3. ASSUME a < m, b < m PROVE out = (a + b) % m
  <2>1. CASE a + b < m
    BY <1>1, <1>2, <2>1
  <2>2. CASE a + b >= m
    <3>1. a + b = m * 1 + (a + b - m) /\ a + b - m \in 0..(m - 1) /\ 1 \in Int
      BY <1>1, <1>3, <2>2
    <3>2. (a + b) % m = a + b - m
      BY <1>1, <3>1, DivModIs
    <3> QED BY <1>1, <1>2, <1>3, <2>2, <3>2
  <2> QED BY <1>1, <2>1, <2>2
<1>4. CASE a + b < w + m
  <2>1. PICK k \in Int : gap = m * k /\ out = (a + b) + m * k
    <3>1. 0 \in Int /\ -1 \in Int
      OBVIOUS
    <3>2. CASE a + b < m
      <4>1. gap = m * 0 /\ out = (a + b) + m * 0
        BY <1>1, <1>2, <1>d, <3>2
      <4> QED BY <3>1, <4>1
    <3>3. CASE ~ (a + b < m)
      <4>1. gap = m * (-1) /\ out = (a + b) + m * (-1)
        BY <1>1, <1>2, <1>4, <1>d, <3>3
      <4> QED BY <3>1, <4>1
    <3> QED BY <3>2, <3>3
  <2>2. gap % m = 0
    <3>1. gap = m * k + 0 /\ 0 \in 0..(m - 1)
      BY <1>1, <2>1
    <3> QED BY <1>0, <1>1, <3>1, DivModIs
  <2>3. Same(out, a + b, m)
    BY <2>1 DEF Same
  <2>4. out \in U256
    <3>1. out \in 0..(w - 1)
      BY <1>1, <1>2, <1>4
    <3> QED BY <1>1, <3>1 DEF U256
  <2>5. a + b < Word + m
    BY <1>1, <1>4
  <2> QED BY <1>3, <1>d, <2>2, <2>3, <2>4, <2>5
<1>5. CASE ~ (a + b < w + m)
  <2>1. PICK nw \in Int : nw = 0 - w /\ nw + w = 0
    BY <1>1
  <2>2. gap = nw + m * (-1) /\ -1 \in Int
    BY <1>1, <1>2, <1>5, <1>d, <2>1
  <2>3. gap % m = nw % m
    BY <1>0, <1>1, <2>2, SameResidue
  <2>4. nw % m = 0 <=> w % m = 0
    <3>1. w \in Int /\ m \in Nat /\ m > 0 /\ nw + w = 0
      BY <1>0, <1>1, <2>1
    <3> QED BY <3>1, OppositeResidue
  <2>5. ~ (a + b < Word + m) /\ (gap % m = 0 <=> Word % m = 0)
    BY <1>1, <1>5, <2>3, <2>4
  <2> QED BY <1>3, <1>d, <2>5
<1> QED BY <1>4, <1>5

(* Differences likewise.                                                    *)
LEMMA DifferenceIsExact ==
  ASSUME NEW m \in Moduli, NEW a \in U256, NEW b \in U256, NEW out, out = SubMod(a, b, m)
  PROVE  /\ a < m /\ b < m => out = (a - b) % m
         /\ (out - (a - b)) % m = 0 <=> b - a <= m \/ Word % m = 0
<1>1. PICK w \in Nat : w = Word /\ m \in Nat /\ 2 < m /\ 2 * m < w /\ a \in 0..(w - 1) /\ b \in 0..(w - 1)
  BY WordFacts DEF U256
<1>2. PICK e \in Int : e = a - b
  BY <1>1
<1>3. PICK em \in Int : em = e + m
  BY <1>1
<1>4. out = IF a < b THEN em % w ELSE e
  BY <1>1, <1>2, <1>3 DEF SubMod
<1>5. e % m = (IF e < 0 THEN em ELSE e) \/ ~ (a < m /\ b < m)
  <2>1. CASE a < m /\ b < m /\ e < 0
    <3>1. e = m * (-1) + em /\ em \in 0..(m - 1) /\ -1 \in Int
      BY <1>1, <1>2, <1>3, <2>1
    <3> QED BY <1>1, <2>1, <3>1, DivModIs
  <2>2. CASE a < m /\ b < m /\ ~ (e < 0)
    <3>1. e = m * 0 + e /\ e \in 0..(m - 1) /\ 0 \in Int
      BY <1>1, <1>2, <2>2
    <3> QED BY <1>1, <2>2, <3>1, DivModIs
  <2> QED BY <2>1, <2>2
<1>6. CASE b - a <= m
  <2>1. PICK k \in Int : out = e + m * k /\ (a < b => out = em) /\ (~ (a < b) => out = e)
    <3>1. CASE a < b
      <4>1. em = w * 0 + em /\ em \in 0..(w - 1) /\ 0 \in Int
        BY <1>1, <1>2, <1>3, <1>6, <3>1
      <4>2. em % w = em
        BY <1>1, <4>1, DivModIs
      <4>3. out = e + m * 1 /\ 1 \in Int /\ out = em
        BY <1>1, <1>3, <1>4, <3>1, <4>2
      <4> QED BY <3>1, <4>3
    <3>2. CASE ~ (a < b)
      <4>1. out = e + m * 0 /\ 0 \in Int /\ out = e
        BY <1>1, <1>4, <3>2
      <4> QED BY <3>2, <4>1
    <3> QED BY <3>1, <3>2
  <2>2. (out - e) % m = 0
    <3>1. PICK gap \in Int : gap = m * k
      BY <1>1
    <3>2. gap = m * k + 0 /\ 0 \in 0..(m - 1)
      BY <1>1, <3>1
    <3>3. gap % m = 0
      BY <1>1, <3>2, DivModIs
    <3>4. out - e = gap
      BY <1>2, <2>1, <3>1
    <3> QED BY <3>3, <3>4
  <2>3. a < m /\ b < m => out = e % m
    BY <1>1, <1>2, <1>5, <2>1
  <2> QED BY <1>2, <1>6, <2>2, <2>3
<1>7. CASE ~ (b - a <= m)
  <2>1. em = w * (-1) + (em + w) /\ em + w \in 0..(w - 1) /\ -1 \in Int
    BY <1>1, <1>2, <1>3, <1>7
  <2>2. em % w = em + w
    BY <1>1, <2>1, DivModIs
  <2>3. a < b /\ out = em + w
    BY <1>1, <1>4, <1>7, <2>2
  <2>4. PICK gap \in Int : gap = out - e /\ gap = w + m * 1 /\ 1 \in Int /\ w \in Int
    BY <1>1, <1>3, <2>3
  <2>5. gap % m = w % m
    <3>1. PICK k \in Int : gap = w + m * k
      BY <2>4
    <3>2. w \in Int /\ m \in Nat /\ m > 0
      BY <1>1
    <3> QED BY <3>1, <3>2, SameResidue
  <2>6. ~ (a < m /\ b < m)
    BY <1>1, <1>7
  <2> QED BY <1>1, <1>2, <1>7, <2>4, <2>5, <2>6
<1> QED BY <1>6, <1>7

(* Adding residues.                                                         *)
LEMMA SumOfResidues ==
  ASSUME NEW m \in Moduli, NEW v \in Nat, NEW w \in Nat
  PROVE  AddMod(v % m, w % m, m) = (v + w) % m
<1>1. m \in Nat /\ m > 0 /\ m < Word /\ Word \in Nat
  BY WordFacts
<1>2. PICK p \in 0..(m - 1), q \in 0..(m - 1) : p = v % m /\ q = w % m
  BY <1>1, DivMod
<1>3. Same(p, v, m) /\ Same(q, w, m)
  <2>1. v \in Int /\ w \in Int
    OBVIOUS
  <2> QED BY <1>1, <1>2, <2>1, SameAsResidue
<1>4. p \in U256 /\ q \in U256 /\ p < m /\ q < m /\ p \in Int /\ q \in Int
  BY <1>1, <1>2 DEF U256
<1>5. AddMod(p, q, m) = (p + q) % m
  BY <1>4, SumIsExact
<1>6. PICK e \in Int, d \in Int : e = p + q /\ d = v + w
  BY <1>4
<1>7. Same(e, d, m)
  <2>1. v \in Int /\ w \in Int
    OBVIOUS
  <2> QED BY <1>1, <1>3, <1>4, <1>6, <2>1, SameSum
<1>8. e % m = d % m
  BY <1>1, <1>7, SameIsResidue
<1> QED BY <1>2, <1>5, <1>6, <1>8

-----------------------------------------------------------------------------
(* The product by halves.                                                   *)

(* Shifting is multiplying by a power of two.                               *)
LEMMA ShiftIsProduct ==
  ASSUME NEW m \in Moduli, NEW v \in Nat, NEW shift \in 0..(2 * HalfBits)
  PROVE  ShiftLeftMod(v, shift, m) = (v * TwoTo[shift]) % m
<1> DEFINE Step(f, k) == IF k = 0 THEN v % m ELSE AddMod(f[k - 1], f[k - 1], m)
           P(n) == \E f : f = [k \in 0..n |-> Step(f, k)]
           Q == {n \in Nat : P(n)}
<1>1. 0 \in Q
  <2> DEFINE f == [k \in 0..0 |-> v % m]
  <2>1. f = [k \in 0..0 |-> Step(f, k)]
    OBVIOUS
  <2> QED BY <2>1
<1>2. ASSUME NEW n \in Q PROVE n + 1 \in Q
  <2> HIDE DEF Step
  <2>1. PICK f : f = [k \in 0..n |-> Step(f, k)]
    OBVIOUS
  <2> DEFINE f1 == [k \in 0..(n + 1) |-> Step(f, k)]
  <2>2. \A k \in 0..n : f1[k] = f[k]
    BY <2>1
  <2>3. ASSUME NEW k \in 0..(n + 1) PROVE Step(f, k) = Step(f1, k)
    <3>1. k # 0 => k - 1 \in 0..n
      OBVIOUS
    <3> HIDE DEF f1
    <3>2. k # 0 => f1[k - 1] = f[k - 1]
      BY <2>2, <3>1
    <3> QED BY <3>2 DEF Step
  <2>4. f1 = [k \in 0..(n + 1) |-> Step(f1, k)]
    BY <2>3
  <2> HIDE DEF f1
  <2>5. n + 1 \in Nat /\ P(n + 1)
    BY <2>4
  <2> HIDE DEF P
  <2> QED BY <2>5
<1>3. P(shift)
  <2>1. Q \in SUBSET Nat
    OBVIOUS
  <2>2. Q = Nat
    <3> HIDE DEF Q
    <3> QED BY <1>1, <1>2, <2>1, Inductive
  <2> HIDE DEF P
  <2> QED BY <2>2, WidthType
<1> DEFINE f == CHOOSE f : f = [k \in 0..shift |-> Step(f, k)]
<1>4. f = [k \in 0..shift |-> Step(f, k)]
  BY <1>3
<1>5. ShiftLeftMod(v, shift, m) = f[shift]
  BY DEF ShiftLeftMod
<1> HIDE DEF f
<1>6. \A k \in 0..shift : f[k] = Step(f, k)
  BY <1>4
<1> HIDE DEF P, Q
<1> DEFINE O == {n \in Nat : n <= shift => f[n] = (v * TwoTo[n]) % m}
<1>7. m \in Nat /\ m > 0
  BY WordFacts
<1>8. 0 \in O
  <2>1. f[0] = v % m /\ TwoTo[0] = 1 /\ v * 1 = v
    BY <1>6, TwoToFacts, WidthType
  <2> QED BY <2>1
<1>9. ASSUME NEW n \in O PROVE n + 1 \in O
  <2>1. CASE n + 1 <= shift
    <3>1. PICK k \in 1..shift, u \in Nat : /\ k = n + 1 /\ k - 1 = n /\ k \in 0..shift /\ k # 0
                                           /\ u = TwoTo[n] /\ TwoTo[k] = 2 * u
      <4>1. n + 1 \in 1..shift /\ (n + 1) - 1 = n /\ n + 1 \in 0..shift /\ n + 1 # 0 /\ n \in 0..(2 * HalfBits)
            /\ n + 1 \in 1..(2 * HalfBits)
        BY <2>1, WidthType
      <4>2. TwoTo[n] \in Nat /\ TwoTo[n + 1] = 2 * TwoTo[(n + 1) - 1]
        BY <4>1, TwoToFacts
      <4> QED BY <4>1, <4>2
    <3>2. f[n] = (v * u) % m
      BY <2>1, <3>1
    <3>3. f[k] = AddMod(f[n], f[n], m)
      BY <1>6, <3>1
    <3>4. v * u \in Nat /\ v * u + v * u = v * (2 * u)
      BY <3>1
    <3>5. f[k] = (v * u + v * u) % m
      BY <3>2, <3>3, <3>4, SumOfResidues
    <3> QED BY <3>1, <3>4, <3>5
  <2> QED BY <2>1
<1>10. O = Nat
  <2>1. O \in SUBSET Nat
    OBVIOUS
  <2> HIDE DEF O
  <2> QED BY <1>8, <1>9, <2>1, Inductive
<1>11. f[shift] = (v * TwoTo[shift]) % m
  BY <1>10
<1> QED BY <1>5, <1>11

(* The product of any two words is exact.                                   *)
LEMMA ProductIsExact ==
  ASSUME NEW m \in Moduli, NEW a \in U256, NEW b \in U256
  PROVE  MulModNaive(a, b, m) = (a * b) % m
<1>1. m \in Nat /\ m > 0 /\ a \in Nat /\ b \in Nat /\ Half \in Nat /\ Half > 0
  BY WordFacts DEF U256
<1>2. PICK h1 \in Nat, al \in Nat, ah \in Nat, bl \in Nat, bh \in Nat :
        /\ h1 = Half /\ al = a % Half /\ ah = a \div Half /\ bl = b % Half /\ bh = b \div Half
        /\ a = h1 * ah + al /\ b = h1 * bh + bl
  <2>1. /\ a = Half * (a \div Half) + (a % Half) /\ a % Half \in Nat /\ a \div Half \in Nat
        /\ b = Half * (b \div Half) + (b % Half) /\ b % Half \in Nat /\ b \div Half \in Nat
    <3>1. PICK z \in Nat : z = Half /\ z > 0
      BY <1>1
    <3>2. /\ a = z * (a \div z) + (a % z) /\ a % z \in Nat /\ a \div z \in Nat
          /\ b = z * (b \div z) + (b % z) /\ b % z \in Nat /\ b \div z \in Nat
      BY <1>1, <3>1
    <3> QED BY <3>1, <3>2
  <2> QED BY <1>1, <2>1
<1>3. PICK x1 \in Nat, x2 \in Nat, x3 \in Nat, x4 \in Nat :
        x1 = al * bl /\ x2 = (al * bh) * h1 /\ x3 = (ah * bl) * h1 /\ x4 = (ah * bh) * (h1 * h1)
  BY <1>2
<1>4. a * b = x1 + x2 + x3 + x4
  <2>1. PICK ha \in Nat, hb \in Nat : ha = h1 * ah /\ hb = h1 * bh
    OBVIOUS
  <2>2. (ha + al) * (hb + bl) = al * bl + al * hb + ha * bl + ha * hb
    OBVIOUS
  <2>3. al * hb = (al * bh) * h1
    BY <2>1
  <2>4. ha * bl = (ah * bl) * h1
    BY <2>1
  <2>5. ha * hb = (ah * bh) * (h1 * h1)
    <3>1. (h1 * ah) * (h1 * bh) = (ah * bh) * (h1 * h1)
      OBVIOUS
    <3> QED BY <2>1, <3>1
  <2>6. a = ha + al /\ b = hb + bl
    BY <1>2, <2>1
  <2> QED BY <1>3, <2>2, <2>3, <2>4, <2>5, <2>6
<1>5. /\ ShiftLeftMod(al * bh, HalfBits, m) = x2 % m
      /\ ShiftLeftMod(ah * bl, HalfBits, m) = x3 % m
      /\ ShiftLeftMod(ah * bh, 2 * HalfBits, m) = x4 % m
  <2>1. HalfBits \in 0..(2 * HalfBits) /\ 2 * HalfBits \in 0..(2 * HalfBits)
    BY WidthType
  <2>2. TwoTo[HalfBits] = h1 /\ TwoTo[2 * HalfBits] = h1 * h1
    BY <1>2, WordFacts
  <2>3. al * bh \in Nat /\ ah * bl \in Nat /\ ah * bh \in Nat
    OBVIOUS
  <2>4. /\ ShiftLeftMod(al * bh, HalfBits, m) = ((al * bh) * TwoTo[HalfBits]) % m
        /\ ShiftLeftMod(ah * bl, HalfBits, m) = ((ah * bl) * TwoTo[HalfBits]) % m
        /\ ShiftLeftMod(ah * bh, 2 * HalfBits, m) = ((ah * bh) * TwoTo[2 * HalfBits]) % m
    BY <2>1, <2>3, ShiftIsProduct
  <2> QED BY <1>3, <2>2, <2>4
<1>6. MulModWithOverflow(a, b, m)
        = AddMod(AddMod(AddMod(x1 % m, x2 % m, m), x3 % m, m), x4 % m, m)
  BY <1>2, <1>3, <1>5 DEF MulModWithOverflow
<1>7. AddMod(x1 % m, x2 % m, m) = (x1 + x2) % m
  BY SumOfResidues
<1>8. x1 + x2 \in Nat /\ AddMod((x1 + x2) % m, x3 % m, m) = (x1 + x2 + x3) % m
  <2>1. PICK z \in Nat : z = x1 + x2
    OBVIOUS
  <2> QED BY <2>1, SumOfResidues
<1>9. AddMod((x1 + x2 + x3) % m, x4 % m, m) = (x1 + x2 + x3 + x4) % m
  <2>1. PICK z \in Nat : z = x1 + x2 + x3
    OBVIOUS
  <2> QED BY <2>1, SumOfResidues
<1>10. MulModWithOverflow(a, b, m) = (a * b) % m
  BY <1>4, <1>6, <1>7, <1>8, <1>9
<1> QED BY <1>10 DEF MulModNaive

-----------------------------------------------------------------------------
(* Powers.                                                                  *)

(* What the powers of a number are.                                         *)
LEMMA PowerUnfolds ==
  ASSUME NEW m \in Moduli, NEW a \in Nat
  PROVE  /\ PowerOf(a, m)[0] = 1
         /\ \A k \in 1..Word : PowerOf(a, m)[k] = (PowerOf(a, m)[k - 1] * a) % m
<1> DEFINE Step(f, k) == IF k = 0 THEN 1 ELSE (f[k - 1] * a) % m
           P(n) == \E f : f = [k \in 0..n |-> Step(f, k)]
           Q == {n \in Nat : P(n)}
<1>1. 0 \in Q
  <2> DEFINE f == [k \in 0..0 |-> 1]
  <2>1. f = [k \in 0..0 |-> Step(f, k)]
    OBVIOUS
  <2> QED BY <2>1
<1>2. ASSUME NEW n \in Q PROVE n + 1 \in Q
  <2> HIDE DEF Step
  <2>1. PICK f : f = [k \in 0..n |-> Step(f, k)]
    OBVIOUS
  <2> DEFINE f1 == [k \in 0..(n + 1) |-> Step(f, k)]
  <2>2. \A k \in 0..n : f1[k] = f[k]
    BY <2>1
  <2>3. ASSUME NEW k \in 0..(n + 1) PROVE Step(f, k) = Step(f1, k)
    <3>1. k # 0 => k - 1 \in 0..n
      OBVIOUS
    <3> HIDE DEF f1
    <3>2. k # 0 => f1[k - 1] = f[k - 1]
      BY <2>2, <3>1
    <3> QED BY <3>2 DEF Step
  <2>4. f1 = [k \in 0..(n + 1) |-> Step(f1, k)]
    BY <2>3
  <2> HIDE DEF f1
  <2>5. n + 1 \in Nat /\ P(n + 1)
    BY <2>4
  <2> HIDE DEF P
  <2> QED BY <2>5
<1>3. P(Word)
  <2>1. Q \in SUBSET Nat
    OBVIOUS
  <2>2. Q = Nat
    <3> HIDE DEF Q
    <3> QED BY <1>1, <1>2, <2>1, Inductive
  <2> HIDE DEF P
  <2> QED BY <2>2, WordFacts
<1> DEFINE f == CHOOSE f : f = [k \in 0..Word |-> Step(f, k)]
<1>4. f = [k \in 0..Word |-> Step(f, k)]
  BY <1>3
<1>5. PowerOf(a, m) = f
  BY DEF PowerOf
<1> HIDE DEF f
<1>6. \A k \in 0..Word : f[k] = Step(f, k)
  BY <1>4
<1>7. f[0] = 1
  BY <1>6, WordFacts
<1>8. \A k \in 1..Word : f[k] = (f[k - 1] * a) % m
  BY <1>6, WordFacts
<1> QED BY <1>5, <1>7, <1>8

(* Powers are residues.                                                     *)
LEMMA PowerType ==
  ASSUME NEW m \in Moduli, NEW a \in Nat, NEW k \in 0..Word
  PROVE  PowerOf(a, m)[k] \in 0..(m - 1)
<1>1. m \in Nat /\ 2 < m /\ Word \in Nat
  BY WordFacts
<1> DEFINE Q == {n \in Nat : n <= Word => PowerOf(a, m)[n] \in 0..(m - 1)}
<1>2. 0 \in Q
  BY <1>1, PowerUnfolds
<1>3. ASSUME NEW n \in Q PROVE n + 1 \in Q
  <2>1. CASE n + 1 <= Word
    <3>1. PICK v \in Nat : v = PowerOf(a, m)[n]
      BY <1>1, <2>1
    <3>2. n + 1 \in 1..Word /\ (n + 1) - 1 = n
      BY <1>1, <2>1
    <3>3. PowerOf(a, m)[n + 1] = (v * a) % m
      BY <3>1, <3>2, PowerUnfolds
    <3>4. PICK w \in Nat : w = v * a
      OBVIOUS
    <3>5. w % m \in 0..(m - 1)
      BY <1>1, DivMod
    <3> QED BY <3>3, <3>4, <3>5
  <2> QED BY <2>1
<1>4. Q = Nat
  <2>1. Q \in SUBSET Nat
    OBVIOUS
  <2> HIDE DEF Q
  <2> QED BY <1>2, <1>3, <2>1, Inductive
<1> QED BY <1>1, <1>4

(* The next power, as a congruence.                                         *)
LEMMA NextPower ==
  ASSUME NEW m \in Moduli, NEW a \in Nat, NEW k \in Nat, k + 1 <= Word
  PROVE  /\ PowerOf(a, m)[k] \in Nat /\ PowerOf(a, m)[k + 1] \in Nat
         /\ PowerOf(a, m)[k + 1] = (PowerOf(a, m)[k] * a) % m
         /\ Same(PowerOf(a, m)[k + 1], PowerOf(a, m)[k] * a, m)
<1>1. m \in Nat /\ m > 0 /\ Word \in Nat
  BY WordFacts
<1>2. k \in 0..Word /\ k + 1 \in 1..Word /\ (k + 1) - 1 = k /\ k + 1 \in 0..Word
  BY <1>1
<1>3. PICK v \in Nat, w \in Nat : v = PowerOf(a, m)[k] /\ w = v * a
  <2>1. PowerOf(a, m)[k] \in Nat
    BY <1>1, <1>2, PowerType
  <2> QED BY <2>1
<1>4. PowerOf(a, m)[k + 1] = w % m /\ PowerOf(a, m)[k + 1] \in Nat
  BY <1>1, <1>2, <1>3, PowerUnfolds, PowerType
<1>5. Same(w % m, w, m)
  BY <1>1, SameAsResidue
<1> QED BY <1>3, <1>4, <1>5

(* Exponents add.                                                           *)
LEMMA PowerSum ==
  ASSUME NEW m \in Moduli, NEW a \in Nat, NEW e \in Nat, NEW d \in Nat, e + d <= Word
  PROVE  Same(PowerOf(a, m)[e + d], PowerOf(a, m)[e] * PowerOf(a, m)[d], m)
<1>1. m \in Nat /\ m > 0 /\ Word \in Nat
  BY WordFacts
<1> DEFINE p == PowerOf(a, m)
           Q == {n \in Nat : e + n <= Word => Same(p[e + n], p[e] * p[n], m)}
<1>2. 0 \in Q
  <2>1. p[0] = 1
    BY PowerUnfolds
  <2>2. e <= Word => p[e] \in Nat
    BY <1>1, PowerType
  <2>3. e <= Word => Same(p[e], p[e], m)
    BY <1>1, <2>2, SameIsEquivalence
  <2> HIDE DEF p
  <2>4. e + 0 = e /\ (e <= Word => p[e] * p[0] = p[e])
    BY <2>1, <2>2
  <2> QED BY <2>3, <2>4
<1>3. ASSUME NEW n \in Q PROVE n + 1 \in Q
  <2>1. CASE e + (n + 1) <= Word
    <3>1. e + n \in Nat /\ (e + n) + 1 = e + (n + 1) /\ n + 1 <= Word /\ e \in 0..Word /\ e + n <= Word
      BY <1>1, <2>1
    <3>2. PICK s \in Nat, s1 \in Nat, v \in Nat, v1 \in Nat, w \in Nat :
             /\ s = p[e + n] /\ s1 = p[e + (n + 1)] /\ v = p[n] /\ v1 = p[n + 1] /\ w = p[e]
             /\ Same(s1, s * a, m) /\ Same(v1, v * a, m)
      <4>1. /\ p[e + n] \in Nat /\ p[e + (n + 1)] \in Nat
            /\ Same(p[e + (n + 1)], p[e + n] * a, m)
        BY <2>1, <3>1, NextPower
      <4>2. p[n] \in Nat /\ p[n + 1] \in Nat /\ Same(p[n + 1], p[n] * a, m)
        BY <3>1, NextPower
      <4>3. p[e] \in Nat
        BY <1>1, <3>1, PowerType
      <4> HIDE DEF p
      <4> QED BY <4>1, <4>2, <4>3
    <3>3. Same(s, w * v, m)
      BY <2>1, <3>1, <3>2
    <3> HIDE DEF p, Q
    <3>4. PICK wv \in Int, sa \in Int, wva \in Int, va \in Int, wv1 \in Int :
             wv = w * v /\ sa = s * a /\ wva = wv * a /\ va = v * a /\ wv1 = w * v1 /\ wva = w * va
      <4>1. (w * v) * a = w * (v * a)
        OBVIOUS
      <4> QED BY <4>1
    <3>5. Same(sa, wva, m)
      <4>1. Same(a, a, m) /\ a \in Int /\ s \in Int
        BY <1>1, SameIsEquivalence
      <4> QED BY <1>1, <3>3, <3>4, <4>1, SameProduct
    <3>6. Same(wv1, wva, m)
      <4>1. Same(w, w, m) /\ w \in Int /\ v1 \in Int
        BY <1>1, SameIsEquivalence
      <4>2. Same(v1, va, m)
        BY <3>2, <3>4
      <4> QED BY <1>1, <3>4, <4>1, <4>2, SameProduct
    <3>7. Same(s1, wv1, m)
      <4>1. Same(s1, sa, m) /\ s1 \in Int
        BY <3>2, <3>4
      <4>2. Same(s1, wva, m)
        BY <1>1, <3>5, <4>1, SameIsEquivalence
      <4>3. Same(wva, wv1, m)
        BY <1>1, <3>6, SameIsEquivalence
      <4> QED BY <1>1, <4>1, <4>2, <4>3, SameIsEquivalence
    <3>8. Same(p[e + (n + 1)], p[e] * p[n + 1], m)
      BY <3>2, <3>4, <3>7
    <3> QED BY <3>8 DEF Q
  <2> QED BY <2>1
<1>4. Q = Nat
  <2>1. Q \in SUBSET Nat
    OBVIOUS
  <2> HIDE DEF Q
  <2> QED BY <1>2, <1>3, <2>1, Inductive
<1> QED BY <1>4

(* Congruent numbers have the same powers.                                  *)
LEMMA PowerOfSame ==
  ASSUME NEW m \in Moduli, NEW a \in Nat, NEW c \in Nat, a % m = c % m, NEW e \in Nat, e <= Word
  PROVE  PowerOf(a, m)[e] = PowerOf(c, m)[e]
<1>1. m \in Nat /\ m > 0 /\ Word \in Nat
  BY WordFacts
<1>2. Same(a, c, m) /\ a \in Int /\ c \in Int
  <2>1. a \in Int /\ c \in Int
    OBVIOUS
  <2> QED BY <1>1, <2>1, SameIsResidue
<1> DEFINE Q == {n \in Nat : n <= Word => PowerOf(a, m)[n] = PowerOf(c, m)[n]}
<1>3. 0 \in Q
  BY PowerUnfolds
<1>4. ASSUME NEW n \in Q PROVE n + 1 \in Q
  <2>1. CASE n + 1 <= Word
    <3>1. PICK v \in Nat : v = PowerOf(a, m)[n]
      BY <2>1, NextPower
    <3>2. v = PowerOf(c, m)[n]
      BY <1>1, <2>1, <3>1
    <3>3. PICK va \in Int, vc \in Int : va = v * a /\ vc = v * c
      OBVIOUS
    <3>4. Same(va, vc, m)
      <4>1. Same(v, v, m) /\ v \in Int
        BY <1>1, SameIsEquivalence
      <4> QED BY <1>1, <1>2, <3>3, <4>1, SameProduct
    <3>5. va % m = vc % m
      BY <1>1, <3>4, SameIsResidue
    <3>6. PowerOf(a, m)[n + 1] = va % m /\ PowerOf(c, m)[n + 1] = vc % m
      <4>1. n \in Nat /\ n + 1 <= Word
        BY <2>1
      <4>2. PowerOf(a, m)[n + 1] = (PowerOf(a, m)[n] * a) % m
        BY <4>1, NextPower
      <4>3. PowerOf(c, m)[n + 1] = (PowerOf(c, m)[n] * c) % m
        BY <4>1, NextPower
      <4> QED BY <3>1, <3>2, <3>3, <4>2, <4>3
    <3> QED BY <3>5, <3>6
  <2> QED BY <2>1
<1>5. Q = Nat
  <2>1. Q \in SUBSET Nat
    OBVIOUS
  <2> HIDE DEF Q
  <2> QED BY <1>3, <1>4, <2>1, Inductive
<1> QED BY <1>5

(* The powers of a square are the even powers.                              *)
LEMMA PowerOfSquare ==
  ASSUME NEW m \in Moduli, NEW c \in Nat, NEW cc \in Nat, cc = c * c,
         NEW e \in Nat, 2 * e <= Word
  PROVE  Same(PowerOf(cc, m)[e], PowerOf(c, m)[2 * e], m)
<1>1. m \in Nat /\ m > 0 /\ Word \in Nat
  BY WordFacts
<1> DEFINE Q == {n \in Nat : 2 * n <= Word => Same(PowerOf(cc, m)[n], PowerOf(c, m)[2 * n], m)}
<1>2. 0 \in Q
  <2>1. PowerOf(cc, m)[0] = 1 /\ PowerOf(c, m)[0] = 1 /\ 2 * 0 = 0 /\ 1 \in Int
    BY PowerUnfolds
  <2> QED BY <1>1, <2>1, SameIsEquivalence
<1>3. ASSUME NEW n \in Q PROVE n + 1 \in Q
  <2>1. CASE 2 * (n + 1) <= Word
    <3>1. /\ n + 1 <= Word /\ 2 * n \in Nat /\ 2 * n + 1 \in Nat /\ (2 * n) + 1 <= Word
          /\ (2 * n + 1) + 1 <= Word /\ (2 * n + 1) + 1 = 2 * (n + 1) /\ 2 * n <= Word
      BY <1>1, <2>1
    <3>2. PICK v \in Int, v1 \in Int : v = PowerOf(cc, m)[n] /\ v1 = PowerOf(cc, m)[n + 1] /\ Same(v1, v * cc, m)
      <4>1. /\ PowerOf(cc, m)[n] \in Nat /\ PowerOf(cc, m)[n + 1] \in Nat
            /\ Same(PowerOf(cc, m)[n + 1], PowerOf(cc, m)[n] * cc, m)
        BY <3>1, NextPower
      <4> QED BY <4>1
    <3>3. PICK w \in Int, w1 \in Int, w2 \in Int :
             /\ w = PowerOf(c, m)[2 * n] /\ w1 = PowerOf(c, m)[2 * n + 1] /\ w2 = PowerOf(c, m)[2 * (n + 1)]
             /\ Same(w1, w * c, m) /\ Same(w2, w1 * c, m)
      <4>1. /\ PowerOf(c, m)[2 * n] \in Nat /\ PowerOf(c, m)[2 * n + 1] \in Nat
            /\ Same(PowerOf(c, m)[2 * n + 1], PowerOf(c, m)[2 * n] * c, m)
        BY <3>1, NextPower
      <4>2. /\ PowerOf(c, m)[2 * (n + 1)] \in Nat
            /\ Same(PowerOf(c, m)[2 * (n + 1)], PowerOf(c, m)[2 * n + 1] * c, m)
        BY <3>1, NextPower
      <4> QED BY <4>1, <4>2
    <3>4. Same(v, w, m)
      BY <3>1, <3>2, <3>3
    <3> HIDE DEF Q
    <3>5. PICK vcc \in Int, wcc \in Int, wc \in Int, w1c \in Int :
             vcc = v * cc /\ wcc = w * cc /\ wc = w * c /\ w1c = w1 * c /\ wcc = wc * c
      <4>1. w * (c * c) = (w * c) * c
        OBVIOUS
      <4> QED BY <4>1
    <3>6. Same(vcc, wcc, m)
      <4>1. Same(cc, cc, m) /\ cc \in Int
        BY <1>1, SameIsEquivalence
      <4> QED BY <1>1, <3>4, <3>5, <4>1, SameProduct
    <3>7. Same(w1c, wcc, m)
      <4>1. Same(c, c, m) /\ c \in Int
        BY <1>1, SameIsEquivalence
      <4>2. Same(w1, wc, m)
        BY <3>3, <3>5
      <4> QED BY <1>1, <3>5, <4>1, <4>2, SameProduct
    <3>8. Same(v1, w2, m)
      <4>1. Same(v1, vcc, m) /\ Same(w2, w1c, m)
        BY <3>2, <3>3, <3>5
      <4>2. Same(v1, wcc, m)
        BY <1>1, <3>6, <4>1, SameIsEquivalence
      <4>3. Same(w2, wcc, m)
        BY <1>1, <3>7, <4>1, SameIsEquivalence
      <4>4. Same(wcc, w2, m)
        BY <1>1, <4>3, SameIsEquivalence
      <4> QED BY <1>1, <4>2, <4>4, SameIsEquivalence
    <3> QED BY <3>2, <3>3, <3>8 DEF Q
  <2> QED BY <2>1
<1>4. Q = Nat
  <2>1. Q \in SUBSET Nat
    OBVIOUS
  <2> HIDE DEF Q
  <2> QED BY <1>2, <1>3, <2>1, Inductive
<1> QED BY <1>4

(* The bit of a number that a halving takes off.                            *)
LEMMA NextBit ==
  ASSUME NEW v \in Nat, NEW d \in Nat, d > 0, NEW bit \in 0..1, bit = (v \div d) % 2
  PROVE  v % (2 * d) = (v % d) + d * bit
<1>1. PICK qu \in Int, rm \in 0..(d - 1) : qu = v \div d /\ rm = v % d /\ v = d * qu + rm
  BY DivMod
<1>2. PICK h \in Int : qu = 2 * h + bit
  <2>1. qu = 2 * (qu \div 2) + (qu % 2) /\ qu \div 2 \in Int
    BY DivMod
  <2>2. qu % 2 = bit
    BY <1>1
  <2> QED BY <2>1, <2>2
<1>3. PICK d2 \in Nat, s \in Nat : d2 = 2 * d /\ s = rm + d * bit /\ s \in 0..(d2 - 1)
  <2>1. bit = 0 \/ bit = 1
    OBVIOUS
  <2>2. CASE bit = 0
    BY <1>1, <2>2
  <2>3. CASE bit = 1
    BY <1>1, <2>3
  <2> QED BY <2>1, <2>2, <2>3
<1>4. v = d2 * h + s
  <2>1. d * (2 * h + bit) = (2 * d) * h + d * bit
    OBVIOUS
  <2> QED BY <1>1, <1>2, <1>3, <2>1
<1>5. v % d2 = s
  BY <1>3, <1>4, DivModIs
<1> QED BY <1>1, <1>3, <1>5

(* Square and multiply computes the power.                                  *)
LEMMA PowModIsPower ==
  ASSUME NEW m \in Moduli, NEW base \in Nat, NEW exp \in Nat, exp < Word
  PROVE  PowMod(base, exp, m) = PowerOf(base, m)[exp]
<1>1. m \in Nat /\ m > 0 /\ 2 < m /\ Word \in Nat /\ 2 * HalfBits \in Nat /\ TwoTo[2 * HalfBits] = Word
  BY WordFacts, WidthType
<1> DEFINE Ssquare(f, k) == IF k = 0 THEN base ELSE MulMod(f[k - 1], f[k - 1], m)
           Psquare(n) == \E f : f = [k \in 0..n |-> Ssquare(f, k)]
           Qsquare == {n \in Nat : Psquare(n)}
<1>square1. 0 \in Qsquare
  <2> DEFINE f == [k \in 0..0 |-> base]
  <2>1. f = [k \in 0..0 |-> Ssquare(f, k)]
    OBVIOUS
  <2> QED BY <2>1
<1>square2. ASSUME NEW n \in Qsquare PROVE n + 1 \in Qsquare
  <2> HIDE DEF Ssquare
  <2>1. PICK f : f = [k \in 0..n |-> Ssquare(f, k)]
    OBVIOUS
  <2> DEFINE f1 == [k \in 0..(n + 1) |-> Ssquare(f, k)]
  <2>2. \A k \in 0..n : f1[k] = f[k]
    BY <2>1
  <2>3. ASSUME NEW k \in 0..(n + 1) PROVE Ssquare(f, k) = Ssquare(f1, k)
    <3>1. k # 0 => k - 1 \in 0..n
      OBVIOUS
    <3> HIDE DEF f1
    <3>2. k # 0 => f1[k - 1] = f[k - 1]
      BY <2>2, <3>1
    <3> QED BY <3>2 DEF Ssquare
  <2>4. f1 = [k \in 0..(n + 1) |-> Ssquare(f1, k)]
    BY <2>3
  <2> HIDE DEF f1
  <2>5. n + 1 \in Nat /\ Psquare(n + 1)
    BY <2>4
  <2> HIDE DEF Psquare
  <2> QED BY <2>5
<1>square3. Psquare(2 * HalfBits)
  <2>1. Qsquare \in SUBSET Nat
    OBVIOUS
  <2>2. Qsquare = Nat
    <3> HIDE DEF Qsquare
    <3> QED BY <1>square1, <1>square2, <2>1, Inductive
  <2> HIDE DEF Psquare
  <2> QED BY <2>2, WidthType
<1> DEFINE square == CHOOSE f : f = [k \in 0..(2 * HalfBits) |-> Ssquare(f, k)]
<1>square4. square = [k \in 0..(2 * HalfBits) |-> Ssquare(square, k)]
  BY <1>square3
<1> HIDE DEF Psquare, Qsquare
<1> DEFINE Sres(f, k) == IF k = 0 THEN 1 ELSE IF (exp \div TwoTo[k - 1]) % 2 = 1 THEN MulMod(f[k - 1], square[k - 1], m) ELSE f[k - 1]
           Pres(n) == \E f : f = [k \in 0..n |-> Sres(f, k)]
           Qres == {n \in Nat : Pres(n)}
<1>res1. 0 \in Qres
  <2> DEFINE f == [k \in 0..0 |-> 1]
  <2>1. f = [k \in 0..0 |-> Sres(f, k)]
    OBVIOUS
  <2> QED BY <2>1
<1>res2. ASSUME NEW n \in Qres PROVE n + 1 \in Qres
  <2> HIDE DEF Sres
  <2>1. PICK f : f = [k \in 0..n |-> Sres(f, k)]
    OBVIOUS
  <2> DEFINE f1 == [k \in 0..(n + 1) |-> Sres(f, k)]
  <2>2. \A k \in 0..n : f1[k] = f[k]
    BY <2>1
  <2>3. ASSUME NEW k \in 0..(n + 1) PROVE Sres(f, k) = Sres(f1, k)
    <3>1. k # 0 => k - 1 \in 0..n
      OBVIOUS
    <3> HIDE DEF f1
    <3>2. k # 0 => f1[k - 1] = f[k - 1]
      BY <2>2, <3>1
    <3> QED BY <3>2 DEF Sres
  <2>4. f1 = [k \in 0..(n + 1) |-> Sres(f1, k)]
    BY <2>3
  <2> HIDE DEF f1
  <2>5. n + 1 \in Nat /\ Pres(n + 1)
    BY <2>4
  <2> HIDE DEF Pres
  <2> QED BY <2>5
<1>res3. Pres(2 * HalfBits)
  <2>1. Qres \in SUBSET Nat
    OBVIOUS
  <2>2. Qres = Nat
    <3> HIDE DEF Qres
    <3> QED BY <1>res1, <1>res2, <2>1, Inductive
  <2> HIDE DEF Pres
  <2> QED BY <2>2, WidthType
<1> DEFINE res == CHOOSE f : f = [k \in 0..(2 * HalfBits) |-> Sres(f, k)]
<1>res4. res = [k \in 0..(2 * HalfBits) |-> Sres(res, k)]
  BY <1>res3
<1> HIDE DEF Pres, Qres
<1>2. PowMod(base, exp, m) = res[2 * HalfBits]
  BY DEF PowMod
<1> HIDE DEF square, res
<1>3. /\ square[0] = base
      /\ \A k \in 1..(2 * HalfBits) : square[k] = (square[k - 1] * square[k - 1]) % m
  BY <1>1, <1>square4 DEF MulMod
<1>4. /\ res[0] = 1
      /\ \A k \in 1..(2 * HalfBits) :
            res[k] = IF (exp \div TwoTo[k - 1]) % 2 = 1 THEN (res[k - 1] * square[k - 1]) % m ELSE res[k - 1]
  BY <1>1, <1>res4 DEF MulMod
<1> HIDE DEF Ssquare, Sres
<1> DEFINE p == PowerOf(base, m)
<1>5. ASSUME NEW n \in Nat, n <= 2 * HalfBits
      PROVE  TwoTo[n] \in Nat /\ TwoTo[n] > 0 /\ TwoTo[n] <= Word
  <2>1. n \in 0..(2 * HalfBits) /\ 2 * HalfBits - n \in 0..(2 * HalfBits) /\ 2 * HalfBits - n \in Nat
        /\ n + (2 * HalfBits - n) = 2 * HalfBits
    BY <1>1, <1>5
  <2>2. PICK v \in Nat, w \in Nat : v = TwoTo[n] /\ w = TwoTo[2 * HalfBits - n] /\ v > 0 /\ w > 0
    BY <2>1, TwoToFacts
  <2>3. Word = v * w
    BY <1>1, <2>1, <2>2, TwoToSum
  <2>4. v <= v * w
    BY <2>2
  <2> QED BY <2>2, <2>3, <2>4
<1> DEFINE O == {n \in Nat : n <= 2 * HalfBits => square[n] \in Nat /\ Same(square[n], p[TwoTo[n]], m)}
<1>6. 0 \in O
  <2>1. TwoTo[0] = 1 /\ 0 + 1 = 1 /\ 1 <= Word
    BY <1>1, TwoToFacts
  <2>2. p[1] = (1 * base) % m
    BY <2>1, PowerUnfolds, NextPower
  <2>3. p[1] = base % m
    BY <2>2
  <2>4. PICK v \in Int : v = p[1]
    <3>1. base % m \in Int
      BY <1>1, ResidueIsIdempotent
    <3> QED BY <2>3, <3>1
  <2>5. Same(v, base, m) /\ base \in Int
    BY <1>1, <2>3, <2>4, SameAsResidue
  <2>6. Same(base, v, m)
    BY <1>1, <2>5, SameIsEquivalence
  <2> QED BY <1>3, <2>1, <2>4, <2>6
<1>7. ASSUME NEW n \in O PROVE n + 1 \in O
  <2>1. CASE n + 1 <= 2 * HalfBits
    <3>1. n \in Nat /\ n <= 2 * HalfBits /\ n + 1 \in 1..(2 * HalfBits) /\ (n + 1) - 1 = n
      BY <1>1, <2>1
    <3>2. PICK e \in Nat : e = TwoTo[n] /\ TwoTo[n + 1] = e + e /\ e + e <= Word
      <4>1. TwoTo[n] \in Nat /\ TwoTo[n + 1] = 2 * TwoTo[n] /\ TwoTo[n + 1] <= Word
        BY <1>5, <2>1, <3>1, TwoToFacts
      <4> QED BY <4>1
    <3>3. PICK v \in Nat, pe \in Nat, p2 \in Nat, vv \in Nat, pp \in Nat :
             v = square[n] /\ pe = p[e] /\ p2 = p[e + e] /\ vv = v * v /\ pp = pe * pe
      <4>1. square[n] \in Nat
        BY <3>1
      <4>2. p[e] \in Nat /\ p[e + e] \in Nat
        <5>1. e \in 0..Word /\ e + e \in 0..Word
          BY <1>1, <3>2
        <5> QED BY <1>1, <5>1, PowerType
      <4> HIDE DEF p
      <4> QED BY <4>1, <4>2
    <3>4. Same(v, pe, m)
      BY <3>1, <3>2, <3>3
    <3>5. Same(vv, pp, m)
      <4>1. v \in Int /\ pe \in Int
        OBVIOUS
      <4> QED BY <1>1, <3>3, <3>4, <4>1, SameProduct
    <3>6. Same(p2, pp, m)
      BY <3>2, <3>3, PowerSum
    <3>7. square[n + 1] = vv % m
      BY <1>3, <3>1, <3>3
    <3>8. PICK s \in Int : s = vv % m /\ s \in Nat /\ Same(s, vv, m)
      <4>1. vv \in Int
        OBVIOUS
      <4>2. vv % m \in Nat /\ Same(vv % m, vv, m)
        <5>1. PICK s \in 0..(m - 1) : s = vv % m
          BY <1>1, <4>1, DivMod
        <5>2. Same(s, vv, m)
          BY <1>1, <4>1, <5>1, SameAsResidue
        <5> QED BY <5>1, <5>2
      <4> QED BY <4>2
    <3>9. Same(s, p2, m)
      <4>1. vv \in Int /\ pp \in Int /\ p2 \in Int
        OBVIOUS
      <4>2. Same(s, pp, m)
        BY <1>1, <3>5, <3>8, <4>1, SameIsEquivalence
      <4>3. Same(pp, p2, m)
        BY <1>1, <3>6, <4>1, SameIsEquivalence
      <4> QED BY <1>1, <4>1, <4>2, <4>3, SameIsEquivalence
    <3> HIDE DEF p
    <3>10. square[n + 1] \in Nat /\ Same(square[n + 1], p[TwoTo[n + 1]], m)
      BY <3>2, <3>3, <3>7, <3>8, <3>9
    <3> QED BY <3>10
  <2> QED BY <2>1
<1>8. O = Nat
  <2>1. O \in SUBSET Nat
    OBVIOUS
  <2> HIDE DEF O
  <2> QED BY <1>6, <1>7, <2>1, Inductive
<1>9. \A n \in 0..(2 * HalfBits) : square[n] \in Nat /\ Same(square[n], p[TwoTo[n]], m)
  BY <1>1, <1>8
<1> HIDE DEF O
<1> DEFINE T == {n \in Nat : n <= 2 * HalfBits => res[n] \in 0..(m - 1) /\ Same(res[n], p[exp % TwoTo[n]], m)}
<1>10. 0 \in T
  <2>1. exp % 1 = 0
    <3>1. exp = 1 * exp + 0 /\ 0 \in 0..(1 - 1) /\ exp \in Int
      OBVIOUS
    <3> QED BY <3>1, DivModIs
  <2>2. p[0] = 1 /\ TwoTo[0] = 1 /\ 1 \in Int
    BY PowerUnfolds, TwoToFacts
  <2>3. Same(1, 1, m)
    BY <1>1, <2>2, SameIsEquivalence
  <2> HIDE DEF p
  <2> QED BY <1>1, <1>4, <2>1, <2>2, <2>3
<1>11. ASSUME NEW n \in T PROVE n + 1 \in T
  <2>1. CASE n + 1 <= 2 * HalfBits
    <3>1. n \in Nat /\ n <= 2 * HalfBits /\ n + 1 \in 1..(2 * HalfBits) /\ (n + 1) - 1 = n /\ n \in 0..(2 * HalfBits)
      BY <1>1, <2>1
    <3>2. PICK d \in Nat, d2 \in Nat : d = TwoTo[n] /\ d2 = TwoTo[n + 1] /\ d2 = 2 * d /\ d2 <= Word /\ d > 0
      <4>1. TwoTo[n] \in Nat /\ TwoTo[n] > 0 /\ TwoTo[n + 1] = 2 * TwoTo[n] /\ TwoTo[n + 1] <= Word
        BY <1>5, <2>1, <3>1, TwoToFacts
      <4> QED BY <4>1
    <3>3. PICK bit \in 0..1 : bit = (exp \div d) % 2
      <4>1. exp \div d \in Int
        BY <3>2, DivMod
      <4>2. (exp \div d) % 2 \in 0..(2 - 1)
        BY <4>1, DivMod
      <4> QED BY <4>2
    <3>4. PICK low \in Nat, next \in Nat : low = exp % d /\ next = exp % d2 /\ next = low + d * bit /\ low < d
      <4>1. exp % d \in 0..(d - 1) /\ exp % d2 = (exp % d) + d * bit
        <5>1. exp % d \in 0..(d - 1)
          BY <3>2, DivMod
        <5>2. exp % (2 * d) = (exp % d) + d * bit
          BY <3>2, <3>3, NextBit
        <5> QED BY <3>2, <5>1, <5>2
      <4>2. (exp % d) + d * bit \in Nat
        <5>1. bit = 0 \/ bit = 1
          OBVIOUS
        <5> QED BY <3>2, <4>1, <5>1
      <4> QED BY <3>2, <4>1, <4>2
    <3>5. PICK v \in 0..(m - 1) : v = res[n] /\ Same(v, p[low], m)
      BY <3>1, <3>2, <3>4
    <3>6. CASE bit = 0
      <4>1. res[n + 1] = res[n]
        BY <1>4, <3>1, <3>2, <3>3, <3>6
      <4>2. next = low
        BY <3>2, <3>4, <3>6
      <4> HIDE DEF p
      <4>3. res[n + 1] \in 0..(m - 1) /\ Same(res[n + 1], p[exp % TwoTo[n + 1]], m)
        BY <3>2, <3>4, <3>5, <4>1, <4>2
      <4> QED BY <4>3
    <3>7. CASE bit = 1
      <4>1. res[n + 1] = (res[n] * square[n]) % m
        BY <1>4, <3>1, <3>2, <3>3, <3>7
      <4>2. next = low + d /\ low + d <= Word /\ d <= Word /\ low <= Word
        BY <1>1, <3>2, <3>4, <3>7
      <4>3. PICK sq \in Nat, pl \in Nat, pd \in Nat, pn \in Nat :
               sq = square[n] /\ pl = p[low] /\ pd = p[d] /\ pn = p[low + d]
        <5>1. low \in 0..Word /\ d \in 0..Word /\ low + d \in 0..Word
          BY <1>1, <4>2
        <5>2. p[low] \in Nat /\ p[d] \in Nat /\ p[low + d] \in Nat
          BY <1>1, <5>1, PowerType
        <5>3. square[n] \in Nat
          BY <1>9, <3>1
        <5> HIDE DEF p
        <5> QED BY <5>2, <5>3
      <4>4. PICK vs \in Int, pp \in Int : vs = v * sq /\ pp = pl * pd
        <5>1. v \in Int
          BY <1>1
        <5> QED BY <5>1
      <4>5. Same(pn, pp, m)
        BY <4>2, <4>3, <4>4, PowerSum
      <4>6. Same(vs, pp, m)
        <5>1. Same(sq, pd, m)
          BY <1>9, <3>1, <3>2, <4>3
        <5>2. Same(v, pl, m)
          BY <3>5, <4>3
        <5>3. v \in Int /\ sq \in Int /\ pl \in Int /\ pd \in Int
          BY <1>1
        <5> QED BY <1>1, <4>4, <5>1, <5>2, <5>3, SameProduct
      <4>7. PICK s \in 0..(m - 1) : s = vs % m
        BY <1>1, DivMod
      <4>8. Same(s, pn, m)
        <5>1. Same(s, vs, m) /\ s \in Int
          BY <1>1, <4>7, SameAsResidue
        <5>2. pn \in Int
          OBVIOUS
        <5>3. Same(s, pp, m)
          BY <1>1, <4>6, <5>1, SameIsEquivalence
        <5>4. Same(pp, pn, m)
          BY <1>1, <4>5, <5>2, SameIsEquivalence
        <5> QED BY <1>1, <5>1, <5>2, <5>3, <5>4, SameIsEquivalence
      <4> HIDE DEF p
      <4>9. res[n + 1] \in 0..(m - 1) /\ Same(res[n + 1], p[exp % TwoTo[n + 1]], m)
        BY <3>2, <3>4, <3>5, <4>1, <4>2, <4>3, <4>4, <4>7, <4>8
      <4> QED BY <4>9
    <3>8. bit = 0 \/ bit = 1
      OBVIOUS
    <3> QED BY <3>6, <3>7, <3>8
  <2> QED BY <2>1
<1>12. T = Nat
  <2>1. T \in SUBSET Nat
    OBVIOUS
  <2> HIDE DEF T
  <2> QED BY <1>10, <1>11, <2>1, Inductive
<1>13. res[2 * HalfBits] \in 0..(m - 1) /\ Same(res[2 * HalfBits], p[exp % Word], m)
  BY <1>1, <1>12
<1>14. exp % Word = exp
  <2>1. exp = Word * 0 + exp /\ exp \in 0..(Word - 1) /\ 0 \in Int /\ Word > 0
    BY <1>1
  <2> QED BY <1>1, <2>1, DivModIs
<1>15. PICK v \in 0..(m - 1), w \in 0..(m - 1) : v = res[2 * HalfBits] /\ w = p[exp]
  <2>1. exp \in 0..Word
    BY <1>1
  <2>2. p[exp] \in 0..(m - 1)
    BY <2>1, PowerType
  <2> HIDE DEF p
  <2> QED BY <1>13, <2>2
<1>16. Same(v, w, m)
  BY <1>13, <1>14, <1>15
<1>17. v % m = v /\ w % m = w /\ v \in Int /\ w \in Int
  BY <1>1, ResidueIsIdempotent
<1>18. v = w
  BY <1>1, <1>16, <1>17, SameIsResidue
<1> QED BY <1>2, <1>15, <1>18

(* An exponent one higher multiplies once more.                             *)
LEMMA PowerStep ==
  ASSUME NEW m \in Moduli, NEW a \in Nat, NEW e \in Nat, e > 0, e <= Word, NEW d \in Nat, d = e - 1
  PROVE  /\ PowerOf(a, m)[e] = (a * PowerOf(a, m)[d]) % m
         /\ PowerOf(a, m)[d] \in 0..(m - 1)
         /\ a % m = 0 => PowerOf(a, m)[e] = 0
<1>1. d + 1 = e /\ d + 1 <= Word /\ d \in 0..Word /\ m \in Nat /\ m > 0
  BY WordFacts
<1>2. PICK v \in 0..(m - 1) : v = PowerOf(a, m)[d]
  BY <1>1, PowerType
<1>3. PowerOf(a, m)[e] = (v * a) % m
  <2>1. PowerOf(a, m)[d + 1] = (PowerOf(a, m)[d] * a) % m
    BY <1>1, NextPower
  <2> QED BY <1>1, <1>2, <2>1
<1>4. v * a = a * v /\ v \in Nat
  BY <1>1, <1>2
<1>5. ASSUME a % m = 0 PROVE (a * v) % m = 0
  <2>1. Same(a, 0, m) /\ 0 % m = 0 /\ 0 \in Int /\ a \in Int /\ v \in Int
    <3>1. PICK nil \in Int : nil = 0
      OBVIOUS
    <3>2. nil % m = 0
      BY <1>1, <3>1, ResidueIsIdempotent
    <3>3. a \in Int /\ a % m = nil % m
      BY <1>5, <3>2
    <3>4. Same(a, nil, m)
      BY <1>1, <3>3, SameIsResidue
    <3> QED BY <1>4, <3>1, <3>2, <3>4
  <2>2. Same(v, v, m)
    BY <1>1, <2>1, SameIsEquivalence
  <2>3. PICK av \in Int, ov \in Int : av = a * v /\ ov = 0 * v /\ ov = 0
    BY <2>1
  <2>4. Same(av, ov, m)
    BY <1>1, <2>1, <2>2, <2>3, SameProduct
  <2>5. av % m = ov % m
    BY <1>1, <2>4, SameIsResidue
  <2> QED BY <2>1, <2>3, <2>5
<1> QED BY <1>2, <1>3, <1>4, <1>5

(* An inverse is one, for every word that has one.                          *)
LEMMA InverseIsExact ==
  ASSUME NEW m \in Moduli, NEW a \in U256, NEW out, out = Invert(a, m)
  PROVE  out \in Nat /\ out < m /\ (a * out) % m = (IF a % m = 0 THEN 0 ELSE 1)
<1>1. m \in Nat /\ m > 2 /\ 2 * m < Word /\ Word \in Nat /\ a \in Nat
  BY WordFacts DEF U256
<1>2. CASE a = 0
  <2>1. out = 0 /\ a * 0 = 0 /\ 0 % m = 0
    <3>1. 0 % m = 0
      BY <1>1, ResidueIsIdempotent
    <3> QED BY <1>2, <3>1 DEF Invert
  <2> QED BY <1>1, <1>2, <2>1
<1>3. CASE a # 0
  <2>1. PICK e \in Nat, d \in Nat : e = m - 1 /\ d = m - 2 /\ d = e - 1 /\ e > 0 /\ e <= Word /\ d < Word
    BY <1>1
  <2>2. out = PowerOf(a, m)[d]
    <3>1. out = PowMod(a, d, m)
      BY <1>3, <2>1 DEF Invert
    <3> QED BY <1>1, <2>1, <3>1, PowModIsPower
  <2>3. /\ PowerOf(a, m)[e] = (a * out) % m
        /\ out \in 0..(m - 1)
        /\ a % m = 0 => PowerOf(a, m)[e] = 0
    BY <1>1, <2>1, <2>2, PowerStep
  <2>4. ASSUME a % m # 0 PROVE PowerOf(a, m)[e] = 1
    <3>1. PICK c \in 0..(m - 1) : c = a % m
      BY <1>1, DivMod
    <3>2. c \in 1..(m - 1) /\ c \in Nat
      BY <1>1, <2>4, <3>1
    <3>3. c % m = a % m
      BY <1>1, <3>1, ResidueIsIdempotent
    <3>4. PowerOf(a, m)[e] = PowerOf(c, m)[e]
      BY <1>1, <2>1, <3>2, <3>3, PowerOfSame
    <3>5. PowerOf(c, m)[m - 1] = 1
      BY <3>2, PrimeAssumption
    <3> QED BY <2>1, <3>4, <3>5
  <2> QED BY <1>1, <2>3, <2>4
<1> QED BY <1>2, <1>3

(* A square root squares to its argument, if that is a square.              *)
LEMMA RootIsExact ==
  ASSUME NEW a \in U256, NEW c \in U256, NEW m, m = FQ_MODULUS, (c * c) % m = a % m,
         NEW out, out = SqrtFq(a)
  PROVE  (out * out) % m = a % m
<1>1. m \in Moduli /\ m \in Nat /\ m > 2 /\ 2 * m < Word /\ Word \in Nat /\ a \in Nat /\ c \in Nat /\ m > 0
  BY WordFacts DEF U256, Moduli
<1>2. PICK e \in Nat : e = (m + 1) \div 4 /\ 4 * e = m + 1
  <2>1. m = 4 * (m \div 4) + (m % 4) /\ m \div 4 \in Int
    BY <1>1, DivMod
  <2>2. PICK h \in Int : h = m \div 4 /\ m = 4 * h + 3
    BY <2>1, FieldAssumption
  <2>3. m + 1 = 4 * (h + 1) + 0 /\ h + 1 \in Int /\ 0 \in 0..(4 - 1) /\ 4 \in Nat /\ m + 1 \in Int
    BY <1>1, <2>2
  <2>4. (m + 1) \div 4 = h + 1
    BY <2>3, DivModIs
  <2> QED BY <1>1, <2>2, <2>4
<1>3. e < Word /\ 2 * e <= Word /\ 4 * e <= Word /\ e + e <= Word /\ e + e \in Nat
  BY <1>1, <1>2
<1>4. out = PowerOf(a, m)[e]
  <2>1. out = PowMod(a, e, m)
    BY <1>2 DEF SqrtFq
  <2> QED BY <1>1, <1>3, <2>1, PowModIsPower
<1>5. PICK cc \in Nat : cc = c * c
  BY <1>1
<1>6. out \in 0..(m - 1) /\ out = PowerOf(cc, m)[e]
  <2>1. e \in 0..Word /\ e <= Word
    BY <1>1, <1>3
  <2>2. out \in 0..(m - 1)
    BY <1>1, <1>4, <2>1, PowerType
  <2>3. a % m = cc % m
    BY <1>5
  <2> QED BY <1>1, <1>4, <2>1, <2>2, <2>3, PowerOfSame
<1>7. PICK oo \in Int, r2 \in Int, r4 \in Int :
         oo = out * out /\ r2 = PowerOf(cc, m)[e + e] /\ r4 = PowerOf(c, m)[4 * e]
  <2>1. PowerOf(cc, m)[e + e] \in Int /\ PowerOf(c, m)[4 * e] \in Int
    <3>1. e + e \in 0..Word /\ 4 * e \in 0..Word
      BY <1>1, <1>3
    <3> QED BY <1>1, <3>1, PowerType
  <2> QED BY <1>1, <1>6, <2>1
<1>8. Same(r2, oo, m)
  BY <1>1, <1>3, <1>5, <1>6, <1>7, PowerSum
<1>9. Same(r2, r4, m)
  <2>1. PICK ee \in Nat : ee = e + e /\ 2 * ee = 4 * e /\ 2 * ee <= Word
    BY <1>3
  <2>2. Same(PowerOf(cc, m)[ee], PowerOf(c, m)[2 * ee], m)
    BY <1>1, <1>5, <2>1, PowerOfSquare
  <2> QED BY <1>7, <2>1, <2>2
<1>10. Same(r4, cc, m)
  <2>1. PICK d \in Nat : d = m /\ d + 1 = 4 * e /\ d + 1 <= Word /\ d <= Word /\ d > 0
    BY <1>1, <1>2
  <2>2. PICK pd \in Nat, pdc \in Int : pd = PowerOf(c, m)[d] /\ pdc = pd * c /\ Same(r4, pdc, m)
    <3>1. PowerOf(c, m)[d] \in Nat /\ Same(PowerOf(c, m)[d + 1], PowerOf(c, m)[d] * c, m)
      BY <1>1, <2>1, NextPower
    <3> QED BY <1>1, <1>7, <2>1, <3>1
  <2>3. pd % m = c % m
    <3>1. PICK d1 \in Nat, pd1 \in 0..(m - 1) : /\ d1 = d - 1 /\ pd1 = PowerOf(c, m)[d1]
                                /\ pd = (c * pd1) % m /\ (c % m = 0 => pd = 0)
      <4>1. PICK d1 \in Nat : d1 = d - 1
        BY <2>1
      <4>2. /\ PowerOf(c, m)[d] = (c * PowerOf(c, m)[d1]) % m
            /\ PowerOf(c, m)[d1] \in 0..(m - 1)
            /\ c % m = 0 => PowerOf(c, m)[d] = 0
        BY <1>1, <2>1, <4>1, PowerStep
      <4>3. PICK pd1 \in 0..(m - 1) : pd1 = PowerOf(c, m)[d1]
        BY <4>2
      <4> QED BY <2>2, <4>1, <4>2, <4>3
    <3>2. CASE c % m = 0
      BY <1>1, <3>1, <3>2, ResidueIsIdempotent
    <3>3. CASE c % m # 0
      <4>1. PICK c1 \in 0..(m - 1) : c1 = c % m
        BY <1>1, DivMod
      <4>2. c1 \in 1..(m - 1) /\ c1 \in Nat
        BY <1>1, <3>3, <4>1
      <4>3. c1 % m = c % m
        BY <1>1, <4>1, ResidueIsIdempotent
      <4>4. PowerOf(c, m)[d1] = PowerOf(c1, m)[d1]
        <5>1. d1 <= Word
          BY <1>1, <2>1, <3>1
        <5> QED BY <1>1, <4>2, <4>3, <5>1, PowerOfSame
      <4>5. PowerOf(c1, m)[m - 1] = 1
        BY <1>1, <4>2, PrimeAssumption
      <4>6. pd1 = 1
        BY <2>1, <3>1, <4>4, <4>5
      <4>7. pd = c % m
        BY <1>1, <3>1, <4>6
      <4> QED BY <1>1, <4>1, <4>3, <4>7
    <3> QED BY <3>2, <3>3
  <2>4. Same(pd, c, m)
    <3>1. pd \in Int /\ c \in Int
      BY <1>1
    <3> QED BY <1>1, <2>3, <3>1, SameIsResidue
  <2>5. Same(pdc, cc, m)
    <3>1. Same(c, c, m) /\ c \in Int /\ pd \in Int
      BY <1>1, SameIsEquivalence
    <3> QED BY <1>1, <1>5, <2>2, <2>4, <3>1, SameProduct
  <2>6. cc \in Int
    OBVIOUS
  <2> QED BY <1>1, <1>7, <2>2, <2>5, <2>6, SameIsEquivalence
<1>11. Same(oo, cc, m)
  <2>1. cc \in Int
    OBVIOUS
  <2>2. Same(oo, r2, m)
    BY <1>1, <1>7, <1>8, SameIsEquivalence
  <2>3. Same(oo, r4, m)
    BY <1>1, <1>7, <1>9, <2>2, SameIsEquivalence
  <2> QED BY <1>1, <1>7, <1>10, <2>1, <2>3, SameIsEquivalence
<1>12. oo % m = cc % m
  <2>1. cc \in Int
    OBVIOUS
  <2> QED BY <1>1, <1>7, <1>11, <2>1, SameIsResidue
<1> QED BY <1>5, <1>7, <1>12

-----------------------------------------------------------------------------
(* Every call of the fields is exact, whatever the word and the two primes. *)
THEOREM FieldCallsExact == FieldSpec => []FieldCallsAreExact
<1>1. FieldInit => FieldCallsAreExact
  BY DEF FieldInit, FieldCallsAreExact, NoFieldReply
<1>2. ASSUME FieldCallsAreExact, [FieldNext]_fieldReply PROVE FieldCallsAreExact'
  <2>0. FR_MODULUS \in Moduli /\ FQ_MODULUS \in Moduli
    BY DEF Moduli
  <2>1. ASSUME NEW a \in U256, NEW b \in U256, NEW m \in Moduli, Reply("add", a, b, m, AddMod(a, b, m))
        PROVE  FieldCallsAreExact'
    <3>1. PICK out : out = AddMod(a, b, m)
      OBVIOUS
    <3>2. fieldReply' = [call |-> "add", a |-> a, b |-> b, m |-> m, out |-> out]
      BY <2>1, <3>1 DEF Reply
    <3>3. /\ a < m /\ b < m => out = (a + b) % m
          /\ (out - (a + b)) % m = 0 <=> a + b < Word + m \/ Word % m = 0
      BY <3>1, SumIsExact
    <3> QED BY <3>2, <3>3 DEF FieldCallsAreExact
  <2>2. ASSUME NEW a \in U256, NEW b \in U256, NEW m \in Moduli, Reply("sub", a, b, m, SubMod(a, b, m))
        PROVE  FieldCallsAreExact'
    <3>1. PICK out : out = SubMod(a, b, m)
      OBVIOUS
    <3>2. fieldReply' = [call |-> "sub", a |-> a, b |-> b, m |-> m, out |-> out]
      BY <2>2, <3>1 DEF Reply
    <3>3. /\ a < m /\ b < m => out = (a - b) % m
          /\ (out - (a - b)) % m = 0 <=> b - a <= m \/ Word % m = 0
      BY <3>1, DifferenceIsExact
    <3> QED BY <3>2, <3>3 DEF FieldCallsAreExact
  <2>3. ASSUME NEW a \in U256, NEW b \in U256,
               Reply("mul_mod_legacy", a, b, FR_MODULUS, MulModNaive(a, b, FR_MODULUS))
        PROVE  FieldCallsAreExact'
    <3>1. PICK out : out = MulModNaive(a, b, FR_MODULUS)
      OBVIOUS
    <3>2. fieldReply' = [call |-> "mul_mod_legacy", a |-> a, b |-> b, m |-> FR_MODULUS, out |-> out]
      BY <2>3, <3>1 DEF Reply
    <3>3. out = (a * b) % FR_MODULUS
      BY <2>0, <3>1, ProductIsExact
    <3> QED BY <3>2, <3>3 DEF FieldCallsAreExact
  <2>4. ASSUME NEW a \in U256, NEW m \in Moduli, Reply("invert", a, 0, m, Invert(a, m))
        PROVE  FieldCallsAreExact'
    <3>1. PICK out : out = Invert(a, m)
      OBVIOUS
    <3>2. fieldReply' = [call |-> "invert", a |-> a, b |-> 0, m |-> m, out |-> out]
      BY <2>4, <3>1 DEF Reply
    <3>3. out < m /\ (a * out) % m = (IF a % m = 0 THEN 0 ELSE 1)
      BY <3>1, InverseIsExact
    <3> QED BY <3>2, <3>3 DEF FieldCallsAreExact
  <2>5. ASSUME NEW a \in U256, Reply("sqrt_fq", a, 0, FQ_MODULUS, SqrtFq(a))
        PROVE  FieldCallsAreExact'
    <3>1. PICK out : out = SqrtFq(a)
      OBVIOUS
    <3>2. fieldReply' = [call |-> "sqrt_fq", a |-> a, b |-> 0, m |-> FQ_MODULUS, out |-> out]
      BY <2>5, <3>1 DEF Reply
    <3>3. ASSUME NEW c \in U256, (c * c) % FQ_MODULUS = a % FQ_MODULUS
          PROVE  (out * out) % FQ_MODULUS = a % FQ_MODULUS
      BY <3>1, <3>3, RootIsExact
    <3> QED BY <3>2, <3>3 DEF FieldCallsAreExact
  <2>6. CASE FieldTake
    BY <2>6 DEF FieldTake, FieldCallsAreExact, NoFieldReply
  <2>7. CASE UNCHANGED fieldReply
    BY <1>2, <2>7 DEF FieldCallsAreExact
  <2> QED BY <1>2, <2>1, <2>2, <2>3, <2>4, <2>5, <2>6, <2>7 DEF FieldNext
<1> QED BY <1>1, <1>2, PTL DEF FieldSpec

-----------------------------------------------------------------------------
(* Recursion and sums.                                                      *)

(* f starts with v0, and every further value follows by its step.            *)
Recurs(f, V, v0, n, G) ==
    /\ f \in [0..n -> V]
    /\ f[0] = v0 /\ \A k \in 1..n : f[k] = G[k][f[k - 1]]

(* There is such a function.                                                *)
LEMMA Recursion ==
  ASSUME NEW V, NEW v0 \in V, NEW n \in Nat, NEW G \in [1..n -> [V -> V]]
  PROVE  \E f : Recurs(f, V, v0, n, G)
<1> DEFINE Step(f, k) == IF k = 0 THEN v0 ELSE G[k][f[k - 1]]
           P(e) == \E f \in [0..e -> V] : f = [k \in 0..e |-> Step(f, k)]
           Q == {e \in Nat : e <= n => P(e)}
<1>1. 0 \in Q
  <2> DEFINE f == [k \in 0..0 |-> v0]
  <2>1. f = [k \in 0..0 |-> Step(f, k)] /\ f \in [0..0 -> V]
    OBVIOUS
  <2> QED BY <2>1
<1>2. ASSUME NEW e \in Q PROVE e + 1 \in Q
  <2>1. SUFFICES ASSUME e + 1 <= n PROVE P(e + 1)
    <3>1. e + 1 \in Nat
      OBVIOUS
    <3> HIDE DEF P
    <3> QED BY <3>1
  <2> HIDE DEF Step
  <2>2. PICK f \in [0..e -> V] : f = [k \in 0..e |-> Step(f, k)]
    BY <2>1
  <2> DEFINE f1 == [k \in 0..(e + 1) |-> Step(f, k)]
  <2>3. \A k \in 0..e : f1[k] = f[k]
    BY <2>2
  <2>4. ASSUME NEW k \in 0..(e + 1) PROVE Step(f, k) = Step(f1, k) /\ Step(f, k) \in V
    <3>1. CASE k = 0
      BY <3>1 DEF Step
    <3>2. CASE k # 0
      <4>1. k - 1 \in 0..e /\ k \in 1..n
        BY <2>1, <3>2
      <4> HIDE DEF f1
      <4>2. f1[k - 1] = f[k - 1] /\ f[k - 1] \in V
        BY <2>2, <2>3, <4>1
      <4>3. G[k] \in [V -> V]
        BY <4>1
      <4>4. G[k][f[k - 1]] \in V
        BY <4>2, <4>3
      <4> QED BY <3>2, <4>2, <4>4 DEF Step
    <3> QED BY <3>1, <3>2
  <2>5. f1 = [k \in 0..(e + 1) |-> Step(f1, k)] /\ f1 \in [0..(e + 1) -> V]
    BY <2>4
  <2> HIDE DEF f1
  <2> QED BY <2>5
<1>3. P(n)
  <2>1. Q \in SUBSET Nat
    OBVIOUS
  <2>2. Q = Nat
    <3> HIDE DEF Q
    <3> QED BY <1>1, <1>2, <2>1, Inductive
  <2> HIDE DEF P
  <2> QED BY <2>2
<1>4. PICK f \in [0..n -> V] : f = [k \in 0..n |-> Step(f, k)]
  BY <1>3
<1>5. \A k \in 0..n : f[k] = Step(f, k)
  <2> HIDE DEF Step
  <2> QED BY <1>4
<1>6. f[0] = v0 /\ \A k \in 1..n : f[k] = G[k][f[k - 1]]
  BY <1>5
<1> QED BY <1>4, <1>6 DEF Recurs

(* A sum of integers unfolds from its end.                                  *)
LEMMA SumUnfolds ==
  ASSUME NEW n \in Nat, NEW h, \A k \in 1..n : h[k] \in Int
  PROVE  \E f \in [0..n -> Int] :
           /\ \A k \in 0..n : f[k] = SumOf(h, k)
           /\ f[0] = 0 /\ \A k \in 1..n : f[k] = f[k - 1] + h[k]
<1> DEFINE Step(f, k) == IF k = 0 THEN 0 ELSE f[k - 1] + h[k]
<1>1. ASSUME NEW e \in 0..n
      PROVE  \E f \in [0..e -> Int] : f = [k \in 0..e |-> Step(f, k)] /\ SumOf(h, e) = f[e]
  <2> DEFINE G == [k \in 1..e |-> [v \in Int |-> v + h[k]]]
  <2>1. G \in [1..e -> [Int -> Int]] /\ 0 \in Int /\ e \in Nat
    OBVIOUS
  <2>2. PICK f0 : Recurs(f0, Int, 0, e, G)
    <3> HIDE DEF G
    <3> QED BY <2>1, Recursion
  <2>3. ASSUME NEW k \in 0..e PROVE f0[k] = Step(f0, k) /\ f0 \in [0..e -> Int]
    <3>1. f0 \in [0..e -> Int] /\ f0[0] = 0 /\ (k # 0 => f0[k] = G[k][f0[k - 1]])
      <4> HIDE DEF G
      <4> QED BY <2>2 DEF Recurs
    <3>2. k # 0 => k - 1 \in 0..e /\ k \in 1..e
      OBVIOUS
    <3>3. k # 0 => f0[k - 1] \in Int /\ G[k] = [v \in Int |-> v + h[k]]
      BY <3>1, <3>2
    <3> QED BY <3>1, <3>3
  <2> HIDE DEF G
  <2>4. f0 = [k \in 0..e |-> Step(f0, k)]
    <3> HIDE DEF Step
    <3>1. f0 \in [0..e -> Int]
      <4>1. 0 \in 0..e
        OBVIOUS
      <4> QED BY <2>3, <4>1
    <3>2. f0 = [k \in 0..e |-> f0[k]]
      BY <3>1
    <3> QED BY <2>3, <3>2
  <2> DEFINE s == CHOOSE s : s = [k \in 0..e |-> Step(s, k)]
  <2>5. s = [k \in 0..e |-> Step(s, k)]
    <3> HIDE DEF Step
    <3> QED BY <2>4
  <2>6. SumOf(h, e) = s[e]
    BY DEF SumOf
  <2> HIDE DEF s
  <2>7. \A k \in 0..e : s[k] = Step(s, k)
    BY <2>5
  <2> DEFINE Q == {k \in Nat : k <= e => s[k] \in Int}
  <2>8. ASSUME NEW k \in Q PROVE k + 1 \in Q
    <3>1. CASE k + 1 <= e
      <4>1. k + 1 \in 0..e /\ (k + 1) - 1 = k /\ k + 1 # 0 /\ k + 1 \in 1..n /\ s[k] \in Int
        BY <3>1
      <4>2. s[k + 1] = s[k] + h[k + 1]
        BY <2>7, <4>1
      <4> QED BY <4>1, <4>2
    <3> QED BY <3>1
  <2>9. Q = Nat
    <3>1. Q \in SUBSET Nat /\ 0 \in Q
      BY <2>7
    <3> HIDE DEF Q
    <3> QED BY <2>8, <3>1, Inductive
  <2>10. s \in [0..e -> Int]
    <3>1. \A k \in 0..e : s[k] \in Int
      BY <2>9
    <3>2. s = [k \in 0..e |-> s[k]]
      BY <2>5
    <3> QED BY <3>1, <3>2
  <2> HIDE DEF Step
  <2> QED BY <2>5, <2>6, <2>10
<1>2. PICK f \in [0..n -> Int] : f = [k \in 0..n |-> Step(f, k)] /\ SumOf(h, n) = f[n]
  <2> HIDE DEF Step
  <2>1. n \in 0..n
    OBVIOUS
  <2> QED BY <1>1, <2>1
<1>3. f[0] = 0 /\ \A k \in 1..n : f[k] = f[k - 1] + h[k]
  <2>1. \A k \in 0..n : f[k] = Step(f, k)
    <3> HIDE DEF Step
    <3> QED BY <1>2
  <2>2. \A k \in 1..n : k \in 0..n /\ k # 0
    OBVIOUS
  <2> QED BY <2>1, <2>2
<1>4. ASSUME NEW e \in 0..n PROVE f[e] = SumOf(h, e)
  <2>1. PICK d \in [0..e -> Int] : d = [k \in 0..e |-> Step(d, k)] /\ SumOf(h, e) = d[e]
    <3> HIDE DEF Step
    <3> QED BY <1>1
  <2>2. \A k \in 0..e : d[k] = Step(d, k)
    <3> HIDE DEF Step
    <3> QED BY <2>1
  <2> DEFINE Q == {k \in Nat : k <= e => d[k] = f[k]}
  <2>3. 0 \in Q
    BY <1>3, <2>2
  <2>4. ASSUME NEW k \in Q PROVE k + 1 \in Q
    <3>1. CASE k + 1 <= e
      <4>1. k + 1 \in 1..n /\ k + 1 \in 0..e /\ k + 1 # 0 /\ (k + 1) - 1 = k
        BY <3>1
      <4>2. d[k + 1] = d[k] + h[k + 1] /\ f[k + 1] = f[k] + h[k + 1] /\ d[k] = f[k]
        BY <1>3, <2>2, <3>1, <4>1
      <4> QED BY <4>2
    <3> QED BY <3>1
  <2>5. Q = Nat
    <3>1. Q \in SUBSET Nat
      OBVIOUS
    <3> HIDE DEF Q
    <3> QED BY <2>3, <2>4, <3>1, Inductive
  <2>6. e \in Nat /\ e <= e
    OBVIOUS
  <2> QED BY <2>1, <2>5, <2>6
<1> QED BY <1>3, <1>4

(* Its recurrence.                                                          *)
LEMMA SumStep ==
  ASSUME NEW n \in Nat, NEW h, \A k \in 1..n : h[k] \in Int
  PROVE  /\ SumOf(h, n) \in Int /\ SumOf(h, 0) = 0
         /\ n > 0 => SumOf(h, n) = SumOf(h, n - 1) + h[n]
<1>1. PICK f \in [0..n -> Int] :
           /\ \A k \in 0..n : f[k] = SumOf(h, k)
           /\ f[0] = 0 /\ \A k \in 1..n : f[k] = f[k - 1] + h[k]
  BY SumUnfolds
<1>2. 0 \in 0..n /\ n \in 0..n /\ (n > 0 => n - 1 \in 0..n /\ n \in 1..n)
  OBVIOUS
<1> QED BY <1>1, <1>2

(* A linear combination of sums, up to a multiple of m, is the sum of the   *)
(* combinations.                                                            *)
LEMMA SumIsLinear ==
  ASSUME NEW m \in Nat, NEW n \in Nat, NEW a \in Int, NEW b \in Int, NEW h, NEW f, NEW g,
         \A k \in 1..n : /\ h[k] \in Int /\ f[k] \in Int /\ g[k] \in Int
                         /\ Same(h[k], a * f[k] + b * g[k], m)
  PROVE  Same(SumOf(h, n), a * SumOf(f, n) + b * SumOf(g, n), m)
<1> DEFINE Q == {e \in Nat : e <= n => Same(SumOf(h, e), a * SumOf(f, e) + b * SumOf(g, e), m)}
<1>1. 0 \in Q
  <2>1. SumOf(h, 0) = 0 /\ SumOf(f, 0) = 0 /\ SumOf(g, 0) = 0
    BY SumStep
  <2>2. a * 0 + b * 0 = 0 /\ Same(0, 0, m)
    <3>1. Same(0, 0, m)
      <4>1. 0 = 0 + m * 0
        OBVIOUS
      <4> QED BY <4>1 DEF Same
    <3> QED BY <3>1
  <2> QED BY <2>1, <2>2
<1>2. ASSUME NEW e \in Q PROVE e + 1 \in Q
  <2>1. CASE e + 1 <= n
    <3>1. /\ e \in Nat /\ e + 1 \in Nat /\ e + 1 > 0 /\ (e + 1) - 1 = e
          /\ \A k \in 1..e : k \in 1..n
          /\ \A k \in 1..(e + 1) : k \in 1..n
          /\ e + 1 \in 1..n
      BY <2>1
    <3>2. PICK hs \in Int, fs \in Int, gs \in Int :
             hs = SumOf(h, e) /\ fs = SumOf(f, e) /\ gs = SumOf(g, e)
      BY <3>1, SumStep
    <3>3. PICK hn \in Int, fn \in Int, gn \in Int : hn = h[e + 1] /\ fn = f[e + 1] /\ gn = g[e + 1]
      BY <3>1
    <3>4. /\ SumOf(h, e + 1) = hs + hn /\ SumOf(f, e + 1) = fs + fn
          /\ SumOf(g, e + 1) = gs + gn
      <4>1. PICK e1 \in Nat : e1 = e + 1 /\ e1 - 1 = e /\ e1 > 0
        BY <3>1
      <4>2. \A k \in 1..e1 : h[k] \in Int /\ f[k] \in Int /\ g[k] \in Int
        BY <3>1, <4>1
      <4>3. /\ SumOf(h, e1) = SumOf(h, e1 - 1) + h[e1]
            /\ SumOf(f, e1) = SumOf(f, e1 - 1) + f[e1]
            /\ SumOf(g, e1) = SumOf(g, e1 - 1) + g[e1]
        BY <4>1, <4>2, SumStep
      <4> QED BY <3>2, <3>3, <4>1, <4>3
    <3>5. Same(hs, a * fs + b * gs, m) /\ Same(hn, a * fn + b * gn, m)
      BY <2>1, <3>1, <3>2, <3>3
    <3>6. Same(hs + hn, (a * fs + b * gs) + (a * fn + b * gn), m)
      <4>1. a * fs + b * gs \in Int /\ a * fn + b * gn \in Int
        OBVIOUS
      <4> QED BY <3>5, <4>1, SameSum
    <3>7. (a * fs + b * gs) + (a * fn + b * gn) = a * (fs + fn) + b * (gs + gn)
      BY Z3
    <3> QED BY <3>1, <3>4, <3>6, <3>7
  <2> QED BY <2>1
<1>3. Q = Nat
  <2>1. Q \in SUBSET Nat
    OBVIOUS
  <2> HIDE DEF Q
  <2> QED BY <1>1, <1>2, <2>1, Inductive
<1> QED BY <1>3

(* Sums of congruent numbers are congruent, those of equal ones equal.      *)
LEMMA SumOfSame ==
  ASSUME NEW m \in Nat, NEW n \in Nat, NEW h, NEW f,
         \A k \in 1..n : h[k] \in Int /\ f[k] \in Int /\ Same(h[k], f[k], m)
  PROVE  Same(SumOf(h, n), SumOf(f, n), m)
<1>1. \A k \in 1..n : Same(h[k], 1 * f[k] + 0 * f[k], m)
  OBVIOUS
<1>2. Same(SumOf(h, n), 1 * SumOf(f, n) + 0 * SumOf(f, n), m)
  <2>1. 1 \in Int /\ 0 \in Int
    OBVIOUS
  <2> QED BY <1>1, <2>1, SumIsLinear
<1>3. SumOf(f, n) \in Int
  BY SumStep
<1> QED BY <1>2, <1>3

(* Equality is congruence modulo zero.                                      *)
LEMMA SameOfZero ==
  ASSUME NEW v \in Int, NEW w \in Int PROVE Same(v, w, 0) <=> v = w
<1>1. \A k \in Int : w + 0 * k = w
  OBVIOUS
<1>2. 0 \in Int
  OBVIOUS
<1> QED BY <1>1, <1>2 DEF Same

(* A sum is that of its beginning and that of its end.                      *)
LEMMA SumSplits ==
  ASSUME NEW c \in Nat, NEW n \in Nat, NEW h, NEW f, NEW g,
         \A k \in 1..c : h[k] \in Int /\ f[k] = h[k],
         \A k \in 1..n : h[c + k] \in Int /\ g[k] = h[c + k]
  PROVE  SumOf(h, c + n) = SumOf(f, c) + SumOf(g, n)
<1>1. ASSUME NEW k \in 1..(c + n) PROVE h[k] \in Int
  <2>1. CASE k <= c
    BY <2>1
  <2>2. CASE k > c
    <3>1. PICK d \in 1..n : d = k - c
      BY <2>2
    <3>2. c + d = k /\ h[c + d] \in Int
      BY <3>1
    <3> QED BY <3>2
  <2> QED BY <2>1, <2>2
<1> DEFINE Q == {e \in Nat : e <= n => SumOf(h, c + e) = SumOf(f, c) + SumOf(g, e)}
<1>2. SumOf(f, c) = SumOf(h, c) /\ SumOf(f, c) \in Int
  <2>1. \A k \in 1..c : h[k] \in Int /\ f[k] \in Int /\ Same(h[k], f[k], 0)
    <3>1. ASSUME NEW k \in 1..c PROVE Same(h[k], f[k], 0)
      <4>1. h[k] \in Int /\ f[k] = h[k]
        OBVIOUS
      <4> QED BY <4>1, SameOfZero
    <3> QED BY <3>1
  <2>2. Same(SumOf(h, c), SumOf(f, c), 0)
    <3>1. 0 \in Nat
      OBVIOUS
    <3> QED BY <2>1, <3>1, SumOfSame
  <2>3. SumOf(h, c) \in Int /\ SumOf(f, c) \in Int
    BY <2>1, SumStep
  <2> QED BY <2>2, <2>3, SameOfZero
<1>3. 0 \in Q
  <2>1. SumOf(g, 0) = 0 /\ c + 0 = c
    BY SumStep
  <2> QED BY <1>2, <2>1
<1>4. ASSUME NEW e \in Q PROVE e + 1 \in Q
  <2>1. CASE e + 1 <= n
    <3>1. PICK e1 \in Nat, ce \in Nat : e1 = e + 1 /\ ce = c + e1 /\ e1 - 1 = e /\ e1 > 0 /\ ce > 0 /\ ce - 1 = c + e
      OBVIOUS
    <3>2. \A k \in 1..ce : h[k] \in Int
      BY <1>1, <2>1, <3>1
    <3>3. \A k \in 1..e1 : k \in 1..n /\ g[k] \in Int
      BY <2>1, <3>1
    <3>4. SumOf(h, ce) = SumOf(h, ce - 1) + h[ce]
      BY <3>1, <3>2, SumStep
    <3>5. SumOf(g, e1) = SumOf(g, e1 - 1) + g[e1] /\ e1 \in 1..n
      BY <3>1, <3>3, SumStep
    <3>6. g[e1] = h[ce] /\ h[ce] \in Int
      BY <3>1, <3>5
    <3>7. SumOf(g, e) \in Int /\ e \in Nat
      <4>1. \A k \in 1..e : g[k] \in Int /\ e \in Nat
        BY <3>1, <3>3
      <4> QED BY <4>1, SumStep
    <3>8. SumOf(h, c + e) = SumOf(f, c) + SumOf(g, e)
      BY <2>1
    <3> QED BY <1>2, <3>1, <3>4, <3>5, <3>6, <3>7, <3>8
  <2> QED BY <2>1
<1>5. Q = Nat
  <2>1. Q \in SUBSET Nat
    OBVIOUS
  <2> HIDE DEF Q
  <2> QED BY <1>3, <1>4, <2>1, Inductive
<1> QED BY <1>5

(* A sum of which all but one number vanish.                                *)
LEMMA SumOfOne ==
  ASSUME NEW n \in Nat, NEW h, NEW j \in 1..n, h[j] \in Int,
         \A k \in 1..n : k # j => h[k] = 0
  PROVE  SumOf(h, n) = h[j]
<1>1. \A k \in 1..n : h[k] \in Int
  OBVIOUS
<1> DEFINE Q == {e \in Nat : e <= n => SumOf(h, e) = IF e < j THEN 0 ELSE h[j]}
<1>2. 0 \in Q
  BY <1>1, SumStep
<1>3. ASSUME NEW e \in Q PROVE e + 1 \in Q
  <2>1. CASE e + 1 <= n
    <3>1. PICK e1 \in Nat : e1 = e + 1 /\ e1 - 1 = e /\ e1 > 0 /\ e1 \in 1..n
      BY <2>1
    <3>2. SumOf(h, e1) = SumOf(h, e1 - 1) + h[e1]
      <4>1. \A k \in 1..e1 : h[k] \in Int
        BY <1>1, <3>1
      <4> QED BY <3>1, <4>1, SumStep
    <3>3. e1 # j => h[e1] = 0
      BY <3>1
    <3>4. SumOf(h, e) = IF e < j THEN 0 ELSE h[j]
      BY <2>1
    <3> QED BY <3>1, <3>2, <3>3, <3>4
  <2> QED BY <2>1
<1>4. Q = Nat
  <2>1. Q \in SUBSET Nat
    OBVIOUS
  <2> HIDE DEF Q
  <2> QED BY <1>2, <1>3, <2>1, Inductive
<1> QED BY <1>4

(* Vectors are sequences.                                                   *)
LEMMA VectorLength ==
  ASSUME NEW V, NEW n \in Nat, NEW a \in [1..n -> V]
  PROVE  a \in Seq(V) /\ Len(a) = n /\ DOMAIN a = 1..n
<1>1. a \in Seq(V)
  OBVIOUS
<1> QED BY <1>1

-----------------------------------------------------------------------------
(* The elements of the field of polynomials.                                *)

(* Elements are words.                                                      *)
LEMMA ElementFacts ==
  /\ FR_MODULUS \in Moduli /\ FR_MODULUS \in Nat /\ FR_MODULUS > 2
  /\ \A a \in F : a \in Nat /\ a \in U256 /\ a < FR_MODULUS /\ a % FR_MODULUS = a
  /\ 0 \in F /\ 1 \in F
<1>1. FR_MODULUS \in Moduli /\ FR_MODULUS \in Nat /\ FR_MODULUS > 2
      /\ 2 * FR_MODULUS < Word /\ Word \in Nat
  <2>1. FR_MODULUS \in Moduli
    BY DEF Moduli
  <2> QED BY <2>1, WordFacts
<1>2. \A a \in F : a \in Nat /\ a \in U256 /\ a < FR_MODULUS
  BY <1>1 DEF F, U256
<1>3. \A a \in F : a % FR_MODULUS = a
  BY <1>1, ResidueIsIdempotent DEF F
<1> QED BY <1>1, <1>2, <1>3 DEF F

(* Congruent elements are equal.                                            *)
LEMMA ElementIs ==
  ASSUME NEW a \in F, NEW b \in F, Same(a, b, FR_MODULUS)
  PROVE  a = b
<1>1. a \in Int /\ b \in Int /\ FR_MODULUS \in Nat /\ FR_MODULUS > 0
  BY ElementFacts
<1>2. a % FR_MODULUS = b % FR_MODULUS
  BY <1>1, SameIsResidue
<1> QED BY <1>2, ElementFacts

(* Residues are elements.                                                   *)
LEMMA ResidueIsElement ==
  ASSUME NEW v \in Int
  PROVE  v % FR_MODULUS \in F /\ Same(v % FR_MODULUS, v, FR_MODULUS)
<1>1. PICK r : r = v % FR_MODULUS
  OBVIOUS
<1>2. r \in 0..(FR_MODULUS - 1) /\ Same(r, v, FR_MODULUS)
  BY <1>1, ElementFacts, SameAsResidue
<1> QED BY <1>1, <1>2 DEF F

(* The operations on elements, as congruences of integers.                  *)
LEMMA FAddIs ==
  ASSUME NEW a \in F, NEW b \in F
  PROVE  FAdd(a, b) \in F /\ Same(FAdd(a, b), a + b, FR_MODULUS)
<1>1. AddMod(a, b, FR_MODULUS) = (a + b) % FR_MODULUS
  BY ElementFacts, SumIsExact
<1>2. a + b \in Int
  BY ElementFacts
<1> QED BY <1>1, <1>2, ResidueIsElement DEF FAdd

LEMMA FSubIs ==
  ASSUME NEW a \in F, NEW b \in F
  PROVE  FSub(a, b) \in F /\ Same(FSub(a, b), a - b, FR_MODULUS)
<1>1. SubMod(a, b, FR_MODULUS) = (a - b) % FR_MODULUS
  BY ElementFacts, DifferenceIsExact
<1>2. a - b \in Int
  BY ElementFacts
<1> QED BY <1>1, <1>2, ResidueIsElement DEF FSub

LEMMA FMulIs ==
  ASSUME NEW a \in Int, NEW b \in Int
  PROVE  FMul(a, b) \in F /\ Same(FMul(a, b), a * b, FR_MODULUS)
<1>1. PICK v \in Int : v = a * b
  OBVIOUS
<1>2. FMul(a, b) = v % FR_MODULUS
  BY <1>1 DEF FMul, MulMod
<1> QED BY <1>1, <1>2, ResidueIsElement

LEMMA InverseIs ==
  ASSUME NEW a \in F
  PROVE  Invert(a, FR_MODULUS) \in F /\ (a # 0 => Same(a * Invert(a, FR_MODULUS), 1, FR_MODULUS))
<1>1. PICK v \in Nat : v = Invert(a, FR_MODULUS) /\ v < FR_MODULUS
                       /\ (a * v) % FR_MODULUS = (IF a % FR_MODULUS = 0 THEN 0 ELSE 1)
  <2>1. a \in U256 /\ FR_MODULUS \in Moduli
    BY ElementFacts
  <2> QED BY <2>1, InverseIsExact
<1>2. Invert(a, FR_MODULUS) = v
  BY <1>1
<1>3. v \in F /\ a \in Int /\ v \in Int
  BY <1>1, ElementFacts DEF F
<1>4. ASSUME a # 0 PROVE Same(a * v, 1, FR_MODULUS)
  <2>1. PICK w \in Int : w = a * v
    BY <1>3
  <2>2. w % FR_MODULUS = 1
    BY <1>1, <1>4, <2>1, ElementFacts
  <2>3. 1 \in Int /\ 1 % FR_MODULUS = 1
    BY ElementFacts
  <2>4. Same(w, 1, FR_MODULUS)
    BY <2>2, <2>3, ElementFacts, SameIsResidue
  <2> QED BY <2>1, <2>4
<1> QED BY <1>2, <1>3, <1>4

(* Neither of two elements is zero, and their product is not.               *)
LEMMA NoZeroProduct ==
  ASSUME NEW a \in F, NEW b \in F, Same(a * b, 0, FR_MODULUS)
  PROVE  a = 0 \/ b = 0
<1> SUFFICES ASSUME a # 0 PROVE b = 0
  OBVIOUS
<1>1. PICK c \in F : c \in Int /\ a \in Int /\ b \in Int /\ Same(a * c, 1, FR_MODULUS)
  <2>1. PICK c : c = Invert(a, FR_MODULUS)
    OBVIOUS
  <2>2. c \in F /\ Same(a * c, 1, FR_MODULUS)
    BY <2>1, InverseIs
  <2>3. c \in Int /\ a \in Int /\ b \in Int
    BY <2>2, ElementFacts
  <2> QED BY <2>2, <2>3
<1>2. PICK k \in Int : a * b = 0 + FR_MODULUS * k
  BY DEF Same
<1>3. PICK l \in Int : a * c = 1 + FR_MODULUS * l
  BY <1>1 DEF Same
<1>4. b = 0 + FR_MODULUS * (k * c - l * b) /\ k * c - l * b \in Int
  <2>1. (a * b) * c = (a * c) * b
    BY <1>1, Z3
  <2>2. (a * b) * c = FR_MODULUS * (k * c)
    <3>1. (FR_MODULUS * k) * c = FR_MODULUS * (k * c)
      BY <1>1, ElementFacts, Z3
    <3>2. PICK ab \in Int, pk \in Int : ab = a * b /\ pk = FR_MODULUS * k
      BY <1>1, ElementFacts
    <3>3. ab = pk
      BY <1>2, <3>2
    <3> QED BY <3>1, <3>2, <3>3
  <2>3. (a * c) * b = b + FR_MODULUS * (l * b)
    <3>1. (1 + FR_MODULUS * l) * b = b + FR_MODULUS * (l * b)
      BY <1>1, ElementFacts, Z3
    <3>2. PICK ac \in Int : ac = a * c
      BY <1>1
    <3>3. ac = 1 + FR_MODULUS * l
      BY <1>3, <3>2
    <3> QED BY <3>1, <3>2, <3>3
  <2>4. FR_MODULUS * (k * c - l * b) = FR_MODULUS * (k * c) - FR_MODULUS * (l * b)
    BY <1>1, ElementFacts, Z3
  <2>5. PICK kc \in Int, lb \in Int, pk \in Int, pl \in Int :
           kc = k * c /\ lb = l * b /\ pk = FR_MODULUS * kc /\ pl = FR_MODULUS * lb
    BY <1>1, ElementFacts
  <2>6. b = pk - pl
    BY <1>1, <2>1, <2>2, <2>3, <2>5
  <2> QED BY <1>1, <2>4, <2>5, <2>6
<1>5. Same(b, 0, FR_MODULUS)
  BY <1>4 DEF Same
<1> QED BY <1>5, ElementIs, ElementFacts

(* Congruences chain and turn around.                                       *)
LEMMA SameChain ==
  ASSUME NEW u \in Int, NEW v \in Int, NEW w \in Int, NEW m \in Nat
  PROVE  /\ Same(v, v, m)
         /\ Same(u, v, m) /\ Same(v, w, m) => Same(u, w, m)
         /\ Same(v, w, m) => Same(w, v, m)
BY SameIsEquivalence

(* A congruent pair, scaled and added to another.                           *)
LEMMA SameScaledSum ==
  ASSUME NEW m \in Nat, NEW u \in Int, NEW v \in Int, NEW w \in Int, NEW e \in Int, NEW s \in Int,
         Same(u, v, m), Same(w, e, m)
  PROVE  Same(u + w * s, v + e * s, m)
<1>1. PICK ws \in Int, es \in Int : ws = w * s /\ es = e * s
  OBVIOUS
<1>2. Same(s, s, m)
  BY SameIsEquivalence
<1>3. Same(w * s, e * s, m)
  BY <1>2, SameProduct
<1>4. Same(ws, es, m)
  BY <1>1, <1>3
<1>5. Same(u + ws, v + es, m)
  BY <1>4, SameSum
<1> QED BY <1>1, <1>5
-----------------------------------------------------------------------------
(* Powers of a point and values of polynomials, as integers.                *)

(* Equal numbers are congruent, and multiples of congruent ones.            *)
LEMMA SameTimes ==
  ASSUME NEW m \in Nat, NEW u \in Int, NEW v \in Int, NEW s \in Int, Same(u, v, m)
  PROVE  Same(u * s, v * s, m) /\ Same(s * u, s * v, m)
<1>1. Same(s, s, m)
  BY SameChain
<1>2. Same(u * s, v * s, m)
  BY <1>1, SameProduct
<1>3. Same(s * u, s * v, m)
  BY <1>1, SameProduct
<1> QED BY <1>2, <1>3

(* Equal numbers have equal sums.                                           *)
LEMMA SumOfEqual ==
  ASSUME NEW n \in Nat, NEW h, NEW f, \A k \in 1..n : h[k] \in Int /\ f[k] = h[k]
  PROVE  SumOf(h, n) = SumOf(f, n) /\ SumOf(h, n) \in Int
<1>1. \A k \in 1..n : h[k] \in Int /\ f[k] \in Int /\ Same(h[k], f[k], 0)
  <2>1. ASSUME NEW k \in 1..n PROVE Same(h[k], f[k], 0)
    <3>1. h[k] \in Int /\ f[k] = h[k]
      OBVIOUS
    <3> QED BY <3>1, SameOfZero
  <2> QED BY <2>1
<1>2. Same(SumOf(h, n), SumOf(f, n), 0)
  <2>1. 0 \in Nat
    OBVIOUS
  <2> QED BY <1>1, <2>1, SumOfSame
<1>3. SumOf(h, n) \in Int /\ SumOf(f, n) \in Int
  BY <1>1, SumStep
<1> QED BY <1>2, <1>3, SameOfZero

(* A sum of nothing but zeros.                                              *)
LEMMA SumOfZeros ==
  ASSUME NEW n \in Nat, NEW h, \A k \in 1..n : h[k] = 0
  PROVE  SumOf(h, n) = 0
<1>1. 0 \in Nat /\ 0 \in Int /\ \A k \in 1..n : h[k] \in Int
  OBVIOUS
<1>2. PICK s \in Int : s = SumOf(h, n)
  BY <1>1, SumStep
<1>3. \A k \in 1..n : Same(h[k], 0 * h[k] + 0 * h[k], 0)
  <2>1. 0 * 0 + 0 * 0 = 0
    OBVIOUS
  <2> QED BY <1>1, <2>1, SameChain
<1>4. Same(s, 0 * s + 0 * s, 0)
  BY <1>1, <1>2, <1>3, SumIsLinear
<1>5. 0 * s + 0 * s = 0
  OBVIOUS
<1> QED BY <1>1, <1>2, <1>4, <1>5, SameOfZero

(* The powers of a number are a function.                                   *)
LEMMA RaisedUnfolds ==
  ASSUME NEW n \in Nat, NEW v \in Int
  PROVE  \E f \in [0..n -> Int] :
           /\ \A k \in 0..n : f[k] = Raised(v, k)
           /\ f[0] = 1 /\ \A k \in 1..n : f[k] = f[k - 1] * v
<1> DEFINE Step(f, k) == IF k = 0 THEN 1 ELSE f[k - 1] * v
<1>1. ASSUME NEW e \in Nat
      PROVE  \E f \in [0..e -> Int] : f = [k \in 0..e |-> Step(f, k)] /\ Raised(v, e) = f[e]
  <2> DEFINE G == [k \in 1..e |-> [u \in Int |-> u * v]]
  <2>1. G \in [1..e -> [Int -> Int]] /\ 1 \in Int
    OBVIOUS
  <2>2. PICK f0 : Recurs(f0, Int, 1, e, G)
    <3> HIDE DEF G
    <3> QED BY <2>1, Recursion
  <2>3. f0 \in [0..e -> Int] /\ f0[0] = 1 /\ \A k \in 1..e : f0[k] = G[k][f0[k - 1]]
    <3> HIDE DEF G
    <3> QED BY <2>2 DEF Recurs
  <2>4. ASSUME NEW k \in 0..e PROVE f0[k] = Step(f0, k)
    <3>1. k # 0 => k - 1 \in 0..e /\ k \in 1..e
      OBVIOUS
    <3>2. k # 0 => f0[k - 1] \in Int /\ G[k] = [u \in Int |-> u * v]
      BY <2>3, <3>1
    <3> QED BY <2>3, <3>1, <3>2
  <2>5. f0 = [k \in 0..e |-> Step(f0, k)]
    <3> HIDE DEF Step, G
    <3>1. f0 = [k \in 0..e |-> f0[k]]
      BY <2>3
    <3> QED BY <2>4, <3>1
  <2> DEFINE s == CHOOSE s : s = [k \in 0..e |-> Step(s, k)]
  <2>6. s = [k \in 0..e |-> Step(s, k)]
    <3> HIDE DEF Step, G
    <3> QED BY <2>5
  <2>7. Raised(v, e) = s[e]
    BY DEF Raised
  <2> HIDE DEF s, G
  <2>8. \A k \in 0..e : s[k] = Step(s, k)
    BY <2>6
  <2> DEFINE Q == {k \in Nat : k <= e => s[k] \in Int}
  <2>9. ASSUME NEW k \in Q PROVE k + 1 \in Q
    <3>1. CASE k + 1 <= e
      <4>1. k + 1 \in 0..e /\ (k + 1) - 1 = k /\ k + 1 # 0 /\ s[k] \in Int
        BY <3>1
      <4>2. s[k + 1] = s[k] * v
        BY <2>8, <4>1
      <4> QED BY <4>1, <4>2
    <3> QED BY <3>1
  <2>10. Q = Nat
    <3>1. Q \in SUBSET Nat /\ 0 \in Q
      BY <2>8
    <3> HIDE DEF Q
    <3> QED BY <2>9, <3>1, Inductive
  <2>11. s \in [0..e -> Int]
    <3>1. \A k \in 0..e : s[k] \in Int
      BY <2>10
    <3>2. s = [k \in 0..e |-> s[k]]
      BY <2>6
    <3> QED BY <3>1, <3>2
  <2> HIDE DEF Step
  <2> QED BY <2>6, <2>7, <2>11
<1>2. PICK f \in [0..n -> Int] : f = [k \in 0..n |-> Step(f, k)] /\ Raised(v, n) = f[n]
  <2> HIDE DEF Step
  <2> QED BY <1>1
<1>3. f[0] = 1 /\ \A k \in 1..n : f[k] = f[k - 1] * v
  <2>1. \A k \in 0..n : f[k] = Step(f, k)
    <3> HIDE DEF Step
    <3> QED BY <1>2
  <2>2. \A k \in 1..n : k \in 0..n /\ k # 0
    OBVIOUS
  <2> QED BY <2>1, <2>2
<1>4. ASSUME NEW e \in 0..n PROVE f[e] = Raised(v, e)
  <2>1. PICK d \in [0..e -> Int] : d = [k \in 0..e |-> Step(d, k)] /\ Raised(v, e) = d[e]
    <3> HIDE DEF Step
    <3>1. e \in Nat
      OBVIOUS
    <3> QED BY <1>1, <3>1
  <2>2. \A k \in 0..e : d[k] = Step(d, k)
    <3> HIDE DEF Step
    <3> QED BY <2>1
  <2> DEFINE Q == {k \in Nat : k <= e => d[k] = f[k]}
  <2>3. 0 \in Q
    BY <1>3, <2>2
  <2>4. ASSUME NEW k \in Q PROVE k + 1 \in Q
    <3>1. CASE k + 1 <= e
      <4>1. PICK j : j = k + 1 /\ j \in 1..n /\ j \in 0..e /\ j # 0 /\ j - 1 = k
        BY <3>1
      <4>2. d[j] = d[j - 1] * v
        BY <2>2, <4>1
      <4>3. f[j] = f[j - 1] * v
        BY <1>3, <4>1
      <4>4. d[k] = f[k]
        BY <3>1
      <4> QED BY <4>1, <4>2, <4>3, <4>4
    <3> QED BY <3>1
  <2>5. Q = Nat
    <3>1. Q \in SUBSET Nat
      OBVIOUS
    <3> HIDE DEF Q
    <3> QED BY <2>3, <2>4, <3>1, Inductive
  <2>6. e \in Nat /\ e <= e
    OBVIOUS
  <2> QED BY <2>1, <2>5, <2>6
<1> QED BY <1>3, <1>4

(* Their recurrence.                                                        *)
LEMMA RaisedStep ==
  ASSUME NEW v \in Int, NEW e \in Nat
  PROVE  Raised(v, e) \in Int /\ Raised(v, 0) = 1 /\ Raised(v, e + 1) = Raised(v, e) * v
<1>1. PICK e1 \in Nat : e1 = e + 1 /\ e1 - 1 = e /\ e1 \in 1..e1 /\ e \in 0..e1 /\ e1 \in 0..e1
                        /\ 0 \in 0..e1
  OBVIOUS
<1>2. PICK f \in [0..e1 -> Int] :
           /\ \A k \in 0..e1 : f[k] = Raised(v, k)
           /\ f[0] = 1 /\ \A k \in 1..e1 : f[k] = f[k - 1] * v
  BY RaisedUnfolds
<1> QED BY <1>1, <1>2

(* Exponents add.                                                           *)
LEMMA RaisedSum ==
  ASSUME NEW v \in Int, NEW e \in Nat, NEW d \in Nat
  PROVE  Raised(v, e + d) = Raised(v, e) * Raised(v, d)
<1> DEFINE Q == {k \in Nat : Raised(v, e + k) = Raised(v, e) * Raised(v, k)}
<1>1. 0 \in Q
  <2>1. Raised(v, 0) = 1 /\ e + 0 = e /\ Raised(v, e) \in Int
    BY RaisedStep
  <2> QED BY <2>1
<1>2. ASSUME NEW k \in Q PROVE k + 1 \in Q
  <2>1. PICK p \in Int, q \in Int, s \in Int :
           p = Raised(v, e) /\ q = Raised(v, k) /\ s = Raised(v, e + k)
    <3>1. k \in Nat /\ e + k \in Nat
      OBVIOUS
    <3> QED BY <3>1, RaisedStep
  <2>2. Raised(v, k + 1) = q * v /\ Raised(v, (e + k) + 1) = s * v /\ (e + k) + 1 = e + (k + 1)
    <3>1. k \in Nat /\ e + k \in Nat
      OBVIOUS
    <3> QED BY <2>1, <3>1, RaisedStep
  <2>3. s = p * q
    BY <2>1
  <2>4. (p * q) * v = p * (q * v)
    BY Z3
  <2> QED BY <2>1, <2>2, <2>3, <2>4
<1>3. Q = Nat
  <2>1. Q \in SUBSET Nat
    OBVIOUS
  <2> HIDE DEF Q
  <2> QED BY <1>1, <1>2, <2>1, Inductive
<1> QED BY <1>3

(* The power that the field computes is congruent to that of the integers.  *)
LEMMA PowerIsRaised ==
  ASSUME NEW v \in F, NEW e \in U256
  PROVE  PowMod(v, e, FR_MODULUS) \in F /\ Same(PowMod(v, e, FR_MODULUS), Raised(v, e), FR_MODULUS)
<1> DEFINE m == FR_MODULUS
           pw == PowerOf(v, m)
<1>1. m \in Moduli /\ m \in Nat /\ v \in Nat /\ v \in Int /\ Word \in Nat
  BY ElementFacts, WordFacts
<1>2. e \in Nat /\ e < Word
  BY <1>1 DEF U256
<1>3. PowMod(v, e, m) = pw[e]
  BY <1>1, <1>2, PowModIsPower
<1> DEFINE Q == {k \in Nat : k <= e => Same(pw[k], Raised(v, k), m)}
<1>4. 0 \in Q
  <2>1. pw[0] = 1 /\ Raised(v, 0) = 1
    BY <1>1, PowerUnfolds, RaisedStep
  <2>2. Same(1, 1, m)
    BY <1>1, SameIsEquivalence
  <2> HIDE DEF pw, m
  <2> QED BY <2>1, <2>2
<1>5. ASSUME NEW k \in Q PROVE k + 1 \in Q
  <2>1. CASE k + 1 <= e
    <3>1. k \in Nat /\ k + 1 <= Word
      BY <1>1, <1>2, <2>1
    <3>2. PICK p \in Int, q \in Int, s \in Int :
             /\ p = pw[k] /\ q = pw[k + 1] /\ s = Raised(v, k)
             /\ Same(q, p * v, m) /\ Raised(v, k + 1) = s * v
      <4>1. pw[k] \in Nat /\ pw[k + 1] \in Nat /\ Same(pw[k + 1], pw[k] * v, m)
        BY <1>1, <3>1, NextPower
      <4>2. Raised(v, k) \in Int /\ Raised(v, k + 1) = Raised(v, k) * v
        BY <1>1, <3>1, RaisedStep
      <4> HIDE DEF pw, m
      <4> QED BY <4>1, <4>2
    <3>3. Same(p, s, m)
      <4>1. k <= e
        BY <1>2, <2>1, <3>1
      <4>2. Same(pw[k], Raised(v, k), m)
        <5> HIDE DEF pw, m
        <5> QED BY <4>1
      <4> HIDE DEF pw, m
      <4> QED BY <3>2, <4>2
    <3>4. Same(v, v, m)
      BY <1>1, SameIsEquivalence
    <3> HIDE DEF pw, m
    <3>5. Same(p * v, s * v, m)
      BY <1>1, <3>3, <3>4, SameProduct
    <3>6. PICK pv \in Int, sv \in Int : pv = p * v /\ sv = s * v
      BY <1>1
    <3>7. Same(q, sv, m)
      <4>1. Same(q, pv, m) /\ Same(pv, sv, m)
        BY <3>2, <3>5, <3>6
      <4> QED BY <1>1, <4>1, SameIsEquivalence
    <3>8. Same(pw[k + 1], Raised(v, k + 1), m)
      BY <3>2, <3>6, <3>7
    <3> QED BY <3>8
  <2> QED BY <2>1
<1>6. Q = Nat
  <2>1. Q \in SUBSET Nat
    OBVIOUS
  <2> HIDE DEF Q
  <2> QED BY <1>4, <1>5, <2>1, Inductive
<1>7. Same(pw[e], Raised(v, e), m)
  BY <1>2, <1>6
<1>8. pw[e] \in 0..(m - 1)
  BY <1>1, <1>2, PowerType
<1> QED BY <1>3, <1>7, <1>8 DEF F

(* The value at v of the polynomial with the first n coefficients of f.      *)
PolySum(f, n, v) == SumOf([k \in 1..n |-> f[k] * Raised(v, k - 1)], n)

LEMMA PolyStep ==
  ASSUME NEW v \in Int, NEW n \in Nat, NEW f, \A k \in 1..n : f[k] \in Int
  PROVE  /\ PolySum(f, n, v) \in Int /\ PolySum(f, 0, v) = 0
         /\ \A k \in 1..n : Raised(v, k - 1) \in Int /\ f[k] * Raised(v, k - 1) \in Int
         /\ n > 0 => PolySum(f, n, v) = PolySum(f, n - 1, v) + f[n] * Raised(v, n - 1)
<1> DEFINE h == [k \in 1..n |-> f[k] * Raised(v, k - 1)]
<1>1. ASSUME NEW k \in 1..n PROVE Raised(v, k - 1) \in Int /\ f[k] * Raised(v, k - 1) \in Int
  <2>1. k - 1 \in Nat
    OBVIOUS
  <2>2. PICK p \in Int, q \in Int : p = f[k] /\ q = Raised(v, k - 1)
    BY <2>1, RaisedStep
  <2> QED BY <2>2
<1>2. \A k \in 1..n : h[k] = f[k] * Raised(v, k - 1) /\ h[k] \in Int
  BY <1>1
<1>3. SumOf(h, n) \in Int /\ (n > 0 => SumOf(h, n) = SumOf(h, n - 1) + h[n])
  <2> HIDE DEF h
  <2> QED BY <1>2, SumStep
<1>4. PolySum(f, 0, v) = 0
  <2>1. \A g : SumOf(g, 0) = 0
    <3>1. ASSUME NEW g PROVE SumOf(g, 0) = 0
      <4>1. 0 \in Nat /\ \A k \in 1..0 : g[k] \in Int
        OBVIOUS
      <4> QED BY <4>1, SumStep
    <3> QED BY <3>1
  <2> QED BY <2>1 DEF PolySum
<1>5. ASSUME n > 0 PROVE SumOf(h, n - 1) = PolySum(f, n - 1, v) /\ n \in 1..n
  <2>1. PICK c \in Nat : c = n - 1 /\ \A k \in 1..c : k \in 1..n
    BY <1>5
  <2> DEFINE g == [k \in 1..c |-> f[k] * Raised(v, k - 1)]
  <2>2. \A k \in 1..c : h[k] \in Int /\ g[k] = h[k]
    BY <1>2, <2>1
  <2>3. SumOf(h, c) = SumOf(g, c)
    <3> HIDE DEF h, g
    <3> QED BY <2>2, SumOfEqual
  <2>4. SumOf(g, c) = PolySum(f, c, v)
    BY DEF PolySum
  <2> HIDE DEF h, g
  <2> QED BY <1>5, <2>1, <2>3, <2>4
<1>6. SumOf(h, n) = PolySum(f, n, v)
  BY DEF PolySum
<1> HIDE DEF h
<1> QED BY <1>1, <1>2, <1>3, <1>4, <1>5, <1>6

LEMMA PolyLinear ==
  ASSUME NEW m \in Nat, NEW v \in Int, NEW n \in Nat, NEW a \in Int, NEW b \in Int,
         NEW h, NEW f, NEW g,
         \A k \in 1..n : /\ h[k] \in Int /\ f[k] \in Int /\ g[k] \in Int
                         /\ Same(h[k], a * f[k] + b * g[k], m)
  PROVE  Same(PolySum(h, n, v), a * PolySum(f, n, v) + b * PolySum(g, n, v), m)
<1> DEFINE hr == [k \in 1..n |-> h[k] * Raised(v, k - 1)]
           fr == [k \in 1..n |-> f[k] * Raised(v, k - 1)]
           gr == [k \in 1..n |-> g[k] * Raised(v, k - 1)]
<1>1. ASSUME NEW k \in 1..n
      PROVE  /\ hr[k] \in Int /\ fr[k] \in Int /\ gr[k] \in Int
             /\ Same(hr[k], a * fr[k] + b * gr[k], m)
  <2>1. PICK p \in Int : p = Raised(v, k - 1)
    <3>1. k - 1 \in Nat
      OBVIOUS
    <3> QED BY <3>1, RaisedStep
  <2>2. PICK hk \in Int, fk \in Int, gk \in Int : hk = h[k] /\ fk = f[k] /\ gk = g[k]
    OBVIOUS
  <2>3. hr[k] = hk * p /\ fr[k] = fk * p /\ gr[k] = gk * p
    BY <2>1, <2>2
  <2>4. PICK c \in Int : c = a * fk + b * gk
    OBVIOUS
  <2>5. Same(hk, c, m) /\ Same(p, p, m)
    BY <2>2, <2>4, SameIsEquivalence
  <2>6. Same(hk * p, c * p, m)
    BY <2>5, SameProduct
  <2>7. (a * fk + b * gk) * p = a * (fk * p) + b * (gk * p)
    BY Z3
  <2>8. hk * p \in Int /\ fk * p \in Int /\ gk * p \in Int
    OBVIOUS
  <2> HIDE DEF hr, fr, gr
  <2> QED BY <2>3, <2>4, <2>6, <2>7, <2>8
<1> HIDE DEF hr, fr, gr
<1>2. Same(SumOf(hr, n), a * SumOf(fr, n) + b * SumOf(gr, n), m)
  BY <1>1, SumIsLinear
<1> QED BY <1>2 DEF PolySum, hr, fr, gr

(* It is the coefficients that make the value.                              *)
LEMMA PolyOfSame ==
  ASSUME NEW m \in Nat, NEW v \in Int, NEW n \in Nat, NEW h, NEW f,
         \A k \in 1..n : h[k] \in Int /\ f[k] \in Int /\ Same(h[k], f[k], m)
  PROVE  Same(PolySum(h, n, v), PolySum(f, n, v), m)
<1>1. \A k \in 1..n : /\ h[k] \in Int /\ f[k] \in Int
                      /\ Same(h[k], 1 * f[k] + 0 * f[k], m)
  OBVIOUS
<1>2. 1 \in Int /\ 0 \in Int
  OBVIOUS
<1>3. Same(PolySum(h, n, v), 1 * PolySum(f, n, v) + 0 * PolySum(f, n, v), m)
  BY <1>1, <1>2, PolyLinear
<1>4. PolySum(f, n, v) \in Int
  BY PolyStep
<1> QED BY <1>3, <1>4

LEMMA PolyOfEqual ==
  ASSUME NEW v \in Int, NEW n \in Nat, NEW h, NEW f,
         \A k \in 1..n : h[k] \in Int /\ f[k] = h[k]
  PROVE  PolySum(h, n, v) = PolySum(f, n, v)
<1>1. \A k \in 1..n : h[k] \in Int /\ f[k] \in Int /\ Same(h[k], f[k], 0)
  <2>1. ASSUME NEW k \in 1..n PROVE Same(h[k], f[k], 0)
    <3>1. h[k] \in Int /\ f[k] = h[k]
      OBVIOUS
    <3> QED BY <3>1, SameOfZero
  <2> QED BY <2>1
<1>2. Same(PolySum(h, n, v), PolySum(f, n, v), 0)
  <2>1. 0 \in Nat
    OBVIOUS
  <2> QED BY <1>1, <2>1, PolyOfSame
<1>3. PolySum(h, n, v) \in Int /\ PolySum(f, n, v) \in Int
  BY <1>1, PolyStep
<1> QED BY <1>2, <1>3, SameOfZero

(* A factor X^c moves the coefficients up by c.                             *)
MovesUp(g, f, c, n) ==
    (\A k \in 1..c : g[k] = 0) /\ (\A k \in 1..n : f[k] \in Int /\ g[c + k] = f[k])

LEMMA PolyShift ==
  ASSUME NEW v \in Int, NEW c \in Nat, NEW n \in Nat, NEW g, NEW f, MovesUp(g, f, c, n)
  PROVE  PolySum(g, c + n, v) = Raised(v, c) * PolySum(f, n, v)
<1>0. (\A k \in 1..c : g[k] = 0) /\ (\A k \in 1..n : f[k] \in Int /\ g[c + k] = f[k])
  BY DEF MovesUp
<1> DEFINE h == [k \in 1..(c + n) |-> g[k] * Raised(v, k - 1)]
           low == [k \in 1..c |-> 0]
           high == [k \in 1..n |-> Raised(v, c) * (f[k] * Raised(v, k - 1))]
           fr == [k \in 1..n |-> f[k] * Raised(v, k - 1)]
<1>1. ASSUME NEW k \in 1..c PROVE h[k] \in Int /\ low[k] = h[k] /\ low[k] = 0
  <2>1. k \in 1..(c + n) /\ k - 1 \in Nat
    OBVIOUS
  <2>2. PICK p \in Int : p = Raised(v, k - 1)
    BY <2>1, RaisedStep
  <2>3. g[k] = 0 /\ 0 * p = 0
    BY <1>0
  <2> QED BY <2>1, <2>2, <2>3
<1>2. ASSUME NEW k \in 1..n
      PROVE  h[c + k] \in Int /\ high[k] = h[c + k] /\ fr[k] \in Int
             /\ high[k] = Raised(v, c) * fr[k]
  <2>1. c + k \in 1..(c + n) /\ k - 1 \in Nat /\ (c + k) - 1 = c + (k - 1)
    OBVIOUS
  <2>2. PICK fk \in Int, p \in Int, q \in Int : fk = f[k] /\ p = Raised(v, c) /\ q = Raised(v, k - 1)
    BY <1>0, <2>1, RaisedStep
  <2>3. Raised(v, (c + k) - 1) = p * q
    BY <2>1, <2>2, RaisedSum
  <2>4. h[c + k] = fk * (p * q) /\ high[k] = p * (fk * q) /\ fr[k] = fk * q
    <3>1. g[c + k] = fk
      BY <1>0, <2>2
    <3> QED BY <2>1, <2>2, <2>3, <3>1
  <2>5. fk * (p * q) = p * (fk * q) /\ fk * (p * q) \in Int /\ fk * q \in Int
    BY Z3
  <2> HIDE DEF h, high, fr
  <2> QED BY <2>2, <2>4, <2>5
<1>3. PolySum(g, c + n, v) = SumOf(h, c + n) /\ PolySum(f, n, v) = SumOf(fr, n)
  BY DEF PolySum
<1> HIDE DEF h, low, high, fr
<1>4. SumOf(h, c + n) = SumOf(low, c) + SumOf(high, n)
  <2>1. (\A k \in 1..c : h[k] \in Int /\ low[k] = h[k])
        /\ (\A k \in 1..n : h[c + k] \in Int /\ high[k] = h[c + k])
    BY <1>1, <1>2
  <2> QED BY <2>1, SumSplits
<1>5. SumOf(low, c) = 0
  BY <1>1, SumOfZeros
<1>6. PICK p \in Int : p = Raised(v, c)
  BY RaisedStep
<1>7. SumOf(high, n) = p * SumOf(fr, n)
  <2>1. \A k \in 1..n : /\ high[k] \in Int /\ fr[k] \in Int
                        /\ Same(high[k], p * fr[k] + 0 * fr[k], 0)
    <3>1. ASSUME NEW k \in 1..n PROVE /\ high[k] \in Int /\ fr[k] \in Int
                                      /\ Same(high[k], p * fr[k] + 0 * fr[k], 0)
      <4>1. PICK q \in Int, s \in Int : q = fr[k] /\ s = high[k] /\ s = p * q
        <5>1. fr[k] \in Int /\ high[k] \in Int /\ high[k] = p * fr[k]
          BY <1>2, <1>6
        <5> QED BY <5>1
      <4>2. s = p * q + 0 * q /\ p * q + 0 * q \in Int
        BY <4>1
      <4>3. Same(s, p * q + 0 * q, 0)
        BY <4>2, SameOfZero
      <4> QED BY <4>1, <4>3
    <3> QED BY <3>1
  <2>2. Same(SumOf(high, n), p * SumOf(fr, n) + 0 * SumOf(fr, n), 0)
    <3>1. 0 \in Nat /\ 0 \in Int
      OBVIOUS
    <3> QED BY <2>1, <3>1, SumIsLinear
  <2>3. PICK q \in Int, s \in Int : q = SumOf(fr, n) /\ s = SumOf(high, n)
    BY <2>1, SumStep
  <2>4. PICK w \in Int : w = p * q /\ w + 0 * q = w
    BY <2>3
  <2>5. Same(s, w, 0)
    BY <2>2, <2>3, <2>4
  <2> QED BY <2>3, <2>4, <2>5, SameOfZero
<1>8. SumOf(fr, n) \in Int
  BY <1>2, SumStep
<1>9. PICK q \in Int, w \in Int : q = SumOf(fr, n) /\ w = p * q
  BY <1>8
<1> QED BY <1>3, <1>4, <1>5, <1>6, <1>7, <1>9

(* Zeros above the last coefficient change nothing.                         *)
Pads(g, f, c, n) ==
    (\A k \in 1..n : g[k] = IF k <= c THEN f[k] ELSE 0) /\ (\A k \in 1..c : f[k] \in Int)

LEMMA PolyPads ==
  ASSUME NEW v \in Int, NEW c \in Nat, NEW n \in Nat, c <= n, NEW g, NEW f, Pads(g, f, c, n)
  PROVE  PolySum(g, n, v) = PolySum(f, c, v)
<1>0. /\ \A k \in 1..n : g[k] = IF k <= c THEN f[k] ELSE 0
      /\ \A k \in 1..c : f[k] \in Int
  BY DEF Pads
<1> DEFINE Q == {e \in Nat : c + e <= n => PolySum(g, c + e, v) = PolySum(f, c, v)}
<1>10. \A k \in 1..n : g[k] \in Int
  BY <1>0
<1>1. 0 \in Q
  <2>1. \A k \in 1..c : f[k] \in Int /\ g[k] = f[k]
    BY <1>0
  <2>2. PolySum(f, c, v) = PolySum(g, c, v) /\ c + 0 = c
    BY <2>1, PolyOfEqual
  <2> QED BY <2>2
<1>2. ASSUME NEW e \in Q PROVE e + 1 \in Q
  <2>1. CASE c + (e + 1) <= n
    <3>1. PICK d \in Nat : d = c + (e + 1) /\ d > 0 /\ d - 1 = c + e /\ d \in 1..n /\ ~(d <= c)
      BY <2>1
    <3>2. PolySum(g, d, v) = PolySum(g, d - 1, v) + g[d] * Raised(v, d - 1)
      <4>1. \A k \in 1..d : g[k] \in Int
        BY <1>10, <3>1
      <4> QED BY <3>1, <4>1, PolyStep
    <3>3. g[d] = 0
      BY <1>0, <3>1
    <3>4. PICK p \in Int : p = Raised(v, d - 1) /\ 0 * p = 0
      <4>1. d - 1 \in Nat
        BY <3>1
      <4> QED BY <4>1, RaisedStep
    <3>5. PolySum(g, d - 1, v) \in Int /\ PolySum(g, d - 1, v) = PolySum(f, c, v)
      <4>1. \A k \in 1..(c + e) : g[k] \in Int
        BY <1>10, <2>1
      <4>2. PolySum(g, c + e, v) \in Int
        BY <4>1, PolyStep
      <4> QED BY <2>1, <3>1, <4>2
    <3>6. PolySum(g, d, v) = PolySum(f, c, v)
      BY <3>2, <3>3, <3>4, <3>5
    <3> QED BY <3>1, <3>6
  <2> QED BY <2>1
<1>3. Q = Nat
  <2>1. Q \in SUBSET Nat
    OBVIOUS
  <2> HIDE DEF Q
  <2> QED BY <1>1, <1>2, <2>1, Inductive
<1>4. PICK d \in Nat : d = n - c /\ c + d = n
  OBVIOUS
<1>5. d \in Q
  <2> HIDE DEF Q
  <2> QED BY <1>3
<1>6. c + d <= n
  BY <1>4
<1>7. PolySum(g, c + d, v) = PolySum(f, c, v)
  BY <1>5, <1>6
<1> QED BY <1>4, <1>7

(* Changing one coefficient by d changes the value by d times its power.    *)
LEMMA PolyOne ==
  ASSUME NEW m \in Nat, NEW v \in Int, NEW n \in Nat, NEW h, NEW f, NEW j \in 1..n, NEW d \in Int,
         \A k \in 1..n : /\ h[k] \in Int /\ f[k] \in Int
                         /\ Same(h[k], IF k = j THEN f[k] + d ELSE f[k], m)
  PROVE  Same(PolySum(h, n, v), PolySum(f, n, v) + d * Raised(v, j - 1), m)
<1> DEFINE g == [k \in 1..n |-> IF k = j THEN d ELSE 0]
           gr == [k \in 1..n |-> g[k] * Raised(v, k - 1)]
<1>1. \A k \in 1..n : g[k] = (IF k = j THEN d ELSE 0) /\ g[k] \in Int
  OBVIOUS
<1>2. PICK p \in Int : p = Raised(v, j - 1)
  <2>1. j - 1 \in Nat
    OBVIOUS
  <2> QED BY <2>1, RaisedStep
<1>3. \A k \in 1..n : k # j => gr[k] = 0
  <2>1. ASSUME NEW k \in 1..n, k # j PROVE gr[k] = 0
    <3>1. PICK q \in Int : q = Raised(v, k - 1) /\ 0 * q = 0
      <4>1. k - 1 \in Nat
        OBVIOUS
      <4> QED BY <4>1, RaisedStep
    <3> QED BY <2>1, <3>1
  <2> QED BY <2>1
<1>4. gr[j] = d * p /\ d * p \in Int
  BY <1>2
<1>5. PolySum(g, n, v) = SumOf(gr, n)
  BY DEF PolySum
<1> HIDE DEF g, gr
<1>6. SumOf(gr, n) = d * p
  BY <1>3, <1>4, SumOfOne
<1>7. \A k \in 1..n : /\ h[k] \in Int /\ f[k] \in Int /\ g[k] \in Int
                      /\ Same(h[k], 1 * f[k] + 1 * g[k], m)
  <2>1. ASSUME NEW k \in 1..n PROVE Same(h[k], 1 * f[k] + 1 * g[k], m)
    <3>1. PICK fk \in Int, hk \in Int, gk \in Int : fk = f[k] /\ hk = h[k] /\ gk = g[k]
                /\ gk = (IF k = j THEN d ELSE 0) /\ Same(hk, IF k = j THEN fk + d ELSE fk, m)
      <4>1. f[k] \in Int /\ h[k] \in Int /\ g[k] \in Int
        BY <1>1
      <4> QED BY <1>1, <4>1
    <3>2. (IF k = j THEN fk + d ELSE fk) = 1 * fk + 1 * gk
      BY <3>1
    <3> QED BY <3>1, <3>2
  <2> QED BY <1>1, <2>1
<1>8. Same(PolySum(h, n, v), 1 * PolySum(f, n, v) + 1 * PolySum(g, n, v), m)
  <2>1. 1 \in Int
    OBVIOUS
  <2> QED BY <1>7, <2>1, PolyLinear
<1>9. PICK pf \in Int, w \in Int : pf = PolySum(f, n, v) /\ w = d * p
  BY <1>4, PolyStep
<1>10. 1 * pf + 1 * w = pf + w
  OBVIOUS
<1> QED BY <1>2, <1>5, <1>6, <1>8, <1>9, <1>10
-----------------------------------------------------------------------------
(* Dense polynomials.                                                       *)

(* Elements are numbers.                                                    *)
LEMMA ElementsAreNumbers == FR_MODULUS \in Nat /\ 0 \in F /\ \A a \in F : a \in Int /\ a \in Nat
BY ElementFacts

(* The function of a polynomial takes the residues of its values.           *)
LEMMA FunctionOfIs ==
  ASSUME NEW cs \in Seq(F)
  PROVE  /\ Len(cs) \in Nat /\ DOMAIN cs = 1..Len(cs) /\ \A k \in 1..Len(cs) : cs[k] \in F /\ cs[k] \in Int
         /\ FunctionOf(cs) \in [F -> F]
         /\ \A v \in F : /\ PolySum(cs, Len(cs), v) \in Int
                         /\ Same(FunctionOf(cs)[v], PolySum(cs, Len(cs), v), FR_MODULUS)
<1>1. Len(cs) \in Nat /\ DOMAIN cs = 1..Len(cs) /\ \A k \in 1..Len(cs) : cs[k] \in F /\ cs[k] \in Int
  <2>1. Len(cs) \in Nat /\ DOMAIN cs = 1..Len(cs) /\ \A k \in 1..Len(cs) : cs[k] \in F
    OBVIOUS
  <2> QED BY <2>1, ElementFacts
<1>2. ASSUME NEW v \in F
      PROVE  /\ PolySum(cs, Len(cs), v) \in Int
             /\ FunctionOf(cs)[v] = PolySum(cs, Len(cs), v) % FR_MODULUS
  <2>1. v \in Int
    BY ElementFacts
  <2>2. PolySum(cs, Len(cs), v) \in Int
    BY <1>1, <2>1, PolyStep
  <2>3. FunctionOf(cs)[v] = PolySum(cs, Len(cs), v) % FR_MODULUS
    BY DEF FunctionOf, PolySum
  <2> QED BY <2>2, <2>3
<1>3. \A v \in F : FunctionOf(cs)[v] \in F /\ Same(FunctionOf(cs)[v], PolySum(cs, Len(cs), v), FR_MODULUS)
  BY <1>2, ResidueIsElement
<1>4. FunctionOf(cs) \in [F -> F]
  <2>1. FunctionOf(cs) = [v \in F |-> FunctionOf(cs)[v]]
    BY DEF FunctionOf
  <2> QED BY <1>3, <2>1
<1> QED BY <1>1, <1>2, <1>3, <1>4

(* A function with values congruent to those of a polynomial is its own.     *)
LEMMA FunctionIs ==
  ASSUME NEW cs \in Seq(F), NEW g \in [F -> F],
         \A v \in F : Same(g[v], PolySum(cs, Len(cs), v), FR_MODULUS)
  PROVE  g = FunctionOf(cs)
<1>1. ASSUME NEW v \in F PROVE g[v] = FunctionOf(cs)[v]
  <2>1. PICK p \in F, q \in F, w \in Int :
           p = g[v] /\ q = FunctionOf(cs)[v] /\ w = PolySum(cs, Len(cs), v)
    BY FunctionOfIs
  <2>2. Same(p, w, FR_MODULUS) /\ Same(q, w, FR_MODULUS)
    BY <2>1, FunctionOfIs
  <2>3. p \in Int /\ q \in Int /\ FR_MODULUS \in Nat
    BY ElementFacts
  <2>4. Same(p, q, FR_MODULUS)
    BY <2>2, <2>3, SameChain
  <2> QED BY <2>1, <2>4, ElementIs
<1>2. FunctionOf(cs) \in [F -> F]
  BY FunctionOfIs
<1> QED BY <1>1, <1>2

(* The first n coefficients, zeros included.                                *)
Padded(cs, n) == [k \in 1..n |-> Coefficient(cs, k)]

LEMMA PaddedSum ==
  ASSUME NEW cs \in Seq(F), NEW n \in Nat, Len(cs) <= n, NEW v \in F
  PROVE  /\ PolySum(Padded(cs, n), n, v) = PolySum(cs, Len(cs), v)
         /\ \A k \in 1..n : Padded(cs, n)[k] = Coefficient(cs, k) /\ Padded(cs, n)[k] \in F
                            /\ Padded(cs, n)[k] \in Int
<1>1. Len(cs) \in Nat /\ \A k \in 1..Len(cs) : cs[k] \in F /\ cs[k] \in Int
  BY FunctionOfIs
<1>2. \A k \in 1..n : Padded(cs, n)[k] = IF k <= Len(cs) THEN cs[k] ELSE 0
  BY DEF Padded, Coefficient
<1>3. v \in Int /\ 0 \in F
  BY ElementFacts
<1>4. PolySum(Padded(cs, n), n, v) = PolySum(cs, Len(cs), v)
  <2>1. Pads(Padded(cs, n), cs, Len(cs), n)
    BY <1>1, <1>2 DEF Pads
  <2> QED BY <1>1, <1>3, <2>1, PolyPads
<1>5. \A k \in 1..n : Padded(cs, n)[k] = Coefficient(cs, k)
  BY DEF Padded
<1>6. \A k \in 1..n : Padded(cs, n)[k] \in F
  <2>1. ASSUME NEW k \in 1..n PROVE Padded(cs, n)[k] \in F
    <3>1. k <= Len(cs) => k \in 1..Len(cs)
      BY <1>1
    <3> QED BY <1>1, <1>2, <1>3, <3>1
  <2> QED BY <2>1
<1> QED BY <1>4, <1>5, <1>6, ElementFacts

(* Polynomials with the same coefficients have the same function.           *)
LEMMA SameFunction ==
  ASSUME NEW cs \in Seq(F), NEW ds \in Seq(F),
         \A k \in Nat \ {0} : Coefficient(cs, k) = Coefficient(ds, k)
  PROVE  FunctionOf(cs) = FunctionOf(ds)
<1>1. PICK n \in Nat : Len(cs) <= n /\ Len(ds) <= n
  <2>1. Len(cs) \in Nat /\ Len(ds) \in Nat
    BY FunctionOfIs
  <2>2. Len(cs) + Len(ds) \in Nat /\ Len(cs) <= Len(cs) + Len(ds) /\ Len(ds) <= Len(cs) + Len(ds)
    BY <2>1
  <2> QED BY <2>2
<1>2. ASSUME NEW v \in F PROVE PolySum(cs, Len(cs), v) = PolySum(ds, Len(ds), v)
  <2>1. Padded(cs, n) = Padded(ds, n)
    <3>1. \A k \in 1..n : k \in Nat \ {0}
      OBVIOUS
    <3> QED BY <3>1 DEF Padded
  <2> QED BY <1>1, <2>1, PaddedSum
<1>3. \A v \in F : Same(FunctionOf(cs)[v], PolySum(ds, Len(ds), v), FR_MODULUS)
  BY <1>2, FunctionOfIs
<1>4. FunctionOf(cs) \in [F -> F]
  BY FunctionOfIs
<1> QED BY <1>3, <1>4, FunctionIs

(* The canonical form: no zero at the end, and the same coefficients.       *)
LEMMA CanonicalIs ==
  ASSUME NEW cs \in Seq(F), NEW out, out = Canonical(cs)
  PROVE  /\ out \in Seq(F) /\ Len(out) \in 0..Len(cs)
         /\ Len(out) > 0 => out[Len(out)] # 0 /\ cs[Len(out)] = out[Len(out)]
         /\ \A k \in Nat \ {0} : Coefficient(out, k) = Coefficient(cs, k)
<1> DEFINE size == Len(cs)
           Ends(n) == /\ n = 0 \/ cs[n] # 0
                      /\ \A k \in (n + 1)..size : cs[k] = 0
           len == CHOOSE n \in 0..size : Ends(n)
           T == {n \in 0..size : \A k \in (n + 1)..size : cs[k] = 0}
<1>1. size \in Nat /\ \A k \in 1..size : cs[k] \in F
  BY FunctionOfIs
<1>2. \E n \in 0..size : Ends(n)
  <2>1. size \in T /\ T \in SUBSET Nat
    BY <1>1
  <2>2. PICK u \in T : \A w \in T : u <= w
    <3> HIDE DEF T
    <3> QED BY <2>1, LeastElement
  <2>3. u \in 0..size /\ \A k \in (u + 1)..size : cs[k] = 0
    OBVIOUS
  <2>4. ASSUME u # 0, cs[u] = 0 PROVE FALSE
    <3>1. PICK w \in 0..size : w = u - 1 /\ w + 1 = u
      BY <1>1, <2>3, <2>4
    <3>2. ASSUME NEW k \in (w + 1)..size PROVE cs[k] = 0
      <4>1. k = u \/ k \in (u + 1)..size
        BY <1>1, <2>3, <3>1
      <4> QED BY <2>3, <2>4, <4>1
    <3>3. w \in T
      BY <3>2
    <3>4. ~(u <= w)
      BY <2>3, <3>1
    <3> HIDE DEF T
    <3> QED BY <2>2, <3>3, <3>4
  <2> QED BY <2>3, <2>4
<1>3. len \in 0..size /\ Ends(len)
  <2> HIDE DEF Ends
  <2> QED BY <1>2
<1>4. out = SubSeq(cs, 1, len)
  BY DEF Canonical
<1> HIDE DEF len, T
<1>5. Ends(len) => (len = 0 \/ cs[len] # 0) /\ \A k \in (len + 1)..size : cs[k] = 0
  OBVIOUS
<1>6. out \in Seq(F) /\ Len(out) = len /\ \A k \in 1..len : out[k] = cs[k]
  <2>1. \A k \in 1..len : k \in 1..size
    BY <1>1, <1>3
  <2>2. out = [k \in 1..len |-> cs[k]]
    BY <1>1, <1>3, <1>4
  <2>3. out \in [1..len -> F]
    BY <1>1, <2>1, <2>2
  <2>4. len \in Nat
    BY <1>1, <1>3
  <2>5. out \in Seq(F) /\ Len(out) = len
    BY <2>3, <2>4, VectorLength
  <2> QED BY <2>2, <2>5
<1>7. ASSUME NEW k \in Nat \ {0} PROVE Coefficient(out, k) = Coefficient(cs, k)
  <2>1. CASE k <= len
    <3>1. k \in 1..len /\ k <= size
      BY <1>1, <1>3, <2>1
    <3> QED BY <1>6, <2>1, <3>1 DEF Coefficient
  <2>2. CASE ~(k <= len)
    <3>1. k <= size => k \in (len + 1)..size
      BY <1>1, <1>3, <2>2
    <3>2. Coefficient(out, k) = 0
      BY <1>6, <2>2 DEF Coefficient
    <3>3. k <= size => cs[k] = 0
      BY <1>3, <1>5, <3>1
    <3> QED BY <3>2, <3>3 DEF Coefficient
  <2> QED BY <2>1, <2>2
<1>8. len > 0 => out[len] # 0 /\ cs[len] = out[len]
  <2>1. len > 0 => len \in 1..len /\ len # 0
    BY <1>1, <1>3
  <2> QED BY <1>3, <1>5, <1>6, <2>1
<1> QED BY <1>3, <1>6, <1>7, <1>8

(* Evaluation from the highest coefficient down (Horner) is exact.           *)
LEMMA EvaluateDenseIs ==
  ASSUME NEW cs \in Seq(F), NEW v \in F
  PROVE  EvaluateDense(cs, v) = FunctionOf(cs)[v]
<1> DEFINE n == Len(cs)
           m == FR_MODULUS
           Step(f, k) == IF k = 0 THEN 0 ELSE FAdd(FMul(f[k - 1], v), cs[n + 1 - k])
           G == [k \in 1..n |-> [u \in F |-> FAdd(FMul(u, v), cs[n + 1 - k])]]
           s == CHOOSE s : s = [k \in 0..n |-> Step(s, k)]
<1>1. n \in Nat /\ (\A k \in 1..n : cs[k] \in F /\ cs[k] \in Int) /\ m \in Nat /\ v \in Int /\ 0 \in F
  BY FunctionOfIs, ElementFacts
<1>2. ASSUME NEW u \in F, NEW c \in F
      PROVE  /\ FAdd(FMul(u, v), c) \in F
             /\ Same(FAdd(FMul(u, v), c), v * u + c, m)
  <2>1. PICK w \in F, uv \in Int : /\ w = FMul(u, v) /\ uv = u * v /\ uv = v * u
                                   /\ Same(w, uv, m) /\ w \in Int /\ c \in Int /\ u \in Int
    <3>1. u \in Int /\ c \in Int
      BY ElementFacts
    <3>2. FMul(u, v) \in F /\ Same(FMul(u, v), u * v, m)
      BY <1>1, <3>1, FMulIs
    <3>3. u * v \in Int /\ u * v = v * u
      BY <1>1, <3>1
    <3>4. FMul(u, v) \in Int
      BY <3>2, ElementFacts
    <3> QED BY <3>1, <3>2, <3>3, <3>4
  <2>2. FAdd(w, c) \in F /\ Same(FAdd(w, c), w + c, m)
    BY FAddIs
  <2>3. Same(w + c, uv + c, m)
    BY <1>1, <2>1, SameSum, SameChain
  <2>4. FAdd(w, c) \in Int /\ w + c \in Int /\ uv + c \in Int
    <3>1. FAdd(w, c) \in Int /\ w \in Int /\ c \in Int /\ uv \in Int
      BY <2>1, <2>2, ElementsAreNumbers
    <3>2. w + c \in Int /\ uv + c \in Int
      BY <3>1
    <3> QED BY <3>1, <3>2
  <2>5. Same(FAdd(w, c), uv + c, m)
    BY <1>1, <2>2, <2>3, <2>4, SameChain
  <2> QED BY <2>1, <2>2, <2>5
<1>3. \A k \in 1..n : n + 1 - k \in 1..n
  BY <1>1
<1>4. G \in [1..n -> [F -> F]]
  BY <1>1, <1>2, <1>3
<1>5. PICK f0 : Recurs(f0, F, 0, n, G)
  <2> HIDE DEF G
  <2> QED BY <1>1, <1>4, Recursion
<1>6. f0 \in [0..n -> F] /\ f0[0] = 0 /\ \A k \in 1..n : f0[k] = G[k][f0[k - 1]]
  <2> HIDE DEF G
  <2> QED BY <1>5 DEF Recurs
<1>7. ASSUME NEW k \in 0..n PROVE f0[k] = Step(f0, k)
  <2>1. k # 0 => k - 1 \in 0..n /\ k \in 1..n
    BY <1>1
  <2>2. k # 0 => f0[k - 1] \in F /\ G[k] = [u \in F |-> FAdd(FMul(u, v), cs[n + 1 - k])]
    BY <1>6, <2>1
  <2> QED BY <1>6, <2>1, <2>2
<1>8. f0 = [k \in 0..n |-> Step(f0, k)]
  <2> HIDE DEF Step, G
  <2>1. f0 = [k \in 0..n |-> f0[k]]
    BY <1>6
  <2> QED BY <1>7, <2>1
<1>9. s = [k \in 0..n |-> Step(s, k)]
  <2> HIDE DEF Step, G
  <2> QED BY <1>8
<1>10. EvaluateDense(cs, v) = s[n]
  BY DEF EvaluateDense
<1> HIDE DEF s, G
<1>11. \A k \in 0..n : s[k] = Step(s, k)
  BY <1>9
<1> DEFINE Top(k) == [j \in 1..k |-> cs[n - k + j]]
           Q == {k \in Nat : k <= n => s[k] \in F /\ Same(s[k], PolySum(Top(k), k, v), m)}
<1>12. 0 \in Q
  <2>1. s[0] = 0
    BY <1>1, <1>11
  <2>2. PolySum(Top(0), 0, v) = 0
    <3>1. 0 \in Nat /\ \A k \in 1..0 : Top(0)[k] \in Int
      OBVIOUS
    <3> HIDE DEF Top
    <3> QED BY <1>1, <3>1, PolyStep
  <2>3. Same(0, 0, m)
    BY <1>1, SameChain
  <2> QED BY <1>1, <2>1, <2>2, <2>3
<1>13. ASSUME NEW k \in Q PROVE k + 1 \in Q
  <2>1. CASE k + 1 <= n
    <3>1. PICK e \in Nat, c \in F :
             /\ e = k + 1 /\ e \in 1..n /\ e - 1 = k /\ e = 1 + k /\ n + 1 - e = n - k
             /\ n - k \in 1..n /\ c = cs[n - k] /\ k \in Nat /\ e \in 0..n /\ e # 0
      <4>1. k \in Nat /\ n - k \in 1..n
        BY <1>1, <2>1
      <4>2. cs[n - k] \in F
        BY <1>1, <4>1
      <4> QED BY <1>1, <2>1, <4>1, <4>2
    <3>2. PICK u \in F : u = s[k] /\ u \in Int /\ c \in Int /\ Same(u, PolySum(Top(k), k, v), m)
      <4>1. k <= n
        BY <1>1, <2>1, <3>1
      <4>2. s[k] \in F /\ Same(s[k], PolySum(Top(k), k, v), m)
        BY <4>1
      <4>3. s[k] \in Int /\ c \in Int
        BY <4>2, ElementsAreNumbers
      <4> QED BY <4>2, <4>3
    <3>3. s[e] = FAdd(FMul(u, v), c)
      BY <1>11, <3>1, <3>2
    <3>4. s[e] \in F /\ Same(s[e], v * u + c, m)
      BY <1>2, <3>3
    <3> DEFINE lower == Top(k)
               upper == Top(e)
               g == [j \in 1..e |-> IF j = 1 THEN 0 ELSE upper[j]]
    <3>5. /\ \A j \in 1..k : lower[j] \in Int /\ g[1 + j] = lower[j]
          /\ \A j \in 1..e : upper[j] \in Int
          /\ upper[1] = c
      <4>1. ASSUME NEW j \in 1..k PROVE lower[j] \in Int /\ g[1 + j] = lower[j]
        <5>1. n - k + j \in 1..n /\ 1 + j \in 1..e /\ 1 + j # 1 /\ n - e + (1 + j) = n - k + j
          BY <1>1, <3>1
        <5> QED BY <1>1, <5>1
      <4>2. ASSUME NEW j \in 1..e PROVE upper[j] \in Int
        <5>1. n - e + j \in 1..n
          BY <1>1, <3>1
        <5> QED BY <1>1, <5>1
      <4>3. upper[1] = c
        <5>1. 1 \in 1..e /\ n - e + 1 = n - k
          BY <1>1, <3>1
        <5> QED BY <3>1, <5>1
      <4> QED BY <4>1, <4>2, <4>3
    <3>6. (\A j \in 1..1 : g[j] = 0) /\ 1 \in 1..e
      BY <3>1
    <3>7. \A j \in 1..e : /\ upper[j] \in Int /\ g[j] \in Int
                          /\ Same(upper[j], IF j = 1 THEN g[j] + c ELSE g[j], m)
      <4>1. ASSUME NEW j \in 1..e
            PROVE  g[j] \in Int /\ upper[j] = IF j = 1 THEN g[j] + c ELSE g[j]
        <5>1. g[j] = IF j = 1 THEN 0 ELSE upper[j]
          OBVIOUS
        <5>2. PICK q \in Int : q = upper[j] /\ (j = 1 => q = c)
          BY <3>5
        <5> HIDE DEF g, upper
        <5> QED BY <3>2, <5>1, <5>2
      <4>2. ASSUME NEW j \in 1..e PROVE Same(upper[j], IF j = 1 THEN g[j] + c ELSE g[j], m)
        <5>1. PICK q \in Int : q = upper[j]
          BY <3>5
        <5>2. Same(q, q, m)
          BY <1>1, SameChain
        <5> HIDE DEF g, upper
        <5> QED BY <4>1, <5>1, <5>2
      <4> HIDE DEF g, upper
      <4> QED BY <3>5, <4>1, <4>2
    <3> HIDE DEF g, upper, lower
    <3>8. PolySum(g, 1 + k, v) = Raised(v, 1) * PolySum(lower, k, v)
      <4>1. PICK o \in Nat : o = 1
        OBVIOUS
      <4>2. (\A j \in 1..o : g[j] = 0) /\ (\A j \in 1..k : lower[j] \in Int /\ g[o + j] = lower[j])
        BY <3>5, <3>6, <4>1
      <4>3. k \in Nat /\ v \in Int
        BY <1>1, <3>1
      <4>4. MovesUp(g, lower, o, k)
        BY <4>2 DEF MovesUp
      <4>5. PolySum(g, o + k, v) = Raised(v, o) * PolySum(lower, k, v)
        BY <4>3, <4>4, PolyShift
      <4> QED BY <4>1, <4>5
    <3>9. Same(PolySum(upper, e, v), PolySum(g, e, v) + c * Raised(v, 1 - 1), m)
      BY <1>1, <3>2, <3>6, <3>7, PolyOne
    <3>10. Raised(v, 1) = v /\ Raised(v, 1 - 1) = 1
      <4>1. Raised(v, 0) = 1 /\ Raised(v, 0 + 1) = Raised(v, 0) * v /\ 0 + 1 = 1 /\ 1 - 1 = 0
        BY <1>1, RaisedStep
      <4> QED BY <1>1, <4>1
    <3>11. PICK pl \in Int, pu \in Int, w \in Int :
              /\ pl = PolySum(lower, k, v) /\ pu = PolySum(upper, e, v) /\ w = v * pl
              /\ Same(u, pl, m) /\ Same(pu, w + c, m)
      <4>1. PolySum(lower, k, v) \in Int /\ PolySum(upper, e, v) \in Int
        BY <1>1, <3>1, <3>5, PolyStep
      <4>2. PICK pl \in Int, w \in Int : pl = PolySum(lower, k, v) /\ w = v * pl
        BY <1>1, <4>1
      <4>3. PolySum(g, e, v) = w
        BY <3>1, <3>8, <3>10, <4>2
      <4>4. Same(u, pl, m)
        BY <3>2, <4>2 DEF lower
      <4>5. c * 1 = c
        BY <3>2
      <4>6. Same(PolySum(upper, e, v), w + c, m)
        BY <3>9, <3>10, <4>3, <4>5
      <4> QED BY <4>1, <4>2, <4>4, <4>6
    <3>12. Same(s[e], pu, m)
      <4>1. Same(v * u, v * pl, m)
        BY <1>1, <3>2, <3>11, SameTimes
      <4>2. PICK vu \in Int : vu = v * u
        BY <1>1, <3>2
      <4>3. Same(vu + c, w + c, m)
        <5>1. Same(vu, w, m) /\ Same(c, c, m)
          BY <1>1, <3>2, <3>11, <4>1, <4>2, SameChain
        <5> QED BY <1>1, <3>2, <3>11, <4>2, <5>1, SameSum
      <4>4. PICK q \in Int : q = s[e]
        BY <3>4, ElementsAreNumbers
      <4>5. Same(q, vu + c, m) /\ vu + c \in Int /\ w + c \in Int
        <5>1. Same(q, vu + c, m)
          BY <3>4, <4>2, <4>4
        <5>2. vu \in Int /\ c \in Int /\ w \in Int
          BY <3>2, <3>11, <4>2
        <5>3. vu + c \in Int /\ w + c \in Int
          BY <5>2
        <5> QED BY <5>1, <5>3
      <4>6. Same(w + c, pu, m)
        BY <1>1, <3>11, <4>5, SameChain
      <4>7. Same(q, w + c, m)
        BY <1>1, <4>3, <4>4, <4>5, SameChain
      <4>8. Same(q, pu, m)
        BY <1>1, <3>11, <4>4, <4>5, <4>6, <4>7, SameChain
      <4> QED BY <4>4, <4>8
    <3>13. Same(s[e], PolySum(Top(e), e, v), m)
      BY <3>11, <3>12 DEF upper
    <3> HIDE DEF Top
    <3> QED BY <3>1, <3>4, <3>13
  <2> HIDE DEF Top
  <2> QED BY <2>1
<1>14. Q = Nat
  <2>1. Q \in SUBSET Nat
    OBVIOUS
  <2> HIDE DEF Q
  <2> QED BY <1>12, <1>13, <2>1, Inductive
<1>15. s[n] \in F /\ Same(s[n], PolySum(Top(n), n, v), m)
  <2>1. n \in Q
    <3> HIDE DEF Q
    <3> QED BY <1>1, <1>14
  <2> HIDE DEF Top
  <2> QED BY <1>1, <2>1
<1>16. PolySum(Top(n), n, v) = PolySum(cs, n, v)
  <2>1. \A j \in 1..n : cs[j] \in Int /\ Top(n)[j] = cs[j]
    <3>1. \A j \in 1..n : n - n + j = j
      BY <1>1
    <3> QED BY <1>1, <3>1
  <2> HIDE DEF Top
  <2> QED BY <1>1, <2>1, PolyOfEqual
<1>17. PICK q \in F, p \in F, w \in Int : q = s[n] /\ p = FunctionOf(cs)[v] /\ w = PolySum(cs, n, v)
  BY <1>15, FunctionOfIs
<1>18. Same(q, w, m) /\ Same(p, w, m) /\ q \in Int /\ p \in Int
  <2>1. Same(q, w, m)
    BY <1>15, <1>16, <1>17
  <2>2. Same(p, w, m)
    BY <1>17, FunctionOfIs
  <2> QED BY <2>1, <2>2, ElementsAreNumbers
<1>19. Same(q, p, m)
  BY <1>1, <1>17, <1>18, SameChain
<1>20. q = p
  BY <1>19, ElementIs
<1> QED BY <1>10, <1>17, <1>20
-----------------------------------------------------------------------------
(* Sums, differences and multiples of dense polynomials.                    *)

(* h and g are the combinations, with factors a and b, of the coefficients  *)
(* of p and q and of their functions.                                       *)
CombinesTerms(h, p, q, n, a, b) ==
    \A k \in 1..n : Same(h[k], a * Coefficient(p, k) + b * Coefficient(q, k), FR_MODULUS)
CombinesValues(g, p, q, a, b) ==
    \A v \in F : Same(g[v], a * FunctionOf(p)[v] + b * FunctionOf(q)[v], FR_MODULUS)

(* A linear combination of coefficients, made canonical, has the linear     *)
(* combination of the functions for its function.                           *)
LEMMA CombinationIs ==
  ASSUME NEW p \in Seq(F), NEW q \in Seq(F), NEW n \in Nat, Len(p) <= n, Len(q) <= n,
         NEW a \in Int, NEW b \in Int, NEW h \in [1..n -> F],
         CombinesTerms(h, p, q, n, a, b), NEW g \in [F -> F], CombinesValues(g, p, q, a, b),
         NEW out, out = Canonical(h)
  PROVE  /\ out \in Seq(F) /\ Len(out) \in 0..n
         /\ Len(out) > 0 => out[Len(out)] # 0
         /\ g = FunctionOf(out)
<1>1. h \in Seq(F) /\ Len(h) = n
  BY VectorLength
<1>2. /\ out \in Seq(F) /\ Len(out) \in 0..n /\ (Len(out) > 0 => out[Len(out)] # 0)
      /\ \A k \in Nat \ {0} : Coefficient(out, k) = Coefficient(h, k)
  BY <1>1, CanonicalIs
<1>3. FunctionOf(out) = FunctionOf(h)
  BY <1>1, <1>2, SameFunction
<1>4. PICK m \in Nat : m = FR_MODULUS
  BY ElementsAreNumbers
<1>5. ASSUME NEW v \in F PROVE Same(g[v], PolySum(h, n, v), m)
  <2>1. v \in Int
    BY ElementsAreNumbers
  <2>2. PICK ph, qh : ph = Padded(p, n) /\ qh = Padded(q, n)
    OBVIOUS
  <2>3. /\ PolySum(ph, n, v) = PolySum(p, Len(p), v) /\ PolySum(qh, n, v) = PolySum(q, Len(q), v)
        /\ \A k \in 1..n : /\ ph[k] = Coefficient(p, k) /\ ph[k] \in Int
                           /\ qh[k] = Coefficient(q, k) /\ qh[k] \in Int
    BY <2>2, PaddedSum
  <2>4. \A k \in 1..n : /\ h[k] \in Int /\ ph[k] \in Int /\ qh[k] \in Int
                        /\ Same(h[k], a * ph[k] + b * qh[k], m)
    BY <1>4, <2>3, ElementsAreNumbers DEF CombinesTerms
  <2>5. Same(PolySum(h, n, v), a * PolySum(ph, n, v) + b * PolySum(qh, n, v), m)
    BY <2>1, <2>4, PolyLinear
  <2>6. PICK ps \in Int, qs \in Int : ps = PolySum(p, Len(p), v) /\ qs = PolySum(q, Len(q), v)
    BY FunctionOfIs
  <2>7. PICK hs \in Int : hs = PolySum(h, n, v)
    BY <1>1, FunctionOfIs
  <2>8. PICK fp \in Int, fq \in Int, gv \in Int :
           fp = FunctionOf(p)[v] /\ fq = FunctionOf(q)[v] /\ gv = g[v]
    BY FunctionOfIs, ElementsAreNumbers
  <2>9. Same(fp, ps, m) /\ Same(fq, qs, m)
    BY <1>4, <2>6, <2>8, FunctionOfIs
  <2>10. PICK t1 \in Int, t2 \in Int, s1 \in Int, s2 \in Int :
            t1 = a * fp /\ t2 = b * fq /\ s1 = a * ps /\ s2 = b * qs
    OBVIOUS
  <2>11. Same(t1, s1, m) /\ Same(t2, s2, m)
    BY <2>9, <2>10, SameTimes
  <2>12. Same(t1 + t2, s1 + s2, m) /\ t1 + t2 \in Int /\ s1 + s2 \in Int
    BY <2>11, SameSum
  <2>13. Same(gv, t1 + t2, m) /\ Same(hs, s1 + s2, m)
    BY <1>4, <2>3, <2>5, <2>6, <2>7, <2>8, <2>10 DEF CombinesValues
  <2>14. Same(gv, s1 + s2, m) /\ Same(s1 + s2, hs, m)
    BY <2>12, <2>13, SameChain
  <2>15. Same(gv, hs, m)
    BY <2>12, <2>14, SameChain
  <2> QED BY <2>7, <2>8, <2>15
<1>6. g = FunctionOf(h)
  <2>1. \A v \in F : Same(g[v], PolySum(h, Len(h), v), FR_MODULUS)
    BY <1>1, <1>4, <1>5
  <2> QED BY <1>1, <2>1, FunctionIs
<1> QED BY <1>2, <1>3, <1>6

(* Coefficients are elements, also those beyond the end.                    *)
LEMMA CoefficientIs ==
  ASSUME NEW cs \in Seq(F), NEW k \in Nat \ {0}
  PROVE  /\ Coefficient(cs, k) \in F /\ Coefficient(cs, k) \in Int
         /\ Coefficient(cs, k) # 0 => k \in 1..Len(cs) /\ Coefficient(cs, k) = cs[k]
<1>1. Len(cs) \in Nat /\ \A j \in 1..Len(cs) : cs[j] \in F
  BY FunctionOfIs
<1>2. Coefficient(cs, k) \in F /\ (Coefficient(cs, k) # 0 => k \in 1..Len(cs) /\ Coefficient(cs, k) = cs[k])
  BY <1>1, ElementsAreNumbers DEF Coefficient
<1> QED BY <1>2, ElementsAreNumbers

(* The sum and the difference of two polynomials.                           *)
LEMMA CombineIs ==
  ASSUME NEW p \in Seq(F), NEW q \in Seq(F), NEW n \in Nat, Len(p) <= n, Len(q) <= n
  PROVE  /\ \A out : out = Combine(p, q, FAdd) =>
              /\ out \in Seq(F) /\ Len(out) \in 0..n
              /\ Len(out) > 0 => out[Len(out)] # 0
              /\ [v \in F |-> (FunctionOf(p)[v] + FunctionOf(q)[v]) % FR_MODULUS] = FunctionOf(out)
         /\ \A out : out = Combine(p, q, FSub) =>
              /\ out \in Seq(F) /\ Len(out) \in 0..n
              /\ Len(out) > 0 => out[Len(out)] # 0
              /\ [v \in F |-> (FunctionOf(p)[v] - FunctionOf(q)[v]) % FR_MODULUS] = FunctionOf(out)
<1>1. PICK w \in Nat : w = Longer(p, q) /\ Len(p) <= w /\ Len(q) <= w /\ w <= n
  <2>1. Len(p) \in Nat /\ Len(q) \in Nat
    BY FunctionOfIs
  <2> QED BY <2>1 DEF Longer
<1>2. \A v \in F : FunctionOf(p)[v] \in F /\ FunctionOf(p)[v] \in Int /\ FunctionOf(q)[v] \in F
                     /\ FunctionOf(q)[v] \in Int
  BY FunctionOfIs, ElementsAreNumbers
<1>3. \A k \in 1..w : /\ Coefficient(p, k) \in F /\ Coefficient(p, k) \in Int
                      /\ Coefficient(q, k) \in F /\ Coefficient(q, k) \in Int
  BY CoefficientIs
<1>4. 1 \in Int /\ -1 \in Int
  OBVIOUS
<1>5. ASSUME NEW out, out = Combine(p, q, FAdd)
      PROVE  /\ out \in Seq(F) /\ Len(out) \in 0..w
             /\ Len(out) > 0 => out[Len(out)] # 0
             /\ [v \in F |-> (FunctionOf(p)[v] + FunctionOf(q)[v]) % FR_MODULUS] = FunctionOf(out)
  <2>1. PICK h : h = [k \in 1..w |-> FAdd(Coefficient(p, k), Coefficient(q, k))]
    OBVIOUS
  <2>2. out = Canonical(h)
    BY <1>1, <1>5, <2>1 DEF Combine
  <2>3. PICK g : g = [v \in F |-> (FunctionOf(p)[v] + FunctionOf(q)[v]) % FR_MODULUS]
    OBVIOUS
  <2>4. h \in [1..w -> F]
    BY <1>3, <2>1, FAddIs
  <2>5. CombinesTerms(h, p, q, w, 1, 1)
    <3> SUFFICES ASSUME NEW k \in 1..w
                 PROVE  Same(h[k], 1 * Coefficient(p, k) + 1 * Coefficient(q, k), FR_MODULUS)
      BY DEF CombinesTerms
    <3>1. PICK c \in Int, d \in Int : c = Coefficient(p, k) /\ d = Coefficient(q, k)
      BY <1>3
    <3>2. Same(h[k], c + d, FR_MODULUS)
      BY <1>3, <2>1, <3>1, FAddIs
    <3>3. 1 * c + 1 * d = c + d
      OBVIOUS
    <3> QED BY <3>1, <3>2, <3>3
  <2>6. g \in [F -> F]
    BY <1>2, <2>3, ResidueIsElement
  <2>7. CombinesValues(g, p, q, 1, 1)
    <3> SUFFICES ASSUME NEW v \in F
                 PROVE  Same(g[v], 1 * FunctionOf(p)[v] + 1 * FunctionOf(q)[v], FR_MODULUS)
      BY DEF CombinesValues
    <3>1. PICK c \in Int, d \in Int : c = FunctionOf(p)[v] /\ d = FunctionOf(q)[v]
      BY <1>2
    <3>2. g[v] = (c + d) % FR_MODULUS /\ c + d \in Int
      BY <2>3, <3>1
    <3>3. 1 * c + 1 * d = c + d
      OBVIOUS
    <3> QED BY <3>1, <3>2, <3>3, ResidueIsElement
  <2>8. out \in Seq(F) /\ Len(out) \in 0..w /\ (Len(out) > 0 => out[Len(out)] # 0) /\ g = FunctionOf(out)
    <3>1. PICK one \in Int, other \in Int : one = 1 /\ other = 1
      BY <1>4
    <3>2. CombinesTerms(h, p, q, w, one, other) /\ CombinesValues(g, p, q, one, other)
      BY <2>5, <2>7, <3>1
    <3>3. /\ p \in Seq(F) /\ q \in Seq(F) /\ w \in Nat /\ Len(p) <= w /\ Len(q) <= w
          /\ one \in Int /\ other \in Int /\ h \in [1..w -> F] /\ g \in [F -> F]
      BY <1>1, <2>4, <2>6
    <3> QED BY ONLY <2>2, <3>2, <3>3, CombinationIs
  <2> QED BY <2>3, <2>8
<1>6. ASSUME NEW out, out = Combine(p, q, FSub)
      PROVE  /\ out \in Seq(F) /\ Len(out) \in 0..w
             /\ Len(out) > 0 => out[Len(out)] # 0
             /\ [v \in F |-> (FunctionOf(p)[v] - FunctionOf(q)[v]) % FR_MODULUS] = FunctionOf(out)
  <2>1. PICK h : h = [k \in 1..w |-> FSub(Coefficient(p, k), Coefficient(q, k))]
    OBVIOUS
  <2>2. out = Canonical(h)
    BY <1>1, <1>6, <2>1 DEF Combine
  <2>3. PICK g : g = [v \in F |-> (FunctionOf(p)[v] - FunctionOf(q)[v]) % FR_MODULUS]
    OBVIOUS
  <2>4. h \in [1..w -> F]
    BY <1>3, <2>1, FSubIs
  <2>5. CombinesTerms(h, p, q, w, 1, -1)
    <3> SUFFICES ASSUME NEW k \in 1..w
                 PROVE  Same(h[k], 1 * Coefficient(p, k) + (-1) * Coefficient(q, k), FR_MODULUS)
      BY DEF CombinesTerms
    <3>1. PICK c \in Int, d \in Int : c = Coefficient(p, k) /\ d = Coefficient(q, k)
      BY <1>3
    <3>2. Same(h[k], c - d, FR_MODULUS)
      BY <1>3, <2>1, <3>1, FSubIs
    <3>3. 1 * c + (-1) * d = c - d
      OBVIOUS
    <3> QED BY <3>1, <3>2, <3>3
  <2>6. g \in [F -> F]
    BY <1>2, <2>3, ResidueIsElement
  <2>7. CombinesValues(g, p, q, 1, -1)
    <3> SUFFICES ASSUME NEW v \in F
                 PROVE  Same(g[v], 1 * FunctionOf(p)[v] + (-1) * FunctionOf(q)[v], FR_MODULUS)
      BY DEF CombinesValues
    <3>1. PICK c \in Int, d \in Int : c = FunctionOf(p)[v] /\ d = FunctionOf(q)[v]
      BY <1>2
    <3>2. g[v] = (c - d) % FR_MODULUS /\ c - d \in Int
      BY <2>3, <3>1
    <3>3. 1 * c + (-1) * d = c - d
      OBVIOUS
    <3> QED BY <3>1, <3>2, <3>3, ResidueIsElement
  <2>8. out \in Seq(F) /\ Len(out) \in 0..w /\ (Len(out) > 0 => out[Len(out)] # 0) /\ g = FunctionOf(out)
    <3>1. PICK one \in Int, other \in Int : one = 1 /\ other = -1
      BY <1>4
    <3>2. CombinesTerms(h, p, q, w, one, other) /\ CombinesValues(g, p, q, one, other)
      BY <2>5, <2>7, <3>1
    <3>3. /\ p \in Seq(F) /\ q \in Seq(F) /\ w \in Nat /\ Len(p) <= w /\ Len(q) <= w
          /\ one \in Int /\ other \in Int /\ h \in [1..w -> F] /\ g \in [F -> F]
      BY <1>1, <2>4, <2>6
    <3> QED BY ONLY <2>2, <3>2, <3>3, CombinationIs
  <2> QED BY <2>3, <2>8
<1>7. \A out : Len(out) \in 0..w => Len(out) \in 0..n
  BY <1>1
<1> QED BY <1>5, <1>6, <1>7

(* A multiple of a polynomial.                                              *)
LEMMA ScaledIs ==
  ASSUME NEW p \in Seq(F), NEW s \in F, NEW out, out = Scaled(p, s)
  PROVE  /\ out \in Seq(F) /\ Len(out) \in 0..Len(p)
         /\ Len(out) > 0 => out[Len(out)] # 0
         /\ [v \in F |-> (FunctionOf(p)[v] * s) % FR_MODULUS] = FunctionOf(out)
<1>1. PICK n \in Nat : n = Len(p) /\ n <= n
  BY FunctionOfIs
<1>2. \A k \in 1..n : p[k] \in F /\ p[k] \in Int
  BY <1>1, FunctionOfIs
<1>3. PICK h : h = [k \in 1..n |-> FMul(p[k], s)]
  OBVIOUS
<1>4. out = Canonical(h)
  BY <1>1, <1>3 DEF Scaled
<1>5. s \in Int /\ 0 \in Int
  BY ElementsAreNumbers
<1>6. h \in [1..n -> F]
  BY <1>2, <1>3, <1>5, FMulIs
<1>7. CombinesTerms(h, p, p, n, s, 0)
  <2> SUFFICES ASSUME NEW k \in 1..n
               PROVE  Same(h[k], s * Coefficient(p, k) + 0 * Coefficient(p, k), FR_MODULUS)
    BY DEF CombinesTerms
  <2>1. PICK c \in Int : c = Coefficient(p, k) /\ c = p[k]
    BY <1>1, <1>2 DEF Coefficient
  <2>2. Same(h[k], c * s, FR_MODULUS)
    BY <1>3, <1>5, <2>1, FMulIs
  <2>3. c * s = s * c + 0 * c
    BY <1>5, Z3
  <2> QED BY <2>1, <2>2, <2>3
<1>8. PICK g : g = [v \in F |-> (FunctionOf(p)[v] * s) % FR_MODULUS]
  OBVIOUS
<1>9. \A v \in F : FunctionOf(p)[v] \in Int
  BY FunctionOfIs, ElementsAreNumbers
<1>10. g \in [F -> F]
  <2>1. \A v \in F : FunctionOf(p)[v] * s \in Int
    BY <1>5, <1>9
  <2> QED BY <1>8, <2>1, ResidueIsElement
<1>11. CombinesValues(g, p, p, s, 0)
  <2> SUFFICES ASSUME NEW v \in F
               PROVE  Same(g[v], s * FunctionOf(p)[v] + 0 * FunctionOf(p)[v], FR_MODULUS)
    BY DEF CombinesValues
  <2>1. PICK c \in Int : c = FunctionOf(p)[v]
    BY <1>9
  <2>2. g[v] = (c * s) % FR_MODULUS /\ c * s \in Int
    BY <1>5, <1>8, <2>1
  <2>3. c * s = s * c + 0 * c
    BY <1>5, Z3
  <2>4. Same(g[v], c * s, FR_MODULUS)
    BY <2>2, ResidueIsElement
  <2> QED BY <2>1, <2>3, <2>4
<1>12. out \in Seq(F) /\ Len(out) \in 0..n /\ (Len(out) > 0 => out[Len(out)] # 0) /\ g = FunctionOf(out)
  <2>1. PICK a \in Int, b \in Int, q \in Seq(F) : a = s /\ b = 0 /\ q = p
    BY <1>5
  <2>2. CombinesTerms(h, p, q, n, a, b) /\ CombinesValues(g, p, q, a, b)
    BY <1>7, <1>11, <2>1
  <2>3. /\ p \in Seq(F) /\ q \in Seq(F) /\ n \in Nat /\ Len(p) <= n /\ Len(q) <= n
        /\ a \in Int /\ b \in Int /\ h \in [1..n -> F] /\ g \in [F -> F]
    BY <1>1, <1>6, <1>10, <2>1
  <2> QED BY ONLY <1>4, <2>2, <2>3, CombinationIs
<1> QED BY <1>1, <1>8, <1>12
-----------------------------------------------------------------------------
(* Products of dense polynomials.                                           *)

(* row follows the two loops: each coefficient of p adds its multiple of q, *)
(* moved up by its place.                                                   *)
ProductRows(p, q, row, n) ==
    /\ \A e \in 0..Len(p) : row[e] \in [1..n -> F]
    /\ \A k \in 1..n : row[0][k] = 0
    /\ \A e \in 1..Len(p), k \in 1..n :
         row[e][k] = IF k - e + 1 \in 1..Len(q)
                     THEN FAdd(row[e - 1][k], FMul(p[e], q[k - e + 1])) ELSE row[e - 1][k]

LEMMA ProductUnfolds ==
  ASSUME NEW p \in Seq(F), NEW q \in Seq(F), Len(p) # 0, Len(q) # 0,
         NEW n \in Nat, n = Len(p) + Len(q) - 1
  PROVE  \E row : ProductRows(p, q, row, n) /\ ProductDense(p, q) = row[Len(p)]
<1> DEFINE la == Len(p)
           lb == Len(q)
           Next0(u, e) == [k \in 1..n |-> IF k - e + 1 \in 1..lb
                                          THEN FAdd(u[k], FMul(p[e], q[k - e + 1])) ELSE u[k]]
           Step(f, e) ==
              [k \in 1..n |-> IF e = 0 THEN 0
                              ELSE IF k - e + 1 \in 1..lb
                                   THEN FAdd(f[e - 1][k], FMul(p[e], q[k - e + 1])) ELSE f[e - 1][k]]
           V == [1..n -> F]
           v0 == [k \in 1..n |-> 0]
           G == [e \in 1..la |-> [u \in V |-> Next0(u, e)]]
           s == CHOOSE s : s = [e \in 0..la |-> Step(s, e)]
<1>1. /\ la \in Nat /\ lb \in Nat /\ 0 \in F /\ v0 \in V
      /\ (\A k \in 1..la : p[k] \in F /\ p[k] \in Int) /\ (\A k \in 1..lb : q[k] \in F /\ q[k] \in Int)
  BY FunctionOfIs, ElementsAreNumbers
<1>2. ASSUME NEW e \in 1..la, NEW u \in V PROVE Next0(u, e) \in V
  <2>1. ASSUME NEW k \in 1..n, k - e + 1 \in 1..lb
        PROVE  FAdd(u[k], FMul(p[e], q[k - e + 1])) \in F
    <3>1. p[e] \in Int /\ q[k - e + 1] \in Int
      BY <1>1, <2>1
    <3>2. FMul(p[e], q[k - e + 1]) \in F
      BY <3>1, FMulIs
    <3> QED BY <3>2, FAddIs
  <2> QED BY <2>1
<1>3. G \in [1..la -> [V -> V]]
  <2> HIDE DEF Next0, V
  <2> QED BY <1>2
<1>4. PICK f0 : Recurs(f0, V, v0, la, G)
  <2> HIDE DEF G, V, v0
  <2> QED BY <1>1, <1>3, Recursion
<1>5. f0 \in [0..la -> V] /\ f0[0] = v0 /\ \A e \in 1..la : f0[e] = G[e][f0[e - 1]]
  <2> HIDE DEF G, V, v0
  <2> QED BY <1>4 DEF Recurs
<1>6. ASSUME NEW e \in 0..la PROVE f0[e] = Step(f0, e)
  <2>1. e # 0 => e - 1 \in 0..la /\ e \in 1..la
    BY <1>1
  <2>2. e # 0 => f0[e] = Next0(f0[e - 1], e)
    <3> HIDE DEF Next0, V, v0, Step
    <3>1. e # 0 => f0[e - 1] \in V
      BY <1>5, <2>1
    <3> QED BY <1>5, <2>1, <3>1
  <2>3. e # 0 => Next0(f0[e - 1], e) = Step(f0, e)
    <3> HIDE DEF V, v0, G
    <3> QED OBVIOUS
  <2>4. e = 0 => v0 = Step(f0, e)
    OBVIOUS
  <2> HIDE DEF Next0, V, v0, Step, G
  <2> QED BY <1>5, <2>2, <2>3, <2>4
<1>7. f0 = [e \in 0..la |-> Step(f0, e)]
  <2> HIDE DEF Step, G, V, v0
  <2>1. f0 = [e \in 0..la |-> f0[e]]
    BY <1>5
  <2> QED BY <1>6, <2>1
<1>8. s = [e \in 0..la |-> Step(s, e)]
  <2> HIDE DEF Step, G
  <2> QED BY <1>7
<1>9. ProductDense(p, q) = s[la]
  <2>1. la + lb - 1 = n
    OBVIOUS
  <2> QED BY <2>1 DEF ProductDense
<1> HIDE DEF s, G, Next0
<1>10. \A e \in 0..la : s[e] = Step(s, e)
  <2> HIDE DEF Step
  <2> QED BY <1>8
<1>11. \A k \in 1..n : s[0][k] = 0
  <2>1. s[0] = Step(s, 0)
    BY <1>1, <1>10
  <2> QED BY <2>1
<1>12. \A e \in 1..la, k \in 1..n :
          s[e][k] = IF k - e + 1 \in 1..lb
                    THEN FAdd(s[e - 1][k], FMul(p[e], q[k - e + 1])) ELSE s[e - 1][k]
  <2> SUFFICES ASSUME NEW e \in 1..la, NEW k \in 1..n
               PROVE  s[e][k] = IF k - e + 1 \in 1..lb
                                THEN FAdd(s[e - 1][k], FMul(p[e], q[k - e + 1])) ELSE s[e - 1][k]
    OBVIOUS
  <2>1. e \in 0..la /\ e # 0
    BY <1>1
  <2>2. s[e] = Step(s, e)
    <3> HIDE DEF Step
    <3> QED BY <1>10, <2>1
  <2>3. Step(s, e) = [j \in 1..n |-> IF j - e + 1 \in 1..lb
                                   THEN FAdd(s[e - 1][j], FMul(p[e], q[j - e + 1])) ELSE s[e - 1][j]]
    BY <2>1
  <2> HIDE DEF Step
  <2> QED BY <2>2, <2>3
<1>13. \A e \in 0..la : s[e] = [k \in 1..n |-> s[e][k]]
  <2> SUFFICES ASSUME NEW e \in 0..la PROVE s[e] = [k \in 1..n |-> s[e][k]]
    OBVIOUS
  <2>1. s[e] = Step(s, e)
    BY <1>10
  <2> QED BY <2>1
<1> HIDE DEF Step
<1> DEFINE Q == {e \in Nat : e <= la => s[e] \in V}
<1>14. 0 \in Q
  <2>1. 0 \in 0..la
    BY <1>1
  <2>2. s[0] = [k \in 1..n |-> s[0][k]]
    BY <1>13, <2>1
  <2> QED BY <1>1, <1>11, <2>2
<1>15. ASSUME NEW k \in Q PROVE k + 1 \in Q
  <2>1. ASSUME k + 1 <= la PROVE s[k + 1] \in V
    <3>1. PICK e \in 1..la : e = k + 1 /\ e - 1 = k /\ k <= la
      BY <1>1, <2>1
    <3>2. s[e - 1] \in V
      BY <3>1
    <3>3. ASSUME NEW j \in 1..n PROVE s[e][j] \in F
      <4>1. s[e - 1][j] \in F
        BY <3>2
      <4>2. ASSUME j - e + 1 \in 1..lb PROVE FAdd(s[e - 1][j], FMul(p[e], q[j - e + 1])) \in F
        <5>1. p[e] \in Int /\ q[j - e + 1] \in Int
          BY <1>1, <4>2
        <5>2. FMul(p[e], q[j - e + 1]) \in F
          BY <5>1, FMulIs
        <5> QED BY <4>1, <5>2, FAddIs
      <4> QED BY <1>12, <4>1, <4>2
    <3>4. s[e] = [j \in 1..n |-> s[e][j]]
      BY <1>1, <1>13
    <3> QED BY <3>1, <3>3, <3>4
  <2> HIDE DEF V
  <2> QED BY <2>1
<1>16. Q = Nat
  <2>1. Q \in SUBSET Nat
    OBVIOUS
  <2> HIDE DEF Q
  <2> QED BY <1>14, <1>15, <2>1, Inductive
<1>17. \A e \in 0..la : s[e] \in V
  <2>1. ASSUME NEW e \in 0..la PROVE s[e] \in V
    <3>1. e \in Q /\ e <= la
      <4> HIDE DEF Q
      <4> QED BY <1>1, <1>16
    <3> QED BY <3>1
  <2> QED BY <2>1
<1>18. ProductRows(p, q, s, n)
  BY <1>11, <1>12, <1>17 DEF ProductRows
<1> QED BY <1>9, <1>18

(* The value of a row is that of the first coefficients of p times that of  *)
(* q; the place of the leading coefficient is empty until the last row.     *)
LEMMA ProductRowSum ==
  ASSUME NEW p \in Seq(F), NEW q \in Seq(F), Len(p) # 0, Len(q) # 0,
         NEW n \in Nat, n = Len(p) + Len(q) - 1, NEW row, ProductRows(p, q, row, n),
         NEW v \in F, NEW c \in 0..Len(p)
  PROVE  Same(PolySum(row[c], n, v), PolySum(p, c, v) * PolySum(q, Len(q), v), FR_MODULUS)
<1> DEFINE la == Len(p)
           lb == Len(q)
<1>1. PICK m \in Nat : m = FR_MODULUS
  BY ElementsAreNumbers
<1>2. /\ la \in Nat /\ lb \in Nat /\ v \in Int /\ 0 \in F
      /\ (\A k \in 1..la : p[k] \in F /\ p[k] \in Int) /\ (\A k \in 1..lb : q[k] \in F /\ q[k] \in Int)
  BY FunctionOfIs, ElementsAreNumbers
<1> DEFINE Q == {e \in Nat : e <= la =>
                   Same(PolySum(row[e], n, v), PolySum(p, e, v) * PolySum(q, lb, v), m)}
<1>3. \A e \in 0..la : PolySum(p, e, v) \in Int
  <2> SUFFICES ASSUME NEW e \in 0..la PROVE PolySum(p, e, v) \in Int
    OBVIOUS
  <2>1. e \in Nat /\ \A k \in 1..e : p[k] \in Int
    BY <1>2
  <2> QED BY <1>2, <2>1, PolyStep
<1>4. PICK qs \in Int : qs = PolySum(q, lb, v)
  BY FunctionOfIs
<1>5. \A e \in 0..la : \A k \in 1..n : row[e][k] \in F /\ row[e][k] \in Int
  BY ElementsAreNumbers DEF ProductRows
<1>6. \A e \in 0..la : PolySum(row[e], n, v) \in Int
  <2> SUFFICES ASSUME NEW e \in 0..la PROVE PolySum(row[e], n, v) \in Int
    OBVIOUS
  <2>1. \A k \in 1..n : row[e][k] \in Int
    BY <1>5
  <2> QED BY <1>2, <2>1, PolyStep
<1>7. 0 \in Q
  <2>1. PolySum(p, 0, v) = 0
    BY <1>2, PolyStep
  <2>2. PolySum(row[0], n, v) = 0
    <3>1. PICK h : h = [k \in 1..n |-> row[0][k] * Raised(v, k - 1)]
      OBVIOUS
    <3>2. \A k \in 1..n : row[0][k] = 0 /\ Raised(v, k - 1) \in Int
      <4>1. \A k \in 1..n : k - 1 \in Nat
        OBVIOUS
      <4> QED BY <1>2, <4>1, RaisedStep DEF ProductRows
    <3>3. \A k \in 1..n : h[k] = 0
      <4> SUFFICES ASSUME NEW k \in 1..n PROVE h[k] = 0
        OBVIOUS
      <4>1. PICK w \in Int : w = Raised(v, k - 1)
        BY <3>2
      <4>2. h[k] = 0 * w
        BY <3>1, <3>2, <4>1
      <4> QED BY <4>2
    <3>4. SumOf(h, n) = 0
      BY <3>3, SumOfZeros
    <3> QED BY <3>1, <3>4 DEF PolySum
  <2>3. 0 * qs = 0
    OBVIOUS
  <2>4. Same(0, 0, m)
    BY <1>1, SameChain
  <2> QED BY <1>4, <2>1, <2>2, <2>3, <2>4
<1>8. ASSUME NEW k0 \in Q PROVE k0 + 1 \in Q
  <2>1. ASSUME k0 + 1 <= la
        PROVE  Same(PolySum(row[k0 + 1], n, v), PolySum(p, k0 + 1, v) * PolySum(q, lb, v), m)
    <3>1. PICK e \in 1..la, d \in Nat :
             /\ e = k0 + 1 /\ e - 1 = d /\ d = k0 /\ d \in 0..la /\ e \in 0..la /\ e \in Nat /\ e > 0
             /\ d + lb <= n /\ d + lb \in Nat
      <4>1. k0 \in Nat /\ la \in Nat /\ lb \in Nat
        BY <1>2
      <4>2. k0 + 1 \in 1..la /\ k0 \in 0..la /\ k0 + 1 \in 0..la /\ k0 + 1 \in Nat /\ (k0 + 1) - 1 = k0
        BY <2>1, <4>1
      <4>3. k0 + lb <= n /\ k0 + lb \in Nat
        BY <2>1, <4>1
      <4> HIDE DEF Q
      <4> QED BY <4>1, <4>2, <4>3
    <3>0. PICK c1 \in Nat : c1 = d + lb /\ c1 <= n
      BY <3>1
    <3>2. PICK f, g, h : /\ f = row[d] /\ h = row[e]
                         /\ g = [k \in 1..n |-> IF k - e + 1 \in 1..lb THEN q[k - e + 1] ELSE 0]
      OBVIOUS
    <3>3. PICK b \in Int : b = p[e] /\ b \in F
      BY <1>2
    <3>4. \A k \in 1..n : /\ h[k] \in Int /\ f[k] \in Int /\ g[k] \in Int
                          /\ Same(h[k], 1 * f[k] + b * g[k], m)
      <4> SUFFICES ASSUME NEW k \in 1..n
                   PROVE  /\ h[k] \in Int /\ f[k] \in Int /\ g[k] \in Int
                          /\ Same(h[k], 1 * f[k] + b * g[k], m)
        OBVIOUS
      <4>1. /\ h[k] \in F /\ h[k] \in Int /\ f[k] \in F /\ f[k] \in Int
            /\ h[k] = IF k - e + 1 \in 1..lb THEN FAdd(f[k], FMul(b, q[k - e + 1])) ELSE f[k]
        BY <1>5, <3>1, <3>2, <3>3 DEF ProductRows
      <4>2. PICK fk \in F, hk \in F : fk = f[k] /\ hk = h[k] /\ fk \in Int /\ hk \in Int
        BY <4>1
      <4>3. CASE k - e + 1 \in 1..lb
        <5>1. PICK c0 \in Int, w \in Int : c0 = q[k - e + 1] /\ g[k] = c0 /\ w = b * c0
          BY <1>2, <3>2, <4>3
        <5>2. PICK z \in F : z = FMul(b, c0) /\ Same(z, w, m) /\ z \in Int
          BY <1>1, <5>1, FMulIs, ElementsAreNumbers
        <5>3. hk = FAdd(fk, z) /\ Same(hk, fk + z, m)
          BY <1>1, <4>1, <4>2, <4>3, <5>1, <5>2, FAddIs
        <5>4. Same(fk + z, fk + w, m)
          BY <4>2, <5>2, SameSum, SameChain
        <5>5. fk + z \in Int /\ fk + w \in Int
          <6>1. fk \in Int /\ z \in Int /\ w \in Int
            BY <4>2, <5>1, <5>2
          <6> QED BY <6>1
        <5>6. Same(hk, fk + w, m)
          BY <4>2, <5>3, <5>4, <5>5, SameChain
        <5>7. fk + w = 1 * fk + w
          BY <4>2, <5>1
        <5> QED BY <4>1, <4>2, <5>1, <5>6, <5>7
      <4>4. CASE k - e + 1 \notin 1..lb
        <5>1. hk = fk /\ g[k] = 0
          BY <3>2, <4>1, <4>2, <4>4
        <5>2. 1 * fk + b * 0 = hk
          BY <4>2, <5>1
        <5>3. Same(hk, hk, m)
          BY <4>2, SameChain
        <5> QED BY <4>1, <4>2, <5>1, <5>2, <5>3
      <4> QED BY <4>3, <4>4
    <3>5. Same(PolySum(h, n, v), 1 * PolySum(f, n, v) + b * PolySum(g, n, v), m)
      <4>1. v \in Int /\ 1 \in Int /\ b \in Int
        BY <1>2
      <4> QED BY <3>4, <4>1, PolyLinear
    <3>6. PolySum(g, n, v) = PolySum(g, c1, v)
      <4>0. PICK g0 : g0 = g
        OBVIOUS
      <4>1. \A k \in 1..n : g[k] = IF k <= c1 THEN g0[k] ELSE 0
        BY <1>2, <3>0, <3>1, <3>2, <4>0
      <4>2. \A k \in 1..c1 : g0[k] \in Int
        BY <1>2, <3>0, <3>1, <3>2, <4>0
      <4>3. v \in Int /\ c1 <= n
        BY <1>2, <3>0
      <4>4. PolySum(g, n, v) = PolySum(g0, c1, v)
        <5>1. Pads(g, g0, c1, n)
          BY <4>1, <4>2 DEF Pads
        <5> QED BY <4>3, <5>1, PolyPads
      <4> QED BY <4>0, <4>4
    <3>7. PolySum(g, c1, v) = Raised(v, d) * qs
      <4>1. \A k \in 1..d : g[k] = 0
        BY <1>2, <3>1, <3>2
      <4>2. \A k \in 1..lb : q[k] \in Int /\ g[d + k] = q[k]
        <5> SUFFICES ASSUME NEW k \in 1..lb PROVE q[k] \in Int /\ g[d + k] = q[k]
          OBVIOUS
        <5>1. d + k \in 1..n /\ (d + k) - e + 1 = k
          BY <1>2, <3>1
        <5> QED BY <1>2, <3>2, <5>1
      <4>3. MovesUp(g, q, d, lb)
        BY <4>1, <4>2 DEF MovesUp
      <4>4. v \in Int /\ lb \in Nat
        BY <1>2
      <4>5. PolySum(g, d + lb, v) = Raised(v, d) * PolySum(q, lb, v)
        BY <4>3, <4>4, PolyShift
      <4> QED BY <1>4, <3>0, <4>5
    <3>8. PICK r \in Int : r = Raised(v, d)
      BY <1>2, <3>1, RaisedStep
    <3>9. PICK pd \in Int, pe \in Int : /\ pd = PolySum(p, d, v) /\ pe = PolySum(p, e, v)
                                       /\ pe = pd + b * r
      <4>1. \A k \in 1..e : p[k] \in Int
        BY <1>2, <3>1
      <4>2. PolySum(p, e, v) = PolySum(p, e - 1, v) + p[e] * Raised(v, e - 1)
        <5>1. v \in Int /\ e \in Nat /\ e > 0
          BY <1>2, <3>1
        <5> QED BY <4>1, <5>1, PolyStep
      <4> QED BY <1>3, <3>1, <3>3, <3>8, <4>2
    <3>10. PICK hs \in Int, fs \in Int : hs = PolySum(h, n, v) /\ fs = PolySum(f, n, v)
      BY <1>6, <3>1, <3>2
    <3>11. PICK pq \in Int, rq \in Int, brq \in Int, all \in Int :
              pq = pd * qs /\ rq = r * qs /\ brq = b * rq /\ all = pe * qs /\ all = pq + brq
      <4>1. pd * qs \in Int /\ r * qs \in Int /\ b * (r * qs) \in Int /\ pe * qs \in Int
        OBVIOUS
      <4>2. (pd + b * r) * qs = pd * qs + b * (r * qs)
        BY Z3
      <4> QED BY <3>9, <4>1, <4>2
    <3>12. Same(fs, pq, m)
      <4>1. d <= la
        BY <1>2, <3>1
      <4>2. Same(PolySum(row[d], n, v), PolySum(p, d, v) * PolySum(q, lb, v), m)
        BY <3>1, <4>1
      <4> QED BY <1>4, <3>2, <3>9, <3>10, <3>11, <4>2
    <3>13. Same(hs, fs + brq, m)
      <4>1. PolySum(g, n, v) = rq
        BY <3>6, <3>7, <3>8, <3>11
      <4>2. 1 * fs + b * rq = fs + brq
        BY <3>11
      <4> QED BY <3>5, <3>10, <4>1, <4>2
    <3>14. Same(fs + brq, pq + brq, m) /\ fs + brq \in Int /\ pq + brq \in Int
      <4>1. Same(brq, brq, m)
        BY SameChain
      <4> QED BY <3>12, <4>1, SameSum
    <3>15. Same(hs, all, m)
      BY <3>11, <3>13, <3>14, SameChain
    <3> QED BY <1>4, <3>1, <3>2, <3>9, <3>10, <3>11, <3>15
  <2> QED BY <2>1
<1>9. Q = Nat
  <2>1. Q \in SUBSET Nat
    OBVIOUS
  <2> HIDE DEF Q
  <2> QED BY <1>7, <1>8, <2>1, Inductive
<1>10. c \in Q /\ c <= la
  <2> HIDE DEF Q
  <2> QED BY <1>2, <1>9
<1> QED BY <1>1, <1>10

(* The leading coefficient is the product of the two leading ones.          *)
LEMMA ProductLeads ==
  ASSUME NEW p \in Seq(F), NEW q \in Seq(F), Len(p) # 0, Len(q) # 0,
         NEW n \in Nat, n = Len(p) + Len(q) - 1, NEW row, ProductRows(p, q, row, n),
         p[Len(p)] # 0, q[Len(q)] # 0
  PROVE  row[Len(p)][n] # 0
<1> DEFINE la == Len(p)
           lb == Len(q)
           Q == {e \in Nat : e < la => row[e][n] = 0}
<1>1. /\ la \in Nat /\ lb \in Nat /\ 0 \in F /\ n \in 1..n
      /\ p[la] \in F /\ p[la] \in Int /\ q[lb] \in F /\ q[lb] \in Int
  <2>0. la \in Nat /\ lb \in Nat
    BY FunctionOfIs
  <2>1. la \in 1..la /\ lb \in 1..lb /\ n \in 1..n /\ la \in Nat /\ lb \in Nat
    BY <2>0
  <2> QED BY <2>1, FunctionOfIs, ElementsAreNumbers
<1>2. 0 \in Q
  BY <1>1 DEF ProductRows
<1>3. ASSUME NEW k0 \in Q PROVE k0 + 1 \in Q
  <2>1. ASSUME k0 + 1 < la PROVE row[k0 + 1][n] = 0
    <3>1. PICK e \in 1..la : e = k0 + 1 /\ e - 1 = k0 /\ k0 < la /\ n - e + 1 \notin 1..lb
      BY <1>1, <2>1
    <3>2. row[e][n] = row[e - 1][n]
      BY <1>1, <3>1 DEF ProductRows
    <3> QED BY <3>1, <3>2
  <2> QED BY <2>1
<1>4. Q = Nat
  <2>1. Q \in SUBSET Nat
    OBVIOUS
  <2> HIDE DEF Q
  <2> QED BY <1>2, <1>3, <2>1, Inductive
<1>5. row[la - 1][n] = 0
  <2>1. la - 1 \in Nat /\ la - 1 < la
    BY <1>1
  <2>2. la - 1 \in Q
    <3> HIDE DEF Q
    <3> QED BY <1>4, <2>1
  <2> QED BY <2>1, <2>2
<1>6. PICK a \in F, b \in F : a = p[la] /\ b = q[lb] /\ a \in Int /\ b \in Int /\ a # 0 /\ b # 0
  BY <1>1
<1>7. row[la][n] = FAdd(0, FMul(a, b))
  <2>1. la \in 1..la /\ n - la + 1 = lb /\ lb \in 1..lb
    BY <1>1
  <2> QED BY <1>1, <1>5, <1>6, <2>1 DEF ProductRows
<1>8. SUFFICES ASSUME FAdd(0, FMul(a, b)) = 0 PROVE FALSE
  BY <1>7
<1>9. PICK m \in Nat : m = FR_MODULUS
  BY ElementsAreNumbers
<1>10. PICK z \in F, w \in Int : z = FMul(a, b) /\ w = a * b /\ Same(z, w, m) /\ z \in Int
  <2>1. FMul(a, b) \in F /\ Same(FMul(a, b), a * b, FR_MODULUS)
    BY <1>6, FMulIs
  <2>2. a * b \in Int
    BY <1>6
  <2>3. FMul(a, b) \in Int
    BY <2>1, ElementsAreNumbers
  <2> QED BY <1>9, <2>1, <2>2, <2>3
<1>11. Same(0, z, m)
  <2>1. PICK zero \in F : zero = 0
    BY <1>1
  <2>2. Same(FAdd(zero, z), zero + z, FR_MODULUS)
    BY FAddIs
  <2>3. zero + z = z
    BY <1>10, <2>1
  <2>4. FAdd(zero, z) = 0
    BY <1>8, <1>10, <2>1
  <2> QED BY <1>9, <2>2, <2>3, <2>4
<1>12. Same(w, 0, m)
  <2>1. 0 \in Int
    OBVIOUS
  <2>2. Same(0, w, m)
    BY <1>10, <1>11, <2>1, SameChain
  <2> QED BY <2>1, <2>2, SameChain
<1>13. Same(a * b, 0, FR_MODULUS)
  BY <1>9, <1>10, <1>12
<1> QED BY <1>6, <1>13, NoZeroProduct

(* The product of two canonical polynomials is canonical, has the product   *)
(* of the functions for its function, and a coefficient less than the two   *)
(* have together.                                                           *)
LEMMA ProductIs ==
  ASSUME NEW p \in Seq(F), NEW q \in Seq(F),
         Len(p) > 0 => p[Len(p)] # 0, Len(q) > 0 => q[Len(q)] # 0,
         NEW out, out = ProductDense(p, q)
  PROVE  /\ out \in Seq(F)
         /\ Len(out) > 0 => /\ out[Len(out)] # 0 /\ p # <<>> /\ q # <<>>
                            /\ Len(out) = Len(p) + Len(q) - 1
         /\ [v \in F |-> (FunctionOf(p)[v] * FunctionOf(q)[v]) % FR_MODULUS] = FunctionOf(out)
<1>1. PICK m \in Nat : m = FR_MODULUS
  BY ElementsAreNumbers
<1>2. Len(p) \in Nat /\ Len(q) \in Nat /\ \A v \in F : v \in Int
  BY FunctionOfIs, ElementsAreNumbers
<1>3. PICK g : g = [v \in F |-> (FunctionOf(p)[v] * FunctionOf(q)[v]) % FR_MODULUS]
  OBVIOUS
<1>4. g \in [F -> F] /\ \A v \in F :
        \E pv \in Int, qv \in Int : /\ pv = PolySum(p, Len(p), v) /\ qv = PolySum(q, Len(q), v)
                                    /\ Same(g[v], pv * qv, m) /\ g[v] \in Int /\ pv * qv \in Int
  <2>1. ASSUME NEW v \in F
        PROVE  /\ (FunctionOf(p)[v] * FunctionOf(q)[v]) % FR_MODULUS \in F
               /\ \E pv \in Int, qv \in Int :
                    /\ pv = PolySum(p, Len(p), v) /\ qv = PolySum(q, Len(q), v)
                    /\ Same(g[v], pv * qv, m) /\ g[v] \in Int /\ pv * qv \in Int
    <3>1. PICK a \in Int, b \in Int : a = FunctionOf(p)[v] /\ b = FunctionOf(q)[v]
      BY FunctionOfIs, ElementsAreNumbers
    <3>2. PICK pv \in Int, qv \in Int : pv = PolySum(p, Len(p), v) /\ qv = PolySum(q, Len(q), v)
      BY FunctionOfIs
    <3>3. Same(a, pv, m) /\ Same(b, qv, m)
      BY <1>1, <3>1, <3>2, FunctionOfIs
    <3>4. PICK ab \in Int, pq \in Int : ab = a * b /\ pq = pv * qv
      OBVIOUS
    <3>5. Same(ab, pq, m)
      BY <3>3, <3>4, SameProduct
    <3>6. g[v] = ab % FR_MODULUS /\ g[v] \in F /\ Same(g[v], ab, m) /\ g[v] \in Int
      <4>1. g[v] = ab % FR_MODULUS
        BY <1>3, <3>1, <3>4
      <4>2. ab % FR_MODULUS \in F /\ Same(ab % FR_MODULUS, ab, m)
        BY <1>1, ResidueIsElement
      <4> QED BY <4>1, <4>2, ElementsAreNumbers
    <3>7. Same(g[v], pq, m)
      BY <3>5, <3>6, SameChain
    <3> QED BY <3>1, <3>2, <3>4, <3>6, <3>7
  <2> QED BY <1>3, <2>1
<1>5. CASE Len(p) = 0 \/ Len(q) = 0
  <2>1. out = <<>> /\ out \in Seq(F) /\ Len(out) = 0
    BY <1>5 DEF ProductDense
  <2>2. ASSUME NEW v \in F PROVE Same(g[v], PolySum(out, Len(out), v), m)
    <3>1. PICK pv \in Int, qv \in Int :
             /\ pv = PolySum(p, Len(p), v) /\ qv = PolySum(q, Len(q), v)
             /\ Same(g[v], pv * qv, m) /\ g[v] \in Int /\ pv * qv \in Int
      BY <1>4
    <3>2. PolySum(p, 0, v) = 0 /\ PolySum(q, 0, v) = 0 /\ PolySum(out, 0, v) = 0
      BY <1>2, PolyStep
    <3>3. pv = 0 \/ qv = 0
      BY <1>5, <3>1, <3>2
    <3>4. pv * qv = 0
      BY <3>3
    <3> QED BY <2>1, <3>1, <3>2, <3>4
  <2>3. g = FunctionOf(out)
    <3>1. \A v \in F : Same(g[v], PolySum(out, Len(out), v), FR_MODULUS)
      BY <1>1, <2>2
    <3> QED BY <1>4, <2>1, <3>1, FunctionIs
  <2> QED BY <1>3, <2>1, <2>3
<1>6. CASE Len(p) # 0 /\ Len(q) # 0
  <2>1. PICK n \in Nat : n = Len(p) + Len(q) - 1 /\ n > 0
    <3>1. Len(p) \in Nat /\ Len(q) \in Nat /\ Len(p) # 0 /\ Len(q) # 0
      BY <1>2, <1>6
    <3>2. Len(p) + Len(q) - 1 \in Nat /\ Len(p) + Len(q) - 1 > 0
      BY <3>1
    <3> QED BY <3>2
  <2>2. PICK row : ProductRows(p, q, row, n) /\ out = row[Len(p)]
    BY <1>6, <2>1, ProductUnfolds
  <2>3. out \in [1..n -> F]
    BY <1>2, <2>2 DEF ProductRows
  <2>4. out \in Seq(F) /\ Len(out) = n
    BY <2>3, VectorLength
  <2>5. out[n] # 0
    <3>1. p[Len(p)] # 0 /\ q[Len(q)] # 0
      BY <1>2, <1>6
    <3> QED BY <1>6, <2>1, <2>2, <3>1, ProductLeads
  <2>6. ASSUME NEW v \in F PROVE Same(g[v], PolySum(out, Len(out), v), m)
    <3>1. PICK pv \in Int, qv \in Int :
             /\ pv = PolySum(p, Len(p), v) /\ qv = PolySum(q, Len(q), v)
             /\ Same(g[v], pv * qv, m) /\ g[v] \in Int /\ pv * qv \in Int
      BY <1>4
    <3>2. Len(p) \in 0..Len(p)
      BY <1>2
    <3>3. Same(PolySum(row[Len(p)], n, v), PolySum(p, Len(p), v) * PolySum(q, Len(q), v), FR_MODULUS)
      BY <1>6, <2>1, <2>2, <3>2, ProductRowSum
    <3>4. PICK hs \in Int : hs = PolySum(out, n, v)
      BY <2>4, FunctionOfIs
    <3>5. Same(hs, pv * qv, m)
      BY <1>1, <2>2, <3>1, <3>3, <3>4
    <3>6. Same(g[v], hs, m)
      BY <3>1, <3>4, <3>5, SameChain
    <3> QED BY <2>4, <3>4, <3>6
  <2>7. g = FunctionOf(out)
    <3>1. \A v \in F : Same(g[v], PolySum(out, Len(out), v), FR_MODULUS)
      BY <1>1, <2>6
    <3> QED BY <1>4, <2>4, <3>1, FunctionIs
  <2>8. p # <<>> /\ q # <<>>
    BY <1>6
  <2> QED BY <1>3, <2>1, <2>4, <2>5, <2>7, <2>8
<1> QED BY <1>5, <1>6
-----------------------------------------------------------------------------
(* Sparse polynomials.                                                      *)

(* As many different members as there are, a finite set has room for.       *)
LEMMA Pigeons ==
  ASSUME NEW T, IsFiniteSet(T), NEW n \in Nat, NEW h \in [1..n -> T],
         \A j, k \in 1..n : j < k => h[j] # h[k]
  PROVE  n <= Cardinality(T)
<1>1. h \in Injection(1..n, T)
  <2>1. \A j, k \in 1..n : h[j] = h[k] => j = k
    OBVIOUS
  <2> QED BY <2>1, Fun_IsInj
<1>2. Cardinality(1..n) <= Cardinality(T)
  BY <1>1, FS_Injection
<1>3. Cardinality(1..n) = n
  BY FS_Interval
<1> QED BY <1>2, <1>3

(* The parts of terms.                                                      *)
LEMMA TermFacts ==
  ASSUME NEW ts \in Seq(U256 \X F)
  PROVE  /\ Len(ts) \in Nat /\ DOMAIN ts = 1..Len(ts)
         /\ \A k \in 1..Len(ts) :
              /\ ts[k] \in U256 \X F /\ ts[k] = <<ts[k][1], ts[k][2]>>
              /\ ts[k][1] \in U256 /\ ts[k][1] \in Nat /\ ts[k][1] + 1 \in 1..Word
              /\ ts[k][2] \in F /\ ts[k][2] \in Int
<1>1. Len(ts) \in Nat /\ DOMAIN ts = 1..Len(ts) /\ \A k \in 1..Len(ts) : ts[k] \in U256 \X F
  OBVIOUS
<1>2. \A e \in U256 : e \in Nat /\ e + 1 \in 1..Word
  BY WordFacts DEF U256
<1>3. \A c \in F : c \in Int
  BY ElementsAreNumbers
<1>4. \A k \in 1..Len(ts) : ts[k][1] \in U256 /\ ts[k][2] \in F /\ ts[k] = <<ts[k][1], ts[k][2]>>
  BY <1>1
<1> QED BY <1>1, <1>2, <1>3, <1>4

(* The value at v of the first n terms.                                     *)
TermSum(ts, n, v) == SumOf([k \in 1..n |-> ts[k][2] * Raised(v, ts[k][1])], n)

LEMMA TermStep ==
  ASSUME NEW ts \in Seq(U256 \X F), NEW v \in Int, NEW n \in 0..Len(ts)
  PROVE  /\ TermSum(ts, n, v) \in Int /\ TermSum(ts, 0, v) = 0
         /\ \A k \in 1..n : Raised(v, ts[k][1]) \in Int
         /\ n > 0 => TermSum(ts, n, v) = TermSum(ts, n - 1, v) + ts[n][2] * Raised(v, ts[n][1])
<1> DEFINE h == [k \in 1..n |-> ts[k][2] * Raised(v, ts[k][1])]
<1>0. n \in Nat /\ \A k \in 1..n : k \in 1..Len(ts)
  BY TermFacts
<1>1. ASSUME NEW k \in 1..n
      PROVE  Raised(v, ts[k][1]) \in Int /\ ts[k][2] * Raised(v, ts[k][1]) \in Int
  <2>1. ts[k][1] \in Nat /\ ts[k][2] \in Int
    BY <1>0, TermFacts
  <2>2. PICK p \in Int, q \in Int : p = ts[k][2] /\ q = Raised(v, ts[k][1])
    BY <2>1, RaisedStep
  <2> QED BY <2>2
<1>2. \A k \in 1..n : h[k] = ts[k][2] * Raised(v, ts[k][1]) /\ h[k] \in Int
  BY <1>1
<1>3. SumOf(h, n) \in Int /\ (n > 0 => SumOf(h, n) = SumOf(h, n - 1) + h[n])
  <2> HIDE DEF h
  <2> QED BY <1>0, <1>2, SumStep
<1>4. TermSum(ts, 0, v) = 0
  <2>1. \A g : SumOf(g, 0) = 0
    <3>1. ASSUME NEW g PROVE SumOf(g, 0) = 0
      <4>1. 0 \in Nat /\ \A k \in 1..0 : g[k] \in Int
        OBVIOUS
      <4> QED BY <4>1, SumStep
    <3> QED BY <3>1
  <2> QED BY <2>1 DEF TermSum
<1>5. ASSUME n > 0 PROVE SumOf(h, n - 1) = TermSum(ts, n - 1, v) /\ n \in 1..n
  <2>1. PICK c \in Nat : c = n - 1 /\ \A k \in 1..c : k \in 1..n
    BY <1>0, <1>5
  <2> DEFINE g == [k \in 1..c |-> ts[k][2] * Raised(v, ts[k][1])]
  <2>2. \A k \in 1..c : h[k] \in Int /\ g[k] = h[k]
    BY <1>2, <2>1
  <2>3. SumOf(h, c) = SumOf(g, c)
    <3> HIDE DEF h, g
    <3> QED BY <2>2, SumOfEqual
  <2>4. SumOf(g, c) = TermSum(ts, c, v)
    BY DEF TermSum
  <2>5. n \in 1..n
    BY <1>0, <1>5
  <2> HIDE DEF h, g
  <2> QED BY <2>1, <2>3, <2>4, <2>5
<1>6. SumOf(h, n) = TermSum(ts, n, v)
  BY DEF TermSum
<1> HIDE DEF h
<1> QED BY <1>1, <1>2, <1>3, <1>4, <1>5, <1>6

(* The function of a list of terms takes the residues of their values.      *)
LEMMA FunctionOfTermsIs ==
  ASSUME NEW ts \in Seq(U256 \X F)
  PROVE  /\ FunctionOfTerms(ts) \in [F -> F]
         /\ \A v \in F : /\ TermSum(ts, Len(ts), v) \in Int
                         /\ Same(FunctionOfTerms(ts)[v], TermSum(ts, Len(ts), v), FR_MODULUS)
<1>1. \A v \in F : TermSum(ts, Len(ts), v) \in Int
  <2> SUFFICES ASSUME NEW v \in F PROVE TermSum(ts, Len(ts), v) \in Int
    OBVIOUS
  <2>1. v \in Int /\ Len(ts) \in 0..Len(ts)
    BY TermFacts, ElementsAreNumbers
  <2> QED BY <2>1, TermStep
<1>2. FunctionOfTerms(ts) = [v \in F |-> TermSum(ts, Len(ts), v) % FR_MODULUS]
  BY DEF FunctionOfTerms, TermSum
<1> QED BY <1>1, <1>2, ResidueIsElement

(* The net coefficients of the first n terms, by exponent plus one.         *)
Nets(ts, n) == [e \in 1..Word |-> Net(ts, n, e - 1)]

(* A further term changes the net coefficient of its exponent.              *)
LEMMA NetStep ==
  ASSUME NEW ts \in Seq(U256 \X F), NEW n \in 0..Len(ts)
  PROVE  /\ Nets(ts, n) \in [1..Word -> F]
         /\ \A e \in 1..Word : /\ Nets(ts, n)[e] = Net(ts, n, e - 1)
                               /\ n = 0 => Nets(ts, n)[e] = 0
                               /\ Nets(ts, n)[e] # 0 => \E k \in 1..n : ts[k][1] = e - 1
                               /\ n > 0 => Nets(ts, n)[e] = (IF e = ts[n][1] + 1
                                                             THEN FAdd(Nets(ts, n - 1)[e], ts[n][2])
                                                             ELSE Nets(ts, n - 1)[e])
<1>0. n \in Nat /\ \A k \in 1..n : k \in 1..Len(ts) /\ ts[k][2] \in F /\ ts[k][2] \in Int /\ ts[k][1] \in Nat
  BY TermFacts
<1>1. PICK m \in Nat : m = FR_MODULUS /\ 0 \in F
  BY ElementsAreNumbers
<1> DEFINE One(e, c) == [k \in 1..c |-> IF ts[k][1] = e THEN ts[k][2] ELSE 0]
<1>2. ASSUME NEW e \in 1..Word, NEW c \in 0..n
      PROVE  /\ SumOf(One(e - 1, c), c) \in Int /\ Net(ts, c, e - 1) \in F
             /\ Net(ts, c, e - 1) = SumOf(One(e - 1, c), c) % FR_MODULUS
             /\ c = 0 => Net(ts, c, e - 1) = 0
             /\ Same(Net(ts, c, e - 1), SumOf(One(e - 1, c), c), m)
             /\ Net(ts, c, e - 1) # 0 => \E k \in 1..c : ts[k][1] = e - 1
  <2>1. PICK h : h = One(e - 1, c)
    OBVIOUS
  <2>2. c \in Nat /\ \A k \in 1..c : k \in 1..n /\ h[k] = (IF ts[k][1] = e - 1 THEN ts[k][2] ELSE 0)
    BY <1>0, <2>1
  <2>3. \A k \in 1..c : h[k] \in Int
    BY <1>0, <2>2
  <2>4. SumOf(h, c) \in Int /\ SumOf(h, 0) = 0
    BY <2>2, <2>3, SumStep
  <2>5. Net(ts, c, e - 1) = SumOf(h, c) % FR_MODULUS
    BY <2>1 DEF Net
  <2>6. Net(ts, c, e - 1) \in F /\ Same(Net(ts, c, e - 1), SumOf(h, c), m)
    BY <1>1, <2>4, <2>5, ResidueIsElement
  <2>7. ASSUME SumOf(h, c) = 0 PROVE Net(ts, c, e - 1) = 0
    <3>1. Same(Net(ts, c, e - 1), 0, FR_MODULUS)
      BY <1>1, <2>6, <2>7
    <3> QED BY <1>1, <2>6, <3>1, ElementIs
  <2>8. ASSUME \A k \in 1..c : ts[k][1] # e - 1 PROVE SumOf(h, c) = 0
    <3>1. \A k \in 1..c : h[k] = 0
      BY <2>2, <2>8
    <3> QED BY <2>2, <3>1, SumOfZeros
  <2> HIDE DEF One
  <2> QED BY <2>1, <2>4, <2>5, <2>6, <2>7, <2>8
<1>3. ASSUME NEW e \in 1..Word, n > 0
      PROVE  Net(ts, n, e - 1) = IF e = ts[n][1] + 1 THEN FAdd(Net(ts, n - 1, e - 1), ts[n][2])
                                 ELSE Net(ts, n - 1, e - 1)
  <2>1. PICK h, g : h = One(e - 1, n) /\ g = One(e - 1, n - 1)
    OBVIOUS
  <2>2. PICK d \in Nat : d = n - 1 /\ d \in 0..n /\ n \in 0..n /\ n \in 1..n /\ \A k \in 1..d : k \in 1..n
    BY <1>0, <1>3
  <2>3. \A k \in 1..n : h[k] = (IF ts[k][1] = e - 1 THEN ts[k][2] ELSE 0) /\ h[k] \in Int
    BY <1>0, <2>1
  <2>4. SumOf(h, n) = SumOf(h, d) + h[n]
    BY <1>0, <1>3, <2>2, <2>3, SumStep
  <2>5. SumOf(h, d) = SumOf(g, d)
    <3>1. \A k \in 1..d : h[k] \in Int /\ g[k] = h[k]
      BY <1>0, <2>1, <2>2, <2>3
    <3> QED BY <3>1, SumOfEqual
  <2>6. PICK hn \in Int, sh \in Int, sg \in Int : hn = h[n] /\ sh = SumOf(h, n) /\ sg = SumOf(g, d) /\ sh = sg + hn
    BY <1>2, <2>1, <2>2, <2>3, <2>4, <2>5
  <2>7. PICK w \in F, z \in F : /\ w = Net(ts, n, e - 1) /\ z = Net(ts, d, e - 1) /\ w \in Int /\ z \in Int
                               /\ Same(w, sh, m) /\ Same(z, sg, m)
    BY <1>2, <2>1, <2>2, <2>6, ElementsAreNumbers
  <2>8. (e = ts[n][1] + 1) <=> (ts[n][1] = e - 1)
    BY <1>0, <2>2
  <2>9. CASE e = ts[n][1] + 1
    <3>1. hn = ts[n][2] /\ hn \in F
      BY <1>0, <2>2, <2>3, <2>6, <2>8, <2>9
    <3>2. PICK q \in F : q = FAdd(z, hn) /\ Same(q, z + hn, m) /\ q \in Int
      BY <1>1, <3>1, FAddIs, ElementsAreNumbers
    <3>3. Same(z + hn, sg + hn, m)
      <4>1. Same(hn, hn, m)
        BY <2>6, SameChain
      <4> QED BY <2>6, <2>7, <4>1, SameSum
    <3>4. z + hn \in Int
      BY <2>6, <2>7
    <3>5. Same(q, sh, m) /\ Same(sh, w, m)
      BY <2>6, <2>7, <3>2, <3>3, <3>4, SameChain
    <3>6. Same(q, w, FR_MODULUS)
      BY <1>1, <2>6, <2>7, <3>2, <3>5, SameChain
    <3>7. q = w
      BY <3>6, ElementIs
    <3> QED BY <2>2, <2>7, <2>9, <3>1, <3>2, <3>7
  <2>10. CASE e # ts[n][1] + 1
    <3>1. hn = 0
      BY <2>2, <2>3, <2>6, <2>8, <2>10
    <3>2. sh = sg
      BY <2>6, <3>1
    <3>3. Same(sg, z, m)
      BY <2>6, <2>7, SameChain
    <3>4. Same(w, z, FR_MODULUS)
      BY <1>1, <2>6, <2>7, <3>2, <3>3, SameChain
    <3>5. w = z
      BY <3>4, ElementIs
    <3> QED BY <2>2, <2>7, <2>10, <3>5
  <2> QED BY <2>9, <2>10
<1> HIDE DEF One
<1>4. \A e \in 1..Word : Nets(ts, n)[e] = Net(ts, n, e - 1) /\ Nets(ts, n - 1)[e] = Net(ts, n - 1, e - 1)
  BY DEF Nets
<1>5. n \in 0..n
  BY <1>0
<1>6. Nets(ts, n) \in [1..Word -> F]
  BY <1>2, <1>5 DEF Nets
<1> QED BY <1>2, <1>3, <1>4, <1>5, <1>6

(* Evaluation term by term is exact.                                        *)
LEMMA EvaluateSparseIs ==
  ASSUME NEW ts \in Seq(U256 \X F), NEW v \in F
  PROVE  EvaluateSparse(ts, v) = FunctionOfTerms(ts)[v]
<1> DEFINE n == Len(ts)
           Power(e) == IF e = 0 THEN 1 ELSE PowMod(v, e, FR_MODULUS)
           Adds(u, k) == FAdd(u, FMul(ts[k][2], Power(ts[k][1])))
           Step(f, k) == IF k = 0 THEN 0 ELSE Adds(f[k - 1], k)
           G == [k \in 1..n |-> [u \in F |-> Adds(u, k)]]
           s == CHOOSE s : s = [k \in 0..n |-> Step(s, k)]
<1>1. n \in Nat /\ v \in Int /\ 0 \in F /\ 1 \in F
  BY TermFacts, ElementFacts
<1>2. PICK m \in Nat : m = FR_MODULUS
  BY ElementsAreNumbers
<1>3. ASSUME NEW e \in U256
      PROVE  Power(e) \in F /\ Power(e) \in Int /\ Same(Power(e), Raised(v, e), m)
  <2>1. CASE e = 0
    <3>1. Raised(v, 0) = 1 /\ Same(1, 1, m)
      <4>1. 0 \in Nat /\ 1 \in Int
        OBVIOUS
      <4> QED BY <1>1, <1>2, <4>1, RaisedStep, SameChain
    <3> QED BY <1>1, <2>1, <3>1
  <2>2. CASE e # 0
    <3>1. PowMod(v, e, FR_MODULUS) \in F /\ Same(PowMod(v, e, FR_MODULUS), Raised(v, e), FR_MODULUS)
      BY PowerIsRaised
    <3>2. PowMod(v, e, FR_MODULUS) \in Int
      BY <3>1, ElementsAreNumbers
    <3> QED BY <1>2, <2>2, <3>1, <3>2
  <2> QED BY <2>1, <2>2
<1> HIDE DEF Power
<1>4. ASSUME NEW u \in F, NEW k \in 1..n
      PROVE  Adds(u, k) \in F /\ Same(Adds(u, k), u + ts[k][2] * Raised(v, ts[k][1]), m)
  <2>1. PICK c \in Int, e \in U256 : c = ts[k][2] /\ e = ts[k][1] /\ e \in Nat
    BY TermFacts
  <2>2. PICK w \in Int, r \in Int : w = Power(e) /\ r = Raised(v, e) /\ Same(w, r, m)
    BY <1>1, <1>3, <2>1, RaisedStep
  <2>3. PICK cw \in Int, cr \in Int : cw = c * w /\ cr = c * r
    OBVIOUS
  <2>4. Same(cw, cr, m)
    BY <1>2, <2>2, <2>3, SameTimes
  <2>5. PICK z \in F : z = FMul(c, w) /\ Same(z, cw, m) /\ z \in Int /\ u \in Int
    <3>1. FMul(c, w) \in F /\ Same(FMul(c, w), c * w, FR_MODULUS)
      BY FMulIs
    <3>2. u \in Int /\ FMul(c, w) \in Int
      BY <3>1, ElementsAreNumbers
    <3> QED BY <1>2, <2>3, <3>1, <3>2
  <2>6. Same(z, cr, m)
    BY <2>4, <2>5, SameChain
  <2>7. Same(u + z, u + cr, m)
    <3>1. Same(u, u, m)
      BY <2>5, SameChain
    <3> QED BY <2>5, <2>6, <3>1, SameSum
  <2>8. FAdd(u, z) \in F /\ Same(FAdd(u, z), u + z, m)
    BY <1>2, FAddIs
  <2>9. FAdd(u, z) \in Int /\ u + z \in Int /\ u + cr \in Int
    <3>1. FAdd(u, z) \in Int
      BY <2>8, ElementsAreNumbers
    <3>2. u \in Int /\ z \in Int /\ cr \in Int
      BY <2>5
    <3>3. u + z \in Int /\ u + cr \in Int
      BY <3>2
    <3> QED BY <3>1, <3>3
  <2>10. Same(FAdd(u, z), u + cr, m)
    BY <2>7, <2>8, <2>9, SameChain
  <2>11. Adds(u, k) = FAdd(u, z)
    BY <2>1, <2>2, <2>5
  <2>12. cr = ts[k][2] * Raised(v, ts[k][1])
    BY <2>1, <2>2, <2>3
  <2> HIDE DEF Adds
  <2> QED BY <2>8, <2>10, <2>11, <2>12
<1>5. EvaluateSparse(ts, v) = s[n]
  BY DEF EvaluateSparse, Power
<1> HIDE DEF Adds
<1>6. G \in [1..n -> [F -> F]]
  BY <1>4
<1>7. PICK f0 : Recurs(f0, F, 0, n, G)
  <2> HIDE DEF G
  <2> QED BY <1>1, <1>6, Recursion
<1>8. f0 \in [0..n -> F] /\ f0[0] = 0 /\ \A k \in 1..n : f0[k] = G[k][f0[k - 1]]
  <2> HIDE DEF G
  <2> QED BY <1>7 DEF Recurs
<1>9. ASSUME NEW k \in 0..n PROVE f0[k] = Step(f0, k)
  <2>1. k # 0 => k - 1 \in 0..n /\ k \in 1..n
    BY <1>1
  <2>2. k # 0 => f0[k - 1] \in F /\ G[k] = [u \in F |-> Adds(u, k)]
    BY <1>8, <2>1
  <2> QED BY <1>8, <2>1, <2>2
<1>10. f0 = [k \in 0..n |-> Step(f0, k)]
  <2> HIDE DEF Step, G
  <2>1. f0 = [k \in 0..n |-> f0[k]]
    BY <1>8
  <2> QED BY <1>9, <2>1
<1>11. s = [k \in 0..n |-> Step(s, k)]
  <2> HIDE DEF Step, G
  <2> QED BY <1>10
<1> HIDE DEF s, G
<1>12. \A k \in 0..n : s[k] = Step(s, k)
  BY <1>11
<1> DEFINE Q == {k \in Nat : k <= n => s[k] \in F /\ Same(s[k], TermSum(ts, k, v), m)}
<1>13. 0 \in Q
  <2>1. s[0] = 0
    BY <1>1, <1>12
  <2>2. TermSum(ts, 0, v) = 0
    <3>1. 0 \in 0..Len(ts)
      BY <1>1
    <3> QED BY <1>1, <3>1, TermStep
  <2>3. Same(0, 0, m)
    BY <1>1, SameChain
  <2> QED BY <1>1, <2>1, <2>2, <2>3
<1>14. ASSUME NEW k \in Q PROVE k + 1 \in Q
  <2>1. ASSUME k + 1 <= n PROVE s[k + 1] \in F /\ Same(s[k + 1], TermSum(ts, k + 1, v), m)
    <3>1. PICK e \in 1..n : e = k + 1 /\ e - 1 = k /\ k <= n /\ k \in 0..n /\ e \in 0..n /\ e # 0 /\ e > 0
      <4>1. k \in Nat
        OBVIOUS
      <4> HIDE DEF Q
      <4> QED BY <1>1, <2>1, <4>1
    <3>2. PICK u \in F : u = s[k] /\ Same(u, TermSum(ts, k, v), m) /\ u \in Int
      <4>1. s[k] \in F /\ Same(s[k], TermSum(ts, k, v), m)
        BY <3>1
      <4> HIDE DEF Q
      <4> QED BY <4>1, ElementsAreNumbers
    <3> HIDE DEF Q
    <3>3. s[e] = Adds(u, e)
      BY <1>12, <3>1, <3>2
    <3>4. PICK ts0 \in Int, ts1 \in Int, p \in Int :
             /\ ts0 = TermSum(ts, k, v) /\ ts1 = TermSum(ts, e, v)
             /\ p = ts[e][2] * Raised(v, ts[e][1]) /\ ts1 = ts0 + p
      <4>1. TermSum(ts, k, v) \in Int
        BY <1>1, <3>1, TermStep
      <4>2. TermSum(ts, e, v) \in Int /\ TermSum(ts, e, v) = TermSum(ts, e - 1, v) + ts[e][2] * Raised(v, ts[e][1])
        BY <1>1, <3>1, TermStep
      <4>3. Raised(v, ts[e][1]) \in Int /\ ts[e][2] \in Int
        <5>1. ts[e][1] \in Nat /\ ts[e][2] \in Int
          BY TermFacts
        <5> QED BY <1>1, <5>1, RaisedStep
      <4>4. ts[e][2] * Raised(v, ts[e][1]) \in Int
        BY <4>3
      <4> QED BY <3>1, <4>1, <4>2, <4>4
    <3>5. Adds(u, e) \in F /\ Same(Adds(u, e), u + p, m)
      BY <1>4, <3>4
    <3>6. Same(u + p, ts0 + p, m) /\ u + p \in Int
      <4>1. Same(u, ts0, m) /\ Same(p, p, m) /\ u \in Int
        BY <3>2, <3>4, SameChain
      <4>2. u + p \in Int
        BY <4>1
      <4> QED BY <4>1, <4>2, SameSum
    <3>7. Adds(u, e) \in Int
      BY <3>5, ElementsAreNumbers
    <3>8. Same(Adds(u, e), ts1, m)
      BY <3>4, <3>5, <3>6, <3>7, SameChain
    <3> QED BY <3>1, <3>3, <3>4, <3>5, <3>8
  <2> QED BY <2>1
<1>15. Q = Nat
  <2>1. Q \in SUBSET Nat
    OBVIOUS
  <2> HIDE DEF Q
  <2> QED BY <1>13, <1>14, <2>1, Inductive
<1>16. s[n] \in F /\ Same(s[n], TermSum(ts, n, v), m)
  <2>1. n \in Q
    <3> HIDE DEF Q
    <3> QED BY <1>1, <1>15
  <2> QED BY <1>1, <2>1
<1>17. PICK q \in F, p \in F, w \in Int : q = s[n] /\ p = FunctionOfTerms(ts)[v] /\ w = TermSum(ts, n, v)
  BY <1>16, FunctionOfTermsIs
<1>18. Same(q, w, m) /\ Same(p, w, m) /\ q \in Int /\ p \in Int
  <2>1. Same(q, w, m)
    BY <1>16, <1>17
  <2>2. Same(p, w, m)
    BY <1>2, <1>17, FunctionOfTermsIs
  <2> QED BY <2>1, <2>2, ElementsAreNumbers
<1>19. Same(q, p, FR_MODULUS)
  BY <1>2, <1>17, <1>18, SameChain
<1>20. q = p
  BY <1>19, ElementIs
<1> QED BY <1>5, <1>17, <1>20

(* The value of terms is that of the polynomial of their net coefficients.  *)
LEMMA NetSum ==
  ASSUME NEW ts \in Seq(U256 \X F), NEW c \in 0..Len(ts), NEW v \in F
  PROVE  Same(TermSum(ts, c, v), PolySum(Nets(ts, c), Word, v), FR_MODULUS)
<1> DEFINE n == Len(ts)
<1>1. n \in Nat /\ v \in Int /\ 0 \in F /\ Word \in Nat
  BY TermFacts, ElementFacts, WordFacts
<1>2. PICK m \in Nat : m = FR_MODULUS
  BY ElementsAreNumbers
<1> DEFINE Q == {k \in Nat : k <= n => Same(TermSum(ts, k, v), PolySum(Nets(ts, k), Word, v), m)}
<1>3. \A k \in 0..n : /\ TermSum(ts, k, v) \in Int /\ PolySum(Nets(ts, k), Word, v) \in Int
                      /\ \A e \in 1..Word : Nets(ts, k)[e] \in F /\ Nets(ts, k)[e] \in Int
  <2> SUFFICES ASSUME NEW k \in 0..n
               PROVE  /\ TermSum(ts, k, v) \in Int /\ PolySum(Nets(ts, k), Word, v) \in Int
                      /\ \A e \in 1..Word : Nets(ts, k)[e] \in F /\ Nets(ts, k)[e] \in Int
    OBVIOUS
  <2>1. TermSum(ts, k, v) \in Int
    BY <1>1, TermStep
  <2>2. Nets(ts, k) \in [1..Word -> F]
    BY NetStep
  <2>3. \A e \in 1..Word : Nets(ts, k)[e] \in F /\ Nets(ts, k)[e] \in Int
    BY <2>2, ElementsAreNumbers
  <2>4. PolySum(Nets(ts, k), Word, v) \in Int
    <3>1. PICK h : h = Nets(ts, k) /\ \A e \in 1..Word : h[e] \in Int
      BY <2>3
    <3> QED BY <1>1, <3>1, PolyStep
  <2> QED BY <2>1, <2>3, <2>4
<1>4. 0 \in Q
  <2>1. 0 \in 0..n
    BY <1>1
  <2>2. TermSum(ts, 0, v) = 0
    BY <1>1, <2>1, TermStep
  <2>3. PICK h : h = Nets(ts, 0) /\ \A e \in 1..Word : h[e] = 0
    BY <2>1, NetStep
  <2>4. PolySum(h, Word, v) = 0
    <3>1. Pads(h, h, 0, Word)
      BY <2>3 DEF Pads
    <3>2. PolySum(h, Word, v) = PolySum(h, 0, v)
      BY <1>1, <3>1, PolyPads
    <3>3. 0 \in Nat /\ \A k \in 1..0 : h[k] \in Int
      OBVIOUS
    <3> QED BY <1>1, <3>2, <3>3, PolyStep
  <2>5. Same(0, 0, m)
    BY <1>1, SameChain
  <2> QED BY <2>2, <2>3, <2>4, <2>5
<1>5. ASSUME NEW k \in Q PROVE k + 1 \in Q
  <2>1. ASSUME k + 1 <= n PROVE Same(TermSum(ts, k + 1, v), PolySum(Nets(ts, k + 1), Word, v), m)
    <3>1. PICK e \in 1..n : e = k + 1 /\ e - 1 = k /\ k <= n /\ k \in 0..n /\ e \in 0..n /\ e > 0
      <4>1. k \in Nat
        OBVIOUS
      <4> HIDE DEF Q
      <4> QED BY <1>1, <2>1, <4>1
    <3>2. Same(TermSum(ts, k, v), PolySum(Nets(ts, k), Word, v), m)
      BY <3>1
    <3> HIDE DEF Q
    <3>3. PICK d \in Int, j \in 1..Word, ex \in Nat :
             d = ts[e][2] /\ d \in F /\ ex = ts[e][1] /\ j = ex + 1 /\ j - 1 = ex
      <4>1. ts[e][2] \in F /\ ts[e][2] \in Int /\ ts[e][1] \in Nat /\ ts[e][1] + 1 \in 1..Word
        BY TermFacts
      <4>2. (ts[e][1] + 1) - 1 = ts[e][1]
        BY <4>1
      <4> QED BY <4>1, <4>2
    <3>4. PICK h, f : h = Nets(ts, e) /\ f = Nets(ts, k)
      OBVIOUS
    <3>5. \A i0 \in 1..Word : /\ h[i0] \in Int /\ f[i0] \in Int
                             /\ Same(h[i0], IF i0 = j THEN f[i0] + d ELSE f[i0], m)
      <4> SUFFICES ASSUME NEW i0 \in 1..Word
                   PROVE  /\ h[i0] \in Int /\ f[i0] \in Int
                          /\ Same(h[i0], IF i0 = j THEN f[i0] + d ELSE f[i0], m)
        OBVIOUS
      <4>1. PICK a \in F, b \in F : a = h[i0] /\ b = f[i0] /\ a \in Int /\ b \in Int
        BY <1>3, <3>1, <3>4
      <4>2. a = IF i0 = j THEN FAdd(b, d) ELSE b
        <5>1. Nets(ts, e)[i0] = (IF i0 = ts[e][1] + 1 THEN FAdd(Nets(ts, e - 1)[i0], ts[e][2])
                                 ELSE Nets(ts, e - 1)[i0])
          <6>1. e \in 0..Len(ts) /\ e > 0
            BY <3>1
          <6> QED BY <6>1, NetStep
        <5>2. Nets(ts, e - 1) = f /\ Nets(ts, e) = h
          BY <3>1, <3>4
        <5> QED BY <3>3, <4>1, <5>1, <5>2
      <4>3. Same(FAdd(b, d), b + d, m) /\ Same(b, b, m)
        BY <1>2, <3>3, <4>1, FAddIs, SameChain
      <4> QED BY <4>1, <4>2, <4>3
    <3>6. Same(PolySum(h, Word, v), PolySum(f, Word, v) + d * Raised(v, j - 1), m)
      BY <1>1, <3>5, PolyOne
    <3>7. PICK hs \in Int, fs \in Int, t0 \in Int, t1 \in Int, p \in Int :
             /\ hs = PolySum(h, Word, v) /\ fs = PolySum(f, Word, v)
             /\ t0 = TermSum(ts, k, v) /\ t1 = TermSum(ts, e, v)
             /\ p = d * Raised(v, ex) /\ t1 = t0 + p
      <4>1. PolySum(h, Word, v) \in Int /\ PolySum(f, Word, v) \in Int
        BY <1>3, <3>1, <3>4
      <4>2. TermSum(ts, k, v) \in Int /\ TermSum(ts, e, v) \in Int
        BY <1>3, <3>1
      <4>3. TermSum(ts, e, v) = TermSum(ts, e - 1, v) + ts[e][2] * Raised(v, ts[e][1])
        BY <1>1, <3>1, TermStep
      <4>4. d * Raised(v, ex) \in Int
        <5>1. Raised(v, ex) \in Int
          BY <1>1, RaisedStep
        <5> QED BY <5>1
      <4> QED BY <3>1, <3>3, <4>1, <4>2, <4>3, <4>4
    <3>8. Same(hs, fs + p, m) /\ Same(t0, fs, m)
      BY <3>2, <3>3, <3>4, <3>6, <3>7
    <3>9. Same(t1, fs + p, m) /\ fs + p \in Int
      <4>1. Same(p, p, m)
        BY SameChain
      <4>2. Same(t0 + p, fs + p, m)
        BY <3>8, <4>1, SameSum
      <4> QED BY <3>7, <4>2
    <3>10. Same(t1, hs, m)
      BY <3>8, <3>9, SameChain
    <3> QED BY <3>1, <3>4, <3>7, <3>10
  <2> QED BY <2>1
<1>6. Q = Nat
  <2>1. Q \in SUBSET Nat
    OBVIOUS
  <2> HIDE DEF Q
  <2> QED BY <1>4, <1>5, <2>1, Inductive
<1>7. c \in Q /\ c <= n
  <2> HIDE DEF Q
  <2> QED BY <1>1, <1>6
<1> QED BY <1>2, <1>7

(* ts lists the coefficients f that are not zero, by ascending exponent.    *)
Ascending(ts) ==
    /\ \A j, k \in 1..Len(ts) : j < k => ts[j][1] < ts[k][1]
    /\ \A k \in 1..Len(ts) : ts[k][2] # 0

Stands(ts, f) ==
    /\ ts \in Seq(U256 \X F) /\ f \in [1..Word -> F] /\ Ascending(ts)
    /\ \A k \in 1..Len(ts) : f[ts[k][1] + 1] = ts[k][2]
    /\ \A e \in 1..Word : f[e] # 0 => \E k \in 1..Len(ts) : ts[k][1] + 1 = e

(* Such a list is its own net.                                              *)
LEMMA StandsForNet ==
  ASSUME NEW ts, NEW f, Stands(ts, f)
  PROVE  Nets(ts, Len(ts)) = f
<1>1. ts \in Seq(U256 \X F) /\ f \in [1..Word -> F] /\ Ascending(ts)
  BY DEF Stands
<1>2. /\ Len(ts) \in Nat /\ Len(ts) \in 0..Len(ts)
      /\ \A k \in 1..Len(ts) : ts[k][2] \in F /\ ts[k][2] \in Int /\ ts[k][1] \in Nat
  BY <1>1, TermFacts
<1>3. Nets(ts, Len(ts)) \in [1..Word -> F]
  BY <1>1, <1>2, NetStep
<1>4. ASSUME NEW e \in 1..Word PROVE Nets(ts, Len(ts))[e] = f[e]
  <2>1. Nets(ts, Len(ts))[e] = Net(ts, Len(ts), e - 1)
    BY <1>1, <1>2, NetStep
  <2>2. PICK h : h = [k \in 1..Len(ts) |-> IF ts[k][1] = e - 1 THEN ts[k][2] ELSE 0]
    OBVIOUS
  <2>3. Net(ts, Len(ts), e - 1) = SumOf(h, Len(ts)) % FR_MODULUS
    BY <2>2 DEF Net
  <2>4. CASE \E k \in 1..Len(ts) : ts[k][1] + 1 = e
    <3>1. PICK j \in 1..Len(ts) : ts[j][1] + 1 = e
      BY <2>4
    <3>2. ts[j][1] = e - 1 /\ h[j] = ts[j][2] /\ h[j] \in Int
      BY <1>2, <2>2, <3>1
    <3>3. \A k \in 1..Len(ts) : k # j => h[k] = 0
      <4> SUFFICES ASSUME NEW k \in 1..Len(ts), k # j PROVE h[k] = 0
        OBVIOUS
      <4>1. k < j \/ j < k
        BY <1>2
      <4>2. ts[k][1] < ts[j][1] \/ ts[j][1] < ts[k][1]
        BY <1>1, <4>1 DEF Ascending
      <4>3. ts[k][1] # e - 1
        BY <1>2, <3>2, <4>2
      <4> QED BY <2>2, <4>3
    <3>4. SumOf(h, Len(ts)) = h[j]
      BY <1>2, <3>2, <3>3, SumOfOne
    <3>5. ts[j][2] % FR_MODULUS = ts[j][2]
      BY <1>2, ElementFacts
    <3>6. f[e] = ts[j][2]
      BY <3>1 DEF Stands
    <3> QED BY <2>1, <2>3, <3>2, <3>4, <3>5, <3>6
  <2>5. CASE \A k \in 1..Len(ts) : ts[k][1] + 1 # e
    <3>1. f[e] = 0
      BY <2>5 DEF Stands
    <3>2. \A k \in 1..Len(ts) : ts[k][1] # e - 1
      BY <1>2, <2>5
    <3>3. Nets(ts, Len(ts))[e] = 0
      BY <1>1, <1>2, <3>2, NetStep
    <3> QED BY <3>1, <3>3
  <2> QED BY <2>4, <2>5
<1>5. PICK g \in [1..Word -> F] : g = Nets(ts, Len(ts))
  BY <1>3
<1>6. \A e \in 1..Word : g[e] = f[e]
  BY <1>4, <1>5
<1>7. g = f
  <2>1. f \in [1..Word -> F]
    BY <1>1
  <2>2. f = [e \in 1..Word |-> f[e]]
    BY <2>1
  <2>3. g = [e \in 1..Word |-> g[e]]
    BY <1>5
  <2> QED BY <1>6, <2>2, <2>3
<1> QED BY <1>5, <1>7
-----------------------------------------------------------------------------
(* Accumulation of terms.                                                   *)

(* The members of mid in the place of those from a + 1 to b.                *)
Replaced(ts, a, b, mid) == SubSeq(ts, 1, a) \o mid \o SubSeq(ts, b + 1, Len(ts))

HasReplaced(out, ts, a, b, mid) ==
    /\ Len(out) = a + Len(mid) + (Len(ts) - b)
    /\ \A k \in 1..a : out[k] = ts[k]
    /\ \A k \in 1..Len(mid) : out[a + k] = mid[k]
    /\ \A k \in (b + 1)..Len(ts) : out[k - b + a + Len(mid)] = ts[k]

LEMMA SpliceIs ==
  ASSUME NEW V, NEW ts \in Seq(V), NEW a \in Nat, NEW b \in Nat, a <= b, b <= Len(ts),
         NEW mid \in Seq(V), NEW out, out = Replaced(ts, a, b, mid)
  PROVE  out \in Seq(V) /\ HasReplaced(out, ts, a, b, mid)
<1>1. PICK n \in Nat, ml \in Nat : n = Len(ts) /\ ml = Len(mid)
  OBVIOUS
<1>2. \A k \in 1..n : ts[k] \in V
  BY <1>1
<1>3. PICK low : low = SubSeq(ts, 1, a)
  OBVIOUS
<1>4. PICK high : high = SubSeq(ts, b + 1, n)
  OBVIOUS
<1>5. low \in Seq(V) /\ Len(low) = a /\ \A k \in 1..a : low[k] = ts[k]
  <2>1. \A k \in 1..a : ts[k] \in V
    BY <1>1, <1>2
  <2>2. /\ low \in Seq(V) /\ Len(low) = IF 1 <= a THEN a - 1 + 1 ELSE 0
        /\ \A k \in 1..(a - 1 + 1) : low[k] = ts[1 + k - 1]
    BY <1>3, <2>1, SubSeqProperties
  <2>3. \A k \in 1..a : 1 + k - 1 = k /\ k \in 1..(a - 1 + 1)
    OBVIOUS
  <2> QED BY <2>2, <2>3
<1>6. high \in Seq(V) /\ Len(high) = n - b /\ \A k \in 1..(n - b) : high[k] = ts[b + k]
  <2>1. \A k \in (b + 1)..n : ts[k] \in V
    BY <1>1, <1>2
  <2>2. /\ high \in Seq(V) /\ Len(high) = IF b + 1 <= n THEN n - (b + 1) + 1 ELSE 0
        /\ \A k \in 1..(n - (b + 1) + 1) : high[k] = ts[(b + 1) + k - 1]
    BY <1>4, <2>1, SubSeqProperties
  <2>3. \A k \in 1..(n - b) : (b + 1) + k - 1 = b + k /\ k \in 1..(n - (b + 1) + 1)
    BY <1>1
  <2>4. Len(high) = n - b
    BY <1>1, <2>2
  <2> QED BY <2>2, <2>3, <2>4
<1>7. PICK left : left = low \o mid
  OBVIOUS
<1>8. /\ left \in Seq(V) /\ Len(left) = a + ml
      /\ \A k \in 1..(a + ml) : left[k] = IF k <= a THEN low[k] ELSE mid[k - a]
  BY <1>1, <1>5, <1>7, ConcatProperties
<1>9. out = left \o high
  BY <1>1, <1>3, <1>4, <1>7 DEF Replaced
<1>10. /\ out \in Seq(V) /\ Len(out) = (a + ml) + (n - b)
       /\ \A k \in 1..((a + ml) + (n - b)) :
             out[k] = IF k <= a + ml THEN left[k] ELSE high[k - (a + ml)]
  <2>1. /\ out \in Seq(V) /\ Len(out) = Len(left) + Len(high)
        /\ \A k \in 1..(Len(left) + Len(high)) :
              out[k] = IF k <= Len(left) THEN left[k] ELSE high[k - Len(left)]
    <3>1. left \in Seq(V) /\ high \in Seq(V)
      BY <1>6, <1>8
    <3>2. /\ left \o high \in Seq(V) /\ Len(left \o high) = Len(left) + Len(high)
          /\ \A k \in 1..(Len(left) + Len(high)) :
                (left \o high)[k] = IF k <= Len(left) THEN left[k] ELSE high[k - Len(left)]
      BY ONLY <3>1, ConcatProperties
    <3> QED BY <1>9, <3>2
  <2>2. Len(left) = a + ml /\ Len(high) = n - b
    BY <1>6, <1>8
  <2> QED BY <2>1, <2>2
<1>11. ASSUME NEW k \in 1..a PROVE out[k] = ts[k]
  <2>1. k \in 1..(a + ml) /\ k \in 1..((a + ml) + (n - b)) /\ k <= a + ml /\ k <= a
    BY <1>1
  <2> QED BY <1>5, <1>8, <1>10, <2>1
<1>12. ASSUME NEW k \in 1..ml PROVE out[a + k] = mid[k]
  <2>1. a + k \in 1..(a + ml) /\ a + k \in 1..((a + ml) + (n - b)) /\ ~(a + k <= a) /\ (a + k) - a = k
        /\ a + k <= a + ml
    BY <1>1
  <2> QED BY <1>8, <1>10, <2>1
<1>13. ASSUME NEW k \in (b + 1)..n PROVE out[k - b + a + ml] = ts[k]
  <2>1. PICK j \in 1..(n - b) : j = k - b /\ b + j = k
    BY <1>1
  <2>2. PICK e \in Int : e = k - b + a + ml
    OBVIOUS
  <2>3. e \in 1..((a + ml) + (n - b)) /\ ~(e <= a + ml) /\ e - (a + ml) = j
    BY <1>1, <2>1, <2>2
  <2>4. out[e] = high[j] /\ high[j] = ts[k]
    BY <1>6, <1>10, <2>1, <2>3
  <2> QED BY <2>2, <2>4
<1> QED BY <1>1, <1>10, <1>11, <1>12, <1>13 DEF HasReplaced

(* The place of an exponent is after the first a terms, and the terms from  *)
(* a + 1 to b have it.                                                      *)
PlaceOf(ts, ex, a, b) ==
    /\ a \in Nat /\ b \in Nat /\ a <= b /\ b <= Len(ts) /\ b <= a + 1
    /\ \A j \in 1..Len(ts) :
         /\ j <= a => ts[j][1] < ex
         /\ j > b => ts[j][1] > ex
         /\ a < j /\ j <= b => ts[j][1] = ex

(* g is f with c for the coefficient of ex.                                 *)
Changed(f, g, ex, c) ==
    g[ex + 1] = c /\ \A e \in 1..Word : e # ex + 1 => g[e] = f[e]

(* A term in its place, or none when it cancels.                            *)
Spliced(ts, ex, c, a, b) ==
    Replaced(ts, a, b, IF c = 0 THEN <<>> ELSE <<<<ex, c>>>>)

LEMMA SpliceStands ==
  ASSUME NEW ts, NEW f, Stands(ts, f), NEW ex \in U256, NEW a, NEW b, PlaceOf(ts, ex, a, b),
         NEW g \in [1..Word -> F], NEW c \in F, Changed(f, g, ex, c),
         NEW out, out = Spliced(ts, ex, c, a, b)
  PROVE  Stands(out, g) /\ Len(out) = a + (IF c = 0 THEN 0 ELSE 1) + (Len(ts) - b)
<1>0. PICK mid : mid = IF c = 0 THEN <<>> ELSE <<<<ex, c>>>>
  OBVIOUS
<1>1. ts \in Seq(U256 \X F) /\ f \in [1..Word -> F] /\ Ascending(ts)
  BY DEF Stands
<1>2. PICK n \in Nat : n = Len(ts)
  BY <1>1, TermFacts
<1>14. a \in Nat /\ b \in Nat /\ a <= b /\ b <= n /\ b <= a + 1
  BY <1>2 DEF PlaceOf
<1>15. \A j \in 1..n :
         /\ j <= a => ts[j][1] < ex
         /\ j > b => ts[j][1] > ex
         /\ a < j /\ j <= b => ts[j][1] = ex
  BY <1>2 DEF PlaceOf
<1>16. g[ex + 1] = c /\ \A e \in 1..Word : e # ex + 1 => g[e] = f[e]
  BY DEF Changed
<1>3. \A j \in 1..n : /\ ts[j][1] \in Nat /\ ts[j][1] + 1 \in 1..Word
                      /\ ts[j][2] # 0 /\ f[ts[j][1] + 1] = ts[j][2]
  BY <1>1, <1>2, TermFacts DEF Stands, Ascending
<1>4. ex \in Nat /\ ex + 1 \in 1..Word
  BY WordFacts DEF U256
<1>5. PICK ml \in Nat : ml = (IF c = 0 THEN 0 ELSE 1) /\ ml = Len(mid) /\ mid \in Seq(U256 \X F)
                        /\ (ml = 1 => mid[1][1] = ex /\ mid[1][2] = c /\ c # 0)
  <2>1. CASE c = 0
    BY <1>0, <2>1
  <2>2. CASE c # 0
    <3>0. mid = <<<<ex, c>>>>
      BY <1>0, <2>2
    <3>1. mid = <<<<ex, c>>>> /\ Len(mid) = 1 /\ mid[1][1] = ex /\ mid[1][2] = c
      BY <3>0
    <3>2. mid \in Seq(U256 \X F)
      BY <3>1
    <3> QED BY <2>2, <3>1, <3>2
  <2> QED BY <2>1, <2>2
<1>6. /\ out \in Seq(U256 \X F) /\ Len(out) = a + ml + (n - b)
      /\ \A k \in 1..a : out[k] = ts[k]
      /\ \A k \in 1..ml : out[a + k] = mid[k]
      /\ \A k \in (b + 1)..n : out[k - b + a + ml] = ts[k]
  <2>0. out = Replaced(ts, a, b, mid)
    BY <1>0 DEF Spliced
  <2>1. b <= Len(ts) /\ a \in Nat /\ b \in Nat /\ a <= b
    BY <1>2, <1>14
  <2>2. mid \in Seq(U256 \X F)
    BY <1>5
  <2>3. /\ out \in Seq(U256 \X F) /\ Len(out) = a + Len(mid) + (Len(ts) - b)
        /\ \A k \in 1..a : out[k] = ts[k]
        /\ \A k \in 1..Len(mid) : out[a + k] = mid[k]
        /\ \A k \in (b + 1)..Len(ts) : out[k - b + a + Len(mid)] = ts[k]
    <3>1. PICK V : V = U256 \X F
      OBVIOUS
    <3>2. ts \in Seq(V) /\ mid \in Seq(V)
      BY <1>1, <2>2, <3>1
    <3>3. out \in Seq(V) /\ HasReplaced(out, ts, a, b, mid)
      BY <2>0, <2>1, <3>2, SpliceIs
    <3> QED BY <3>1, <3>3 DEF HasReplaced
  <2>4. Len(mid) = ml /\ Len(ts) = n
    BY <1>2, <1>5
  <2> QED BY <2>3, <2>4
<1>7. PICK size \in Nat : size = a + ml + (n - b)
  <2>1. a + ml + (n - b) \in Nat
    BY <1>14
  <2> QED BY <2>1
<1>17. size = Len(out)
  BY <1>6, <1>7
<1> DEFINE Kept(k) == \E j \in 1..n : /\ out[k] = ts[j] /\ (j <= a \/ j > b)
                                      /\ k = (IF j <= a THEN j ELSE j - b + a + ml)
           Fresh(k) == k = a + 1 /\ ml = 1 /\ out[k][1] = ex /\ out[k][2] = c
<1>8. ASSUME NEW k \in 1..size PROVE Kept(k) \/ Fresh(k)
  <2>1. CASE k <= a
    <3>1. k \in 1..n /\ k \in 1..a
      BY <1>14, <2>1
    <3> QED BY <1>6, <2>1, <3>1
  <2>2. CASE k > a /\ k <= a + ml
    <3>1. k = a + 1 /\ ml = 1 /\ 1 \in 1..ml
      BY <1>5, <1>14, <2>2
    <3>2. out[a + 1] = mid[1]
      BY <1>6, <3>1
    <3>3. Fresh(k)
      BY <1>5, <3>1, <3>2
    <3> HIDE DEF Fresh, Kept
    <3> QED BY <3>3
  <2>3. CASE k > a + ml
    <3>1. PICK j \in Int : j = k + b - a - ml
      BY <1>14
    <3>2. j \in 1..n /\ j > b /\ j \in (b + 1)..n /\ j - b + a + ml = k /\ ~(j <= a)
      BY <1>7, <1>14, <2>3, <3>1
    <3>3. out[j - b + a + ml] = ts[j]
      BY <1>6, <3>2
    <3> QED BY <3>2, <3>3
  <2>4. k <= a \/ (k > a /\ k <= a + ml) \/ k > a + ml
    BY <1>14
  <2> HIDE DEF Fresh, Kept
  <2> QED BY <2>1, <2>2, <2>3, <2>4
<1>9. ASSUME NEW j \in 1..n, j <= a \/ j > b
      PROVE  /\ ts[j][1] + 1 # ex + 1 /\ g[ts[j][1] + 1] = ts[j][2]
             /\ \E k \in 1..size : out[k] = ts[j]
  <2>1. ts[j][1] # ex
    BY <1>3, <1>4, <1>9, <1>14, <1>15
  <2>2. ts[j][1] + 1 # ex + 1
    BY <1>3, <1>4, <2>1
  <2>3. g[ts[j][1] + 1] = ts[j][2]
    BY <1>3, <1>16, <2>2
  <2>4. CASE j <= a
    <3>1. j \in 1..size /\ j \in 1..a
      BY <1>7, <1>14, <2>4
    <3> QED BY <1>6, <2>2, <2>3, <3>1
  <2>5. CASE j > b
    <3>1. PICK k \in Int : k = j - b + a + ml
      BY <1>14
    <3>2. k \in 1..size /\ j \in (b + 1)..n
      BY <1>7, <1>14, <2>5, <3>1
    <3>3. out[k] = ts[j]
      BY <1>6, <3>1, <3>2
    <3> QED BY <2>2, <2>3, <3>2, <3>3
  <2> QED BY <1>9, <2>4, <2>5
<1>10. ASSUME NEW k \in 1..size
       PROVE  out[k][2] # 0 /\ g[out[k][1] + 1] = out[k][2]
  <2>1. CASE Kept(k)
    <3>1. PICK j \in 1..n : out[k] = ts[j] /\ (j <= a \/ j > b)
      BY <2>1
    <3>2. g[ts[j][1] + 1] = ts[j][2] /\ ts[j][2] # 0
      BY <1>3, <1>9, <3>1
    <3> HIDE DEF Fresh, Kept
    <3> QED BY <3>1, <3>2
  <2>2. CASE Fresh(k)
    <3>1. out[k][1] = ex /\ out[k][2] = c /\ ml = 1
      BY <2>2
    <3>2. c # 0
      BY <1>5, <3>1
    <3> HIDE DEF Fresh, Kept
    <3> QED BY <1>16, <3>1, <3>2
  <2> HIDE DEF Kept, Fresh
  <2> QED BY <1>8, <2>1, <2>2
<1>11. ASSUME NEW j \in 1..size, NEW k \in 1..size, j < k PROVE out[j][1] < out[k][1]
  <2>1. CASE Kept(j) /\ Kept(k)
    <3>1. PICK u \in 1..n : /\ out[j] = ts[u] /\ (u <= a \/ u > b)
                            /\ j = (IF u <= a THEN u ELSE u - b + a + ml)
      BY <2>1
    <3>2. PICK w \in 1..n : /\ out[k] = ts[w] /\ (w <= a \/ w > b)
                            /\ k = (IF w <= a THEN w ELSE w - b + a + ml)
      BY <2>1
    <3>3. u < w
      BY <1>11, <1>14, <3>1, <3>2
    <3>4. ts[u][1] < ts[w][1]
      BY <1>1, <1>2, <3>3 DEF Ascending
    <3> QED BY <3>1, <3>2, <3>4
  <2>2. CASE Kept(j) /\ Fresh(k)
    <3>1. PICK u \in 1..n : /\ out[j] = ts[u] /\ (u <= a \/ u > b)
                            /\ j = (IF u <= a THEN u ELSE u - b + a + ml)
      BY <2>2
    <3>2. k = a + 1 /\ ml = 1 /\ out[k][1] = ex
      BY <2>2
    <3>3. u <= a
      BY <1>11, <1>14, <3>1, <3>2
    <3>4. ts[u][1] < ex
      BY <1>15, <3>3
    <3> QED BY <3>1, <3>2, <3>4
  <2>3. CASE Fresh(j) /\ Kept(k)
    <3>1. PICK w \in 1..n : /\ out[k] = ts[w] /\ (w <= a \/ w > b)
                            /\ k = (IF w <= a THEN w ELSE w - b + a + ml)
      BY <2>3
    <3>2. j = a + 1 /\ ml = 1 /\ out[j][1] = ex
      BY <2>3
    <3>3. w > b
      BY <1>11, <1>14, <3>1, <3>2
    <3>4. ts[w][1] > ex
      BY <1>15, <3>3
    <3>5. ex < ts[w][1]
      BY <1>3, <1>4, <3>4
    <3> QED BY <3>1, <3>2, <3>5
  <2>4. CASE Fresh(j) /\ Fresh(k)
    BY <1>11, <2>4
  <2> HIDE DEF Kept, Fresh
  <2> QED BY <1>8, <2>1, <2>2, <2>3, <2>4
<1>12. ASSUME NEW e \in 1..Word, g[e] # 0 PROVE \E k \in 1..size : out[k][1] + 1 = e
  <2>1. CASE e = ex + 1
    <3>1. c # 0 /\ ml = 1 /\ 1 \in 1..ml
      BY <1>5, <1>12, <1>16, <2>1
    <3>2. n - b \in Nat
      BY <1>14
    <3>3. a + 1 \in 1..size
      BY <1>7, <1>14, <3>1, <3>2
    <3>4. out[a + 1] = mid[1] /\ mid[1][1] = ex
      BY <1>5, <1>6, <3>1
    <3>5. out[a + 1][1] + 1 = e
      BY <2>1, <3>4
    <3> QED BY <3>3, <3>5
  <2>2. CASE e # ex + 1
    <3>1. f[e] # 0
      BY <1>12, <1>16, <2>2
    <3>2. PICK j \in 1..n : ts[j][1] + 1 = e
      BY <1>2, <3>1 DEF Stands
    <3>3. j <= a \/ j > b
      BY <1>3, <1>4, <1>14, <1>15, <2>2, <3>2
    <3>4. PICK k \in 1..size : out[k] = ts[j]
      BY <1>9, <3>3
    <3> QED BY <3>2, <3>4
  <2> QED BY <2>1, <2>2
<1>13. Stands(out, g)
  <2>1. Ascending(out)
    BY <1>10, <1>11, <1>17 DEF Ascending
  <2> QED BY <1>6, <1>10, <1>12, <1>17, <2>1 DEF Stands
<1> QED BY <1>2, <1>5, <1>7, <1>13, <1>17

(* Zero adds nothing.                                                       *)
LEMMA FAddZero ==
  ASSUME NEW a \in F
  PROVE  FAdd(a, 0) = a /\ FAdd(0, a) = a
<1>1. PICK zero \in F : zero = 0 /\ a \in Int /\ zero \in Int
  BY ElementsAreNumbers
<1>2. Same(FAdd(a, zero), a + zero, FR_MODULUS) /\ Same(FAdd(zero, a), zero + a, FR_MODULUS)
  BY FAddIs
<1>3. a + zero = a /\ zero + a = a
  BY <1>1
<1>4. FAdd(a, zero) \in F /\ FAdd(zero, a) \in F
  BY FAddIs
<1>5. FAdd(a, zero) = a /\ FAdd(zero, a) = a
  BY <1>2, <1>3, <1>4, ElementIs
<1> QED BY <1>1, <1>5

(* What an insertion does, by the place p of its exponent.                  *)
InsertsAt(ts, ex, c, p, r) ==
    /\ p \in 1..(Len(ts) + 1)
    /\ \A j \in 1..Len(ts) : j < p => ts[j][1] < ex
    /\ p = Len(ts) + 1 \/ ts[p][1] >= ex
    /\ \/ c = 0 /\ r = [ok |-> TRUE, terms |-> ts]
       \/ /\ c # 0 /\ p <= Len(ts) /\ ts[p][1] = ex
          /\ r = [ok |-> TRUE, terms |-> Spliced(ts, ex, FAdd(ts[p][2], c), p - 1, p)]
       \/ /\ c # 0 /\ ~(p <= Len(ts) /\ ts[p][1] = ex) /\ Len(ts) = MAX_TERMS
          /\ r = [ok |-> FALSE, terms |-> ts]
       \/ /\ c # 0 /\ ~(p <= Len(ts) /\ ts[p][1] = ex) /\ Len(ts) # MAX_TERMS
          /\ r = [ok |-> TRUE, terms |-> Spliced(ts, ex, c, p - 1, p - 1)]

LEMMA InsertCases ==
  ASSUME NEW ts \in Seq(U256 \X F), NEW ex \in U256, NEW c \in F, NEW r, r = Insert(ts, ex, c)
  PROVE  \E p : InsertsAt(ts, ex, c, p, r)
<1> DEFINE p == CHOOSE k \in 1..(Len(ts) + 1) :
                   /\ \A j \in 1..(k - 1) : ts[j][1] < ex
                   /\ k = Len(ts) + 1 \/ ts[k][1] >= ex
           T == {k \in 1..(Len(ts) + 1) : k = Len(ts) + 1 \/ ts[k][1] >= ex}
<1>1. PICK n \in Nat : n = Len(ts) /\ ex \in Nat /\ \A k \in 1..n : ts[k][1] \in Nat
  BY TermFacts, WordFacts DEF U256
<1>2. \E k \in 1..(Len(ts) + 1) : /\ \A j \in 1..(k - 1) : ts[j][1] < ex
                                  /\ k = Len(ts) + 1 \/ ts[k][1] >= ex
  <2>1. n + 1 \in T /\ T \in SUBSET Nat
    BY <1>1
  <2>2. PICK u \in T : \A w \in T : u <= w
    <3> HIDE DEF T
    <3> QED BY <2>1, LeastElement
  <2>3. u \in 1..(n + 1) /\ (u = n + 1 \/ ts[u][1] >= ex)
    BY <1>1
  <2>4. ASSUME NEW j \in 1..(u - 1) PROVE ts[j][1] < ex
    <3>1. j \in 1..n /\ ~(u <= j) /\ j \in 1..(n + 1)
      BY <2>3
    <3>2. j \notin T
      <4> HIDE DEF T
      <4> QED BY <2>2, <3>1
    <3>3. ~(ts[j][1] >= ex)
      BY <1>1, <3>1, <3>2
    <3> QED BY <1>1, <3>1, <3>3
  <2> HIDE DEF T
  <2> QED BY <1>1, <2>3, <2>4
<1>3. /\ p \in 1..(Len(ts) + 1) /\ \A j \in 1..(p - 1) : ts[j][1] < ex
      /\ p = Len(ts) + 1 \/ ts[p][1] >= ex
  BY <1>2
<1>4. \A a, b : Spliced(ts, ex, a, p - 1, b) =
                  SubSeq(ts, 1, p - 1) \o (IF a = 0 THEN <<>> ELSE <<<<ex, a>>>>) \o SubSeq(ts, b + 1, Len(ts))
  BY DEF Spliced, Replaced
<1>5. r = CASE c = 0 -> [ok |-> TRUE, terms |-> ts]
            [] c # 0 /\ (p <= Len(ts) /\ ts[p][1] = ex) ->
                 [ok |-> TRUE,
                  terms |-> SubSeq(ts, 1, p - 1)
                              \o (IF FAdd(ts[p][2], c) = 0 THEN <<>> ELSE <<<<ex, FAdd(ts[p][2], c)>>>>)
                              \o SubSeq(ts, p + 1, Len(ts))]
            [] c # 0 /\ ~(p <= Len(ts) /\ ts[p][1] = ex) /\ Len(ts) = MAX_TERMS ->
                 [ok |-> FALSE, terms |-> ts]
            [] OTHER -> [ok |-> TRUE,
                         terms |-> SubSeq(ts, 1, p - 1) \o <<<<ex, c>>>> \o SubSeq(ts, p, Len(ts))]
  BY DEF Insert
<1> HIDE DEF p
<1>6. p \in Int /\ p - 1 + 1 = p
  BY <1>1, <1>3
<1>7. \A j \in 1..Len(ts) : j < p => ts[j][1] < ex
  BY <1>1, <1>3
<1>8. CASE c = 0
  <2>1. r = [ok |-> TRUE, terms |-> ts]
    BY <1>5, <1>8
  <2> QED BY <1>3, <1>7, <1>8, <2>1 DEF InsertsAt
<1>9. CASE c # 0 /\ (p <= Len(ts) /\ ts[p][1] = ex)
  <2>1. r = [ok |-> TRUE, terms |-> Spliced(ts, ex, FAdd(ts[p][2], c), p - 1, p)]
    <3> DEFINE d == FAdd(ts[p][2], c)
               S == SubSeq(ts, 1, p - 1) \o (IF d = 0 THEN <<>> ELSE <<<<ex, d>>>>) \o SubSeq(ts, p + 1, Len(ts))
    <3>1. r = [ok |-> TRUE, terms |-> S]
      BY <1>5, <1>9
    <3>2. Spliced(ts, ex, d, p - 1, p) = S
      BY <1>4
    <3> HIDE DEF S
    <3> QED BY <3>1, <3>2
  <2> QED BY <1>3, <1>7, <1>9, <2>1 DEF InsertsAt
<1>10. CASE c # 0 /\ ~(p <= Len(ts) /\ ts[p][1] = ex) /\ Len(ts) = MAX_TERMS
  <2>1. r = [ok |-> FALSE, terms |-> ts]
    BY <1>5, <1>10
  <2> QED BY <1>3, <1>7, <1>10, <2>1 DEF InsertsAt
<1>11. CASE c # 0 /\ ~(p <= Len(ts) /\ ts[p][1] = ex) /\ Len(ts) # MAX_TERMS
  <2>1. r = [ok |-> TRUE, terms |-> Spliced(ts, ex, c, p - 1, p - 1)]
    <3> DEFINE S == SubSeq(ts, 1, p - 1) \o <<<<ex, c>>>> \o SubSeq(ts, p, Len(ts))
    <3>1. r = [ok |-> TRUE, terms |-> S]
      BY <1>5, <1>11
    <3>2. (IF c = 0 THEN <<>> ELSE <<<<ex, c>>>>) = <<<<ex, c>>>>
      BY <1>11
    <3>3. Spliced(ts, ex, c, p - 1, p - 1) = S
      BY <1>4, <1>6, <3>2
    <3> HIDE DEF S
    <3> QED BY <3>1, <3>3
  <2> QED BY <1>3, <1>7, <1>11, <2>1 DEF InsertsAt
<1> QED BY <1>8, <1>9, <1>10, <1>11

(* An insertion gives a list of terms again.                                *)
LEMMA InsertType ==
  ASSUME NEW ts \in Seq(U256 \X F), NEW ex \in U256, NEW c \in F
  PROVE  Insert(ts, ex, c) \in [ok : BOOLEAN, terms : Seq(U256 \X F)]
<1>1. PICK r : r = Insert(ts, ex, c)
  OBVIOUS
<1>2. PICK p : InsertsAt(ts, ex, c, p, r)
  BY <1>1, InsertCases
<1>3. PICK n \in Nat : n = Len(ts) /\ p \in 1..(n + 1)
  BY <1>2, TermFacts DEF InsertsAt
<1>4. ASSUME NEW d \in F, NEW a \in Nat, NEW b \in Nat, a <= b, b <= n
      PROVE  Spliced(ts, ex, d, a, b) \in Seq(U256 \X F)
  <2>1. PICK V, mid : V = U256 \X F /\ mid = IF d = 0 THEN <<>> ELSE <<<<ex, d>>>>
    OBVIOUS
  <2>2. mid \in Seq(V) /\ ts \in Seq(V) /\ b <= Len(ts)
    <3>1. <<>> \in Seq(U256 \X F) /\ <<<<ex, d>>>> \in Seq(U256 \X F)
      OBVIOUS
    <3>2. b <= Len(ts)
      BY <1>3, <1>4
    <3> QED BY <2>1, <3>1, <3>2
  <2>3. PICK out : out = Replaced(ts, a, b, mid)
    OBVIOUS
  <2>4. out \in Seq(V)
    BY <1>4, <2>2, <2>3, SpliceIs
  <2> QED BY <2>1, <2>3, <2>4 DEF Spliced
<1>5. p <= n => FAdd(ts[p][2], c) \in F
  <2>1. p <= n => ts[p][2] \in F
    BY <1>3, TermFacts
  <2> QED BY <2>1, FAddIs
<1>6. p - 1 \in Nat /\ p \in Nat /\ p - 1 <= p /\ p - 1 <= p - 1 /\ p - 1 <= n
  BY <1>3
<1>7. p <= n => Spliced(ts, ex, FAdd(ts[p][2], c), p - 1, p) \in Seq(U256 \X F)
  BY <1>4, <1>5, <1>6
<1>8. Spliced(ts, ex, c, p - 1, p - 1) \in Seq(U256 \X F)
  BY <1>4, <1>6
<1>9. r \in [ok : BOOLEAN, terms : Seq(U256 \X F)]
  <2> DEFINE S == Seq(U256 \X F)
  <2>1. /\ ts \in S /\ Spliced(ts, ex, c, p - 1, p - 1) \in S
        /\ p <= n => Spliced(ts, ex, FAdd(ts[p][2], c), p - 1, p) \in S
    BY <1>7, <1>8
  <2> HIDE DEF S
  <2>2. \E s \in S : r = [ok |-> TRUE, terms |-> s] \/ r = [ok |-> FALSE, terms |-> s]
    BY <1>2, <1>3, <2>1 DEF InsertsAt
  <2>3. r \in [ok : BOOLEAN, terms : S]
    <3>1. PICK s \in S : r = [ok |-> TRUE, terms |-> s] \/ r = [ok |-> FALSE, terms |-> s]
      BY <2>2
    <3>2. TRUE \in BOOLEAN /\ FALSE \in BOOLEAN
      OBVIOUS
    <3>3. CASE r = [ok |-> TRUE, terms |-> s]
      BY <3>2, <3>3
    <3>4. CASE r = [ok |-> FALSE, terms |-> s]
      BY <3>2, <3>4
    <3> QED BY <3>1, <3>3, <3>4
  <2> QED BY <2>3 DEF S
<1> QED BY <1>1, <1>9

(* An insertion into the list of some coefficients gives the list of the    *)
(* coefficients with one changed, unless the list is full.                  *)
LEMMA InsertIs ==
  ASSUME NEW ts, NEW f, Stands(ts, f), NEW ex \in U256, NEW c \in F, NEW g \in [1..Word -> F],
         Changed(f, g, ex, FAdd(f[ex + 1], c)), NEW r, r = Insert(ts, ex, c)
  PROVE  /\ r.ok => Stands(r.terms, g) /\ (Len(ts) <= MAX_TERMS => Len(r.terms) <= MAX_TERMS)
         /\ ~r.ok => Len(ts) = MAX_TERMS /\ f[ex + 1] = 0 /\ g[ex + 1] # 0
<1>1. ts \in Seq(U256 \X F) /\ f \in [1..Word -> F] /\ Ascending(ts)
  BY DEF Stands
<1>2. PICK n \in Nat : n = Len(ts) /\ MAX_TERMS \in Nat
  BY <1>1, TermFacts, PolynomialAssumption, WordFacts DEF U256
<1>3. PICK p : InsertsAt(ts, ex, c, p, r)
  BY <1>1, InsertCases
<1>4. ex \in Nat /\ ex + 1 \in 1..Word
  BY WordFacts DEF U256
<1>5. p \in 1..(n + 1) /\ p - 1 \in Nat /\ p \in Nat /\ p - 1 <= n /\ p - 1 <= p
  <2>1. p \in 1..(n + 1)
    BY <1>2, <1>3 DEF InsertsAt
  <2> QED BY <2>1
<1>6. \A j \in 1..n : ts[j][1] \in Nat /\ ts[j][2] \in F /\ f[ts[j][1] + 1] = ts[j][2]
  BY <1>1, <1>2, TermFacts DEF Stands
<1>7. \A j \in 1..n : j > p => ts[j][1] > ex
  <2> SUFFICES ASSUME NEW j \in 1..n, j > p PROVE ts[j][1] > ex
    OBVIOUS
  <2>1. p \in 1..n /\ p < j /\ p # n + 1
    BY <1>5
  <2>2. ts[p][1] >= ex
    BY <1>2, <1>3, <2>1 DEF InsertsAt
  <2>3. ts[p][1] < ts[j][1]
    BY <1>1, <1>2, <2>1 DEF Ascending
  <2> QED BY <1>4, <1>6, <2>1, <2>2, <2>3
<1>8. \A j \in 1..n : j < p => ts[j][1] < ex
  BY <1>2, <1>3 DEF InsertsAt
<1>9. CASE c = 0 /\ r = [ok |-> TRUE, terms |-> ts]
  <2>1. \A e \in 1..Word : g[e] = f[e]
    <3>1. f[ex + 1] \in F
      BY <1>1, <1>4
    <3>2. FAdd(f[ex + 1], c) = f[ex + 1]
      BY <1>9, <3>1, FAddZero
    <3> QED BY <3>2 DEF Changed
  <2>2. Stands(ts, g)
    <3>1. \A k \in 1..Len(ts) : ts[k][1] + 1 \in 1..Word
      BY <1>1, TermFacts
    <3> QED BY <2>1, <3>1 DEF Stands
  <2>3. r.ok = TRUE /\ r.terms = ts
    BY <1>9
  <2> QED BY <2>2, <2>3
<1>10. CASE /\ c # 0 /\ p <= n /\ ts[p][1] = ex
            /\ r = [ok |-> TRUE, terms |-> Spliced(ts, ex, FAdd(ts[p][2], c), p - 1, p)]
  <2>1. PICK d : d = FAdd(ts[p][2], c)
    OBVIOUS
  <2>2. p \in 1..n /\ f[ex + 1] = ts[p][2] /\ d \in F
    <3>1. p \in 1..n
      BY <1>5, <1>10
    <3>2. f[ex + 1] = ts[p][2] /\ ts[p][2] \in F
      BY <1>6, <1>10, <3>1
    <3> QED BY <2>1, <3>1, <3>2, FAddIs
  <2>3. Changed(f, g, ex, d)
    BY <2>1, <2>2
  <2>4. PlaceOf(ts, ex, p - 1, p)
    <3>1. p - 1 + 1 = p /\ p <= p - 1 + 1
      BY <1>5
    <3>2. ASSUME NEW j \in 1..n
          PROVE  /\ j <= p - 1 => ts[j][1] < ex
                 /\ j > p => ts[j][1] > ex
                 /\ p - 1 < j /\ j <= p => ts[j][1] = ex
      <4>1. j <= p - 1 => j < p
        BY <1>5
      <4>2. p - 1 < j /\ j <= p => j = p
        BY <1>5
      <4> QED BY <1>7, <1>8, <1>10, <4>1, <4>2
    <3> QED BY <1>2, <1>5, <1>10, <3>1, <3>2 DEF PlaceOf
  <2>5. PICK out : out = Spliced(ts, ex, d, p - 1, p)
    OBVIOUS
  <2>6. Stands(out, g) /\ Len(out) = p - 1 + (IF d = 0 THEN 0 ELSE 1) + (Len(ts) - p)
    BY <2>2, <2>3, <2>4, <2>5, SpliceStands
  <2>7. Len(out) <= n
    <3>1. Len(out) = p - 1 + (IF d = 0 THEN 0 ELSE 1) + (n - p)
      BY <1>2, <2>6
    <3> QED BY <1>5, <3>1
  <2>8. Len(ts) <= MAX_TERMS => Len(out) <= MAX_TERMS
    <3>1. Len(out) \in Nat
      BY <2>6, TermFacts DEF Stands
    <3> QED BY <1>2, <2>7, <3>1
  <2>9. r.ok = TRUE /\ r.terms = out
    BY <1>10, <2>1, <2>5
  <2> QED BY <2>6, <2>8, <2>9
<1>11. ASSUME c # 0, ~(p <= n /\ ts[p][1] = ex) PROVE f[ex + 1] = 0 /\ g[ex + 1] = c
  <2>1. ASSUME f[ex + 1] # 0 PROVE FALSE
    <3>1. PICK j \in 1..n : ts[j][1] + 1 = ex + 1
      BY <1>2, <1>4, <2>1 DEF Stands
    <3>2. ts[j][1] = ex
      BY <1>4, <1>6, <3>1
    <3>3. ~(j < p) /\ ~(j > p)
      <4>1. ~(ts[j][1] < ex) /\ ~(ts[j][1] > ex)
        BY <1>4, <3>2
      <4> QED BY <1>7, <1>8, <4>1
    <3>4. j = p
      BY <1>5, <3>3
    <3>5. p <= n
      BY <3>4
    <3> QED BY <1>11, <3>2, <3>4, <3>5
  <2>2. FAdd(0, c) = c
    BY FAddZero
  <2> QED BY <2>1, <2>2 DEF Changed
<1>12. CASE /\ c # 0 /\ ~(p <= n /\ ts[p][1] = ex) /\ n = MAX_TERMS
            /\ r = [ok |-> FALSE, terms |-> ts]
  <2>1. r.ok = FALSE
    BY <1>12
  <2> QED BY <1>2, <1>11, <1>12, <2>1
<1>13. CASE /\ c # 0 /\ ~(p <= n /\ ts[p][1] = ex) /\ n # MAX_TERMS
            /\ r = [ok |-> TRUE, terms |-> Spliced(ts, ex, c, p - 1, p - 1)]
  <2>1. f[ex + 1] = 0 /\ g[ex + 1] = c
    BY <1>11, <1>13
  <2>2. Changed(f, g, ex, c)
    BY <2>1 DEF Changed
  <2>3. PlaceOf(ts, ex, p - 1, p - 1)
    <3>1. ASSUME NEW j \in 1..n
          PROVE  /\ j <= p - 1 => ts[j][1] < ex
                 /\ j > p - 1 => ts[j][1] > ex
                 /\ p - 1 < j /\ j <= p - 1 => ts[j][1] = ex
      <4>1. (j <= p - 1 => j < p) /\ ~(p - 1 < j /\ j <= p - 1)
        BY <1>5
      <4>2. j = p => ts[j][1] > ex
        <5>1. ASSUME j = p PROVE ts[j][1] > ex
          <6>1. p <= n /\ p # n + 1
            BY <1>5, <5>1
          <6>2. ts[p][1] # ex /\ ts[p][1] >= ex
            BY <1>2, <1>3, <1>13, <6>1 DEF InsertsAt
          <6> QED BY <1>4, <1>6, <5>1, <6>2
        <5> QED BY <5>1
      <4>3. j > p - 1 => j = p \/ j > p
        BY <1>5
      <4> QED BY <1>7, <1>8, <4>1, <4>2, <4>3
    <3>2. p - 1 <= p - 1 + 1 /\ p - 1 <= p - 1
      BY <1>5
    <3> QED BY <1>2, <1>5, <3>1, <3>2 DEF PlaceOf
  <2>4. PICK out : out = Spliced(ts, ex, c, p - 1, p - 1)
    OBVIOUS
  <2>5. Stands(out, g) /\ Len(out) = p - 1 + (IF c = 0 THEN 0 ELSE 1) + (Len(ts) - (p - 1))
    BY <2>2, <2>3, <2>4, SpliceStands
  <2>6. Len(out) = n + 1
    <3>1. Len(out) = p - 1 + 1 + (n - (p - 1))
      BY <1>2, <1>13, <2>5
    <3> QED BY <1>5, <3>1
  <2>7. Len(ts) <= MAX_TERMS => Len(out) <= MAX_TERMS
    BY <1>2, <1>13, <2>6
  <2>8. r.ok = TRUE /\ r.terms = out
    BY <1>13, <2>4
  <2> QED BY <2>5, <2>7, <2>8
<1> QED BY <1>2, <1>3, <1>9, <1>10, <1>12, <1>13 DEF InsertsAt

(* A full list with another exponent on its way in: the sum has too many     *)
(* terms by then.                                                           *)
LEMMA CrowdedIs ==
  ASSUME NEW list \in Seq(U256 \X F), NEW c \in 0..Len(list), NEW ts, NEW f, Stands(ts, f),
         Len(ts) = MAX_TERMS, NEW ex \in U256, NEW d, Changed(f, Nets(list, c), ex, d),
         f[ex + 1] = 0, d # 0
  PROVE  Crowded(list, c)
<1> DEFINE E == {e \in {list[k][1] : k \in 1..c} : Net(list, c, e) # 0}
<1>1. ts \in Seq(U256 \X F) /\ f \in [1..Word -> F] /\ Ascending(ts)
  BY DEF Stands
<1>2. PICK n \in Nat : n = Len(ts) /\ n = MAX_TERMS
  BY <1>1, TermFacts
<1>3. ex \in Nat /\ ex + 1 \in 1..Word /\ Word \in Nat
  BY WordFacts DEF U256
<1>4. ASSUME NEW e \in Nat, e + 1 \in 1..Word, Nets(list, c)[e + 1] # 0 PROVE e \in E
  <2>1. PICK e1 \in 1..Word : e1 = e + 1 /\ e1 - 1 = e
    BY <1>4
  <2>2. Net(list, c, e1 - 1) = Nets(list, c)[e1] /\ \E k \in 1..c : list[k][1] = e1 - 1
    BY <1>4, <2>1, NetStep
  <2>3. Net(list, c, e) # 0
    BY <1>4, <2>1, <2>2
  <2>4. PICK k \in 1..c : list[k][1] = e
    BY <2>1, <2>2
  <2> QED BY <2>3, <2>4
<1>5. IsFiniteSet(E)
  <2>1. E \subseteq 0..(Word - 1)
    <3>1. \A k \in 1..c : list[k][1] \in U256
      <4>1. \A k \in 1..c : k \in 1..Len(list)
        BY TermFacts
      <4> QED BY <4>1, TermFacts
    <3> QED BY <3>1 DEF U256
  <2>2. IsFiniteSet(0..(Word - 1))
    <3>1. 0 \in Int /\ Word - 1 \in Int
      BY <1>3
    <3> QED BY <3>1, FS_Interval
  <2> HIDE DEF E
  <2> QED BY <2>1, <2>2, FS_Subset
<1>6. ASSUME NEW j \in 1..n
      PROVE  ts[j][1] \in E /\ ts[j][1] # ex
  <2>1. ts[j][1] \in Nat /\ ts[j][1] + 1 \in 1..Word /\ f[ts[j][1] + 1] = ts[j][2] /\ ts[j][2] # 0
    BY <1>1, <1>2, TermFacts DEF Stands, Ascending
  <2>2. ts[j][1] # ex
    <3>1. ASSUME ts[j][1] = ex PROVE FALSE
      <4>1. f[ex + 1] = ts[j][2]
        BY <2>1, <3>1
      <4> QED BY <2>1, <4>1
    <3> QED BY <3>1
  <2>3. ts[j][1] + 1 # ex + 1
    BY <1>3, <2>1, <2>2
  <2>4. Nets(list, c)[ts[j][1] + 1] = ts[j][2]
    BY <2>1, <2>3 DEF Changed
  <2> HIDE DEF E
  <2> QED BY <1>4, <2>1, <2>2, <2>4
<1>7. ex \in E
  <2>1. Nets(list, c)[ex + 1] # 0
    BY DEF Changed
  <2> HIDE DEF E
  <2> QED BY <1>3, <1>4, <2>1
<1>8. PICK h : h = [j \in 1..(n + 1) |-> IF j <= n THEN ts[j][1] ELSE ex]
  OBVIOUS
<1> HIDE DEF E
<1>9. h \in [1..(n + 1) -> E]
  <2>1. \A j \in 1..(n + 1) : j <= n => j \in 1..n
    OBVIOUS
  <2> QED BY <1>6, <1>7, <1>8, <2>1
<1>10. \A j, k \in 1..(n + 1) : j < k => h[j] # h[k]
  <2> SUFFICES ASSUME NEW j \in 1..(n + 1), NEW k \in 1..(n + 1), j < k PROVE h[j] # h[k]
    OBVIOUS
  <2>1. j \in 1..n /\ h[j] = ts[j][1]
    BY <1>8
  <2>2. CASE k <= n
    <3>1. k \in 1..n /\ h[k] = ts[k][1]
      BY <1>8, <2>2
    <3>2. ts[j][1] < ts[k][1]
      BY <1>1, <1>2, <2>1, <3>1 DEF Ascending
    <3>3. ts[j][1] \in Nat /\ ts[k][1] \in Nat
      BY <1>1, <1>2, <2>1, <3>1, TermFacts
    <3> QED BY <2>1, <3>1, <3>2, <3>3
  <2>3. CASE ~(k <= n)
    <3>1. h[k] = ex
      BY <1>8, <2>3
    <3> QED BY <1>6, <2>1, <3>1
  <2> QED BY <2>2, <2>3
<1>11. n + 1 <= Cardinality(E)
  <2>1. n + 1 \in Nat
    OBVIOUS
  <2> QED BY <1>5, <1>9, <1>10, <2>1, Pigeons
<1>12. Cardinality(E) \in Nat
  BY <1>5, FS_CardinalityType
<1>13. Cardinality(E) > MAX_TERMS
  BY <1>2, <1>11, <1>12
<1> QED BY <1>13 DEF E, Crowded

(* The accumulation of a list gives the list of its net coefficients, or     *)
(* fails when there is no room for the sum so far.                          *)
LEMMA FromTermsIs ==
  ASSUME NEW list \in Seq(U256 \X F), NEW r, r = FromTerms(list)
  PROVE  /\ r.ok => Stands(r.terms, Nets(list, Len(list))) /\ Len(r.terms) <= MAX_TERMS
         /\ ~r.ok => \E k \in 1..Len(list) : Crowded(list, k)
<1> DEFINE n == Len(list)
           V == [ok : BOOLEAN, terms : Seq(U256 \X F)]
           v0 == [ok |-> TRUE, terms |-> <<>>]
           Next0(u, k) == IF ~u.ok THEN u ELSE Insert(u.terms, list[k][1], list[k][2])
           Step(b, k) ==
              IF k = 0 THEN [ok |-> TRUE, terms |-> <<>>]
              ELSE IF ~b[k - 1].ok THEN b[k - 1]
              ELSE Insert(b[k - 1].terms, list[k][1], list[k][2])
           G == [k \in 1..n |-> [u \in V |-> Next0(u, k)]]
           s == CHOOSE s : s = [k \in 0..n |-> Step(s, k)]
           Good(u, k) == /\ u.ok => Stands(u.terms, Nets(list, k)) /\ Len(u.terms) <= MAX_TERMS
                         /\ ~u.ok => \E j \in 1..k : Crowded(list, j)
<1>1. n \in Nat /\ MAX_TERMS \in Nat
  BY TermFacts, PolynomialAssumption, WordFacts DEF U256
<1>2. v0 \in V
  <2>1. <<>> \in Seq(U256 \X F) /\ TRUE \in BOOLEAN
    OBVIOUS
  <2> QED BY <2>1
<1>3. ASSUME NEW k \in 1..n, NEW u \in V PROVE Next0(u, k) \in V
  <2>1. list[k][1] \in U256 /\ list[k][2] \in F
    BY TermFacts
  <2>2. u.terms \in Seq(U256 \X F)
    OBVIOUS
  <2>3. Insert(u.terms, list[k][1], list[k][2]) \in V
    BY <2>1, <2>2, InsertType
  <2> HIDE DEF V
  <2> QED BY <2>3
<1>4. G \in [1..n -> [V -> V]]
  <2> HIDE DEF Next0, V
  <2> QED BY <1>3
<1>5. PICK f0 : Recurs(f0, V, v0, n, G)
  <2> HIDE DEF G, V, v0
  <2> QED BY <1>1, <1>2, <1>4, Recursion
<1>6. f0 \in [0..n -> V] /\ f0[0] = v0 /\ \A k \in 1..n : f0[k] = G[k][f0[k - 1]]
  <2> HIDE DEF G, V, v0
  <2> QED BY <1>5 DEF Recurs
<1>7. ASSUME NEW k \in 0..n PROVE f0[k] = Step(f0, k)
  <2>1. k # 0 => k - 1 \in 0..n /\ k \in 1..n
    BY <1>1
  <2>2. k # 0 => f0[k] = Next0(f0[k - 1], k)
    <3> HIDE DEF Next0, V, v0, Step
    <3>1. k # 0 => f0[k - 1] \in V
      BY <1>6, <2>1
    <3> QED BY <1>6, <2>1, <3>1
  <2>3. k = 0 => f0[k] = Step(f0, k)
    <3> HIDE DEF V, G
    <3> QED BY <1>6
  <2>4. k # 0 => Step(f0, k) = Next0(f0[k - 1], k)
    <3> HIDE DEF V, v0, G
    <3> QED OBVIOUS
  <2> HIDE DEF Next0, V, v0, Step, G
  <2> QED BY <2>2, <2>3, <2>4
<1>8. f0 = [k \in 0..n |-> Step(f0, k)]
  <2> HIDE DEF Step, G, V, v0
  <2>1. f0 = [k \in 0..n |-> f0[k]]
    BY <1>6
  <2> QED BY <1>7, <2>1
<1>9. s = [k \in 0..n |-> Step(s, k)]
  <2> HIDE DEF Step, G
  <2> QED BY <1>8
<1>10. r = s[n]
  BY DEF FromTerms
<1> HIDE DEF s, G, Next0
<1>11. \A k \in 0..n : s[k] = Step(s, k)
  <2> HIDE DEF Step
  <2> QED BY <1>9
<1> HIDE DEF Good, V
<1> DEFINE Q == {k \in Nat : k <= n => s[k] \in V /\ Good(s[k], k)}
<1>12. 0 \in Q
  <2>1. s[0] = v0
    BY <1>1, <1>11
  <2>2. Good(v0, 0)
    <3>1. v0.ok = TRUE /\ v0.terms = <<>>
      OBVIOUS
    <3>2. Len(<<>>) = 0 /\ <<>> \in Seq(U256 \X F)
      OBVIOUS
    <3>3. Nets(list, 0) \in [1..Word -> F] /\ \A e \in 1..Word : Nets(list, 0)[e] = 0
      <4>1. 0 \in 0..Len(list)
        BY <1>1
      <4> QED BY <4>1, NetStep
    <3>4. Stands(<<>>, Nets(list, 0))
      <4>1. PICK t0 : t0 = <<>>
        OBVIOUS
      <4>2. t0 \in Seq(U256 \X F) /\ \A k \in 1..Len(t0) : FALSE
        BY <3>2, <4>1
      <4>3. Stands(t0, Nets(list, 0))
        BY <3>3, <4>2 DEF Stands, Ascending
      <4> QED BY <4>1, <4>3
    <3> HIDE DEF v0
    <3> QED BY <1>1, <3>1, <3>2, <3>4 DEF Good
  <2> HIDE DEF v0, Step
  <2> QED BY <1>2, <2>1, <2>2
<1>13. ASSUME NEW k \in Q PROVE k + 1 \in Q
  <2>1. ASSUME k + 1 <= n PROVE s[k + 1] \in V /\ Good(s[k + 1], k + 1)
    <3>1. PICK e \in 1..n : e = k + 1 /\ e - 1 = k /\ k <= n /\ k \in 0..n /\ e \in 0..n /\ e # 0 /\ e > 0 /\ k \in Nat
      <4>1. k \in Nat
        OBVIOUS
      <4> HIDE DEF Q
      <4> QED BY <1>1, <2>1, <4>1
    <3>2. PICK u : u = s[k] /\ u \in V /\ Good(u, k)
      <4>1. s[k] \in V /\ Good(s[k], k)
        <5> HIDE DEF Step
        <5> QED BY <3>1
      <4> HIDE DEF Q
      <4> QED BY <4>1
    <3> HIDE DEF Q
    <3>3. s[e] = IF ~u.ok THEN u ELSE Insert(u.terms, list[e][1], list[e][2])
      <4>1. s[e] = Step(s, e) /\ e # 0 /\ s[e - 1] = u
        <5> HIDE DEF Step
        <5> QED BY <1>11, <3>1, <3>2
      <4> QED BY <4>1
    <3>4. CASE ~u.ok
      <4>1. s[e] = u /\ \E j \in 1..k : Crowded(list, j)
        BY <3>2, <3>3, <3>4 DEF Good
      <4>2. \A j \in 1..k : j \in 1..e
        BY <3>1
      <4>3. Good(u, e)
        BY <3>4, <4>1, <4>2 DEF Good
      <4> QED BY <3>1, <3>2, <4>1, <4>3
    <3>5. CASE u.ok
      <4>0. PICK ts, f, g : ts = u.terms /\ f = Nets(list, k) /\ g = Nets(list, e)
        OBVIOUS
      <4>11. PICK ex \in U256, c \in F : ex = list[e][1] /\ c = list[e][2]
        BY TermFacts
      <4>1. /\ ts = u.terms /\ f = Nets(list, k) /\ g = Nets(list, e)
            /\ ex = list[e][1] /\ c = list[e][2]
        BY <4>0, <4>11
      <4>2. Stands(ts, f) /\ Len(ts) <= MAX_TERMS
        BY <3>2, <3>5, <4>1 DEF Good
      <4>3. PICK w : w = Insert(ts, ex, c) /\ s[e] = w
        BY <3>3, <3>5, <4>1
      <4>4. ex \in Nat /\ ex + 1 \in 1..Word
        BY WordFacts DEF U256
      <4>5. g \in [1..Word -> F] /\ \A e1 \in 1..Word : g[e1] = IF e1 = ex + 1 THEN FAdd(f[e1], c) ELSE f[e1]
        <5>1. e \in 0..Len(list) /\ e > 0
          BY <3>1
        <5>2. Nets(list, e) \in [1..Word -> F] /\ \A e1 \in 1..Word :
                 Nets(list, e)[e1] = IF e1 = list[e][1] + 1 THEN FAdd(Nets(list, e - 1)[e1], list[e][2])
                                     ELSE Nets(list, e - 1)[e1]
          BY <5>1, NetStep
        <5>3. Nets(list, e - 1) = f
          BY <3>1, <4>1
        <5> QED BY <4>1, <5>2, <5>3
      <4>6. Changed(f, g, ex, FAdd(f[ex + 1], c))
        BY <4>4, <4>5 DEF Changed
      <4>7. /\ w.ok => Stands(w.terms, g) /\ (Len(ts) <= MAX_TERMS => Len(w.terms) <= MAX_TERMS)
            /\ ~w.ok => Len(ts) = MAX_TERMS /\ f[ex + 1] = 0 /\ g[ex + 1] # 0
        <5>1. ex \in U256 /\ c \in F
          BY <4>11
        <5>2. Stands(ts, f) /\ g \in [1..Word -> F] /\ w = Insert(ts, ex, c)
          BY <4>2, <4>3, <4>5
        <5> QED BY <4>6, <5>1, <5>2, InsertIs
      <4>8. ASSUME ~w.ok PROVE Crowded(list, e)
        <5>1. PICK d : d = g[ex + 1] /\ d # 0 /\ Changed(f, g, ex, d)
          BY <4>6, <4>7, <4>8 DEF Changed
        <5>2. Changed(f, Nets(list, e), ex, d) /\ e \in 0..Len(list) /\ Len(ts) = MAX_TERMS /\ f[ex + 1] = 0
          BY <3>1, <4>1, <4>7, <4>8, <5>1
        <5> QED BY <4>2, <5>1, <5>2, CrowdedIs
      <4>9. Good(w, e)
        <5>1. e \in 1..e
          BY <3>1
        <5> QED BY <4>1, <4>2, <4>7, <4>8, <5>1 DEF Good
      <4>10. w \in V
        <5>1. ts \in Seq(U256 \X F)
          BY <4>2 DEF Stands
        <5>2. ex \in U256 /\ c \in F
          BY <4>11
        <5>3. Insert(ts, ex, c) \in [ok : BOOLEAN, terms : Seq(U256 \X F)]
          BY <5>1, <5>2, InsertType
        <5> QED BY <4>3, <5>3 DEF V
      <4> QED BY <3>1, <4>3, <4>9, <4>10
    <3> QED BY <3>4, <3>5
  <2> HIDE DEF Step
  <2> QED BY <2>1
<1>14. Q = Nat
  <2>1. Q \in SUBSET Nat
    OBVIOUS
  <2> HIDE DEF Q
  <2> QED BY <1>12, <1>13, <2>1, Inductive
<1>15. Good(s[n], n)
  <2>1. n \in Q /\ n <= n
    <3> HIDE DEF Q
    <3> QED BY <1>1, <1>14
  <2> HIDE DEF Step
  <2> QED BY <2>1
<1> HIDE DEF Q, Step, v0
<1> QED BY <1>10, <1>15 DEF Good
-----------------------------------------------------------------------------
(* The two forms of a polynomial.                                           *)

(* A higher term goes to the end.                                           *)
LEMMA AppendStands ==
  ASSUME NEW ts, NEW f, Stands(ts, f), NEW ex \in U256, NEW c \in F, c # 0,
         \A j \in 1..Len(ts) : ts[j][1] < ex,
         NEW g \in [1..Word -> F], Changed(f, g, ex, c)
  PROVE  Stands(Append(ts, <<ex, c>>), g)
<1>1. ts \in Seq(U256 \X F) /\ Len(ts) \in Nat
  BY TermFacts DEF Stands
<1>2. PICK n \in Nat : n = Len(ts)
  BY <1>1
<1>3. PICK out : out = Spliced(ts, ex, c, n, n)
  OBVIOUS
<1>4. PlaceOf(ts, ex, n, n)
  BY <1>2 DEF PlaceOf
<1>5. Stands(out, g)
  BY <1>3, <1>4, SpliceStands
<1>6. PICK V : V = U256 \X F
  OBVIOUS
<1>7. PICK one : one = <<ex, c>>
  OBVIOUS
<1>8. ts \in Seq(V) /\ one \in V
  BY <1>1, <1>6, <1>7
<1>9. PICK mid : mid = <<one>>
  OBVIOUS
<1>10. mid \in Seq(V) /\ Len(mid) = 1 /\ mid[1] = one
  BY <1>8, <1>9
<1>11. out = Replaced(ts, n, n, mid)
  BY <1>3, <1>7, <1>9 DEF Spliced
<1>12. out \in Seq(V) /\ HasReplaced(out, ts, n, n, mid)
  BY <1>2, <1>8, <1>10, <1>11, SpliceIs
<1>13. Len(out) = n + 1 /\ (\A k \in 1..n : out[k] = ts[k]) /\ out[n + 1] = one
  <2>1. Len(out) = n + 1 + (n - n) /\ (\A k \in 1..n : out[k] = ts[k])
    BY <1>2, <1>10, <1>12 DEF HasReplaced
  <2>2. 1 \in 1..Len(mid)
    BY <1>10
  <2>3. out[n + 1] = mid[1]
    BY <1>12, <2>2 DEF HasReplaced
  <2> QED BY <1>10, <2>1, <2>3
<1>14. PICK app : app = Append(ts, one)
  OBVIOUS
<1>15. app \in Seq(V) /\ Len(app) = n + 1 /\ (\A k \in 1..n : app[k] = ts[k]) /\ app[n + 1] = one
  BY <1>2, <1>8, <1>14, AppendProperties
<1>16. app = out
  <2>1. ASSUME NEW k \in 1..Len(app) PROVE app[k] = out[k]
    <3>1. k \in 1..n \/ k = n + 1
      BY <1>15
    <3> QED BY <1>13, <1>15, <3>1
  <2>2. Len(app) = Len(out)
    BY <1>13, <1>15
  <2> QED BY ONLY <1>12, <1>15, <2>1, <2>2, SeqEqual
<1> QED BY <1>5, <1>7, <1>14, <1>16

(* The coefficients up to the k-th.                                         *)
LowerPart(cs, k) == [e \in 1..Word |-> IF e <= k THEN Coefficient(cs, e) ELSE 0]

LEMMA LowerStep ==
  ASSUME NEW cs \in Seq(F), Len(cs) <= Word, NEW k \in 0..Len(cs)
  PROVE  /\ LowerPart(cs, k) \in [1..Word -> F]
         /\ k = 0 => \A e \in 1..Word : LowerPart(cs, k)[e] = 0
         /\ k > 0 => /\ k - 1 \in U256 /\ cs[k] \in F
                     /\ Changed(LowerPart(cs, k - 1), LowerPart(cs, k), k - 1, cs[k])
                     /\ cs[k] = 0 => LowerPart(cs, k) = LowerPart(cs, k - 1)
         /\ \A e \in 1..Word : LowerPart(cs, k)[e] # 0 => e <= k
         /\ LowerPart(cs, Len(cs)) = Padded(cs, Word)
<1>1. Len(cs) \in Nat /\ Word \in Nat /\ U256 = 0..(Word - 1)
  BY FunctionOfIs, WordFacts DEF U256
<1>2. \A e \in 1..Word : /\ Coefficient(cs, e) \in F /\ (e <= Len(cs) => Coefficient(cs, e) = cs[e])
                         /\ (~(e <= Len(cs)) => Coefficient(cs, e) = 0)
  BY <1>1, CoefficientIs DEF Coefficient
<1>3. \A c : \A e \in 1..Word : LowerPart(cs, c)[e] = IF e <= c THEN Coefficient(cs, e) ELSE 0
  BY DEF LowerPart
<1>4. LowerPart(cs, k) \in [1..Word -> F]
  <2>1. 0 \in F
    BY ElementsAreNumbers
  <2> QED BY <1>2, <2>1 DEF LowerPart
<1>5. k = 0 => \A e \in 1..Word : LowerPart(cs, k)[e] = 0
  BY <1>3
<1>6. ASSUME k > 0
      PROVE  /\ k - 1 \in U256 /\ cs[k] \in F
             /\ Changed(LowerPart(cs, k - 1), LowerPart(cs, k), k - 1, cs[k])
             /\ cs[k] = 0 => LowerPart(cs, k) = LowerPart(cs, k - 1)
  <2>1. k \in 1..Word /\ k \in 1..Len(cs) /\ k - 1 \in U256 /\ k - 1 + 1 = k
    BY <1>1, <1>6
  <2>2. Coefficient(cs, k) = cs[k] /\ cs[k] \in F
    BY <1>2, <2>1
  <2>3. \A e \in 1..Word : e # k => (e <= k <=> e <= k - 1)
    BY <2>1
  <2>4. Changed(LowerPart(cs, k - 1), LowerPart(cs, k), k - 1, cs[k])
    <3>1. LowerPart(cs, k)[k] = cs[k]
      BY <1>3, <2>1, <2>2
    <3>2. \A e \in 1..Word : e # k => LowerPart(cs, k)[e] = LowerPart(cs, k - 1)[e]
      BY <1>3, <2>3
    <3> QED BY <2>1, <3>1, <3>2 DEF Changed
  <2>5. ASSUME cs[k] = 0 PROVE LowerPart(cs, k) = LowerPart(cs, k - 1)
    <3>1. ASSUME NEW e \in 1..Word
          PROVE  (IF e <= k THEN Coefficient(cs, e) ELSE 0) = (IF e <= k - 1 THEN Coefficient(cs, e) ELSE 0)
      BY <2>1, <2>2, <2>3, <2>5
    <3> QED BY <3>1 DEF LowerPart
  <2> QED BY <2>1, <2>2, <2>4, <2>5
<1>7. \A e \in 1..Word : LowerPart(cs, k)[e] # 0 => e <= k
  BY <1>3
<1>8. LowerPart(cs, Len(cs)) = Padded(cs, Word)
  <2>1. \A e \in 1..Word : (IF e <= Len(cs) THEN Coefficient(cs, e) ELSE 0) = Coefficient(cs, e)
    BY <1>2
  <2> QED BY <2>1 DEF LowerPart, Padded
<1> QED BY <1>4, <1>5, <1>6, <1>7, <1>8

(* The terms of a dense polynomial stand for its coefficients, and there    *)
(* are no more of them than coefficients that count.                        *)
LEMMA GatheredIs ==
  ASSUME NEW cs \in Seq(F), Len(cs) <= Word, NEW out, out = Gathered(cs)
  PROVE  /\ Stands(out, Padded(cs, Word))
         /\ Len(out) <= Cardinality({k \in 1..Len(cs) : cs[k] # 0})
<1> DEFINE n == Len(cs)
           V == Seq(U256 \X F)
           Next0(u, k) == IF cs[k] = 0 THEN u ELSE Append(u, <<k - 1, cs[k]>>)
           Step(b, k) == IF k = 0 THEN <<>>
                         ELSE IF cs[k] = 0 THEN b[k - 1] ELSE Append(b[k - 1], <<k - 1, cs[k]>>)
           G == [k \in 1..n |-> [u \in V |-> Next0(u, k)]]
           s == CHOOSE s : s = [k \in 0..n |-> Step(s, k)]
<1>1. n \in Nat /\ Word \in Nat
  BY FunctionOfIs, WordFacts
<1>2. <<>> \in V
  OBVIOUS
<1>3. ASSUME NEW k \in 1..n, NEW u \in V PROVE Next0(u, k) \in V
  <2>1. k \in 0..n /\ k > 0
    BY <1>1
  <2>2. k - 1 \in U256 /\ cs[k] \in F
    BY <2>1, LowerStep
  <2>3. <<k - 1, cs[k]>> \in U256 \X F
    BY <2>2
  <2>4. Append(u, <<k - 1, cs[k]>>) \in V
    BY <2>3, AppendProperties
  <2> HIDE DEF V
  <2> QED BY <2>4
<1>4. G \in [1..n -> [V -> V]]
  <2> HIDE DEF Next0, V
  <2> QED BY <1>3
<1>5. PICK f0 : Recurs(f0, V, <<>>, n, G)
  <2> HIDE DEF G, V
  <2> QED BY <1>1, <1>2, <1>4, Recursion
<1>6. f0 \in [0..n -> V] /\ f0[0] = <<>> /\ \A k \in 1..n : f0[k] = G[k][f0[k - 1]]
  <2> HIDE DEF G, V
  <2> QED BY <1>5 DEF Recurs
<1>7. ASSUME NEW k \in 0..n PROVE f0[k] = Step(f0, k)
  <2>1. k # 0 => k - 1 \in 0..n /\ k \in 1..n
    BY <1>1
  <2>2. k # 0 => f0[k] = Next0(f0[k - 1], k)
    <3> HIDE DEF Next0, V, Step
    <3>1. k # 0 => f0[k - 1] \in V
      BY <1>6, <2>1
    <3> QED BY <1>6, <2>1, <3>1
  <2>3. k = 0 => f0[k] = Step(f0, k)
    <3> HIDE DEF V, G
    <3> QED BY <1>6
  <2>4. k # 0 => Step(f0, k) = Next0(f0[k - 1], k)
    <3> HIDE DEF V, G
    <3> QED OBVIOUS
  <2> HIDE DEF Next0, V, Step, G
  <2> QED BY <2>2, <2>3, <2>4
<1>8. f0 = [k \in 0..n |-> Step(f0, k)]
  <2> HIDE DEF Step, G, V
  <2>1. f0 = [k \in 0..n |-> f0[k]]
    BY <1>6
  <2> QED BY <1>7, <2>1
<1>9. s = [k \in 0..n |-> Step(s, k)]
  <2> HIDE DEF Step, G
  <2> QED BY <1>8
<1>10. out = s[n]
  BY DEF Gathered
<1> HIDE DEF s, G, Next0
<1>11. \A k \in 0..n : s[k] = Step(s, k)
  <2> HIDE DEF Step
  <2> QED BY <1>9
<1> DEFINE Q == {k \in Nat : k <= n => Stands(s[k], LowerPart(cs, k))}
<1>12. 0 \in Q
  <2>1. s[0] = <<>>
    <3>1. s[0] = Step(s, 0)
      <4> HIDE DEF Step
      <4> QED BY <1>1, <1>11
    <3> QED BY <3>1
  <2>2. PICK f : f = LowerPart(cs, 0)
    OBVIOUS
  <2>3. f \in [1..Word -> F] /\ \A e \in 1..Word : f[e] = 0
    <3>1. 0 \in 0..Len(cs)
      BY <1>1
    <3> QED BY <2>2, <3>1, LowerStep
  <2>4. PICK t0 : t0 = <<>>
    OBVIOUS
  <2>5. t0 \in Seq(U256 \X F) /\ \A k \in 1..Len(t0) : FALSE
    BY <2>4
  <2>6. Stands(t0, f)
    BY <2>3, <2>5 DEF Stands, Ascending
  <2> QED BY <2>1, <2>2, <2>4, <2>6
<1>13. ASSUME NEW k \in Q PROVE k + 1 \in Q
  <2>1. ASSUME k + 1 <= n PROVE Stands(s[k + 1], LowerPart(cs, k + 1))
    <3>1. PICK e \in 1..n : e = k + 1 /\ e - 1 = k /\ k <= n /\ k \in 0..n /\ e \in 0..n /\ e # 0 /\ e > 0 /\ k \in Nat
      <4>1. k \in Nat
        OBVIOUS
      <4> HIDE DEF Q
      <4> QED BY <1>1, <2>1, <4>1
    <3>2. PICK u, f, g : u = s[k] /\ f = LowerPart(cs, k) /\ g = LowerPart(cs, e)
      OBVIOUS
    <3>3. Stands(u, f)
      <4>1. Stands(s[k], LowerPart(cs, k))
        <5> HIDE DEF Step
        <5> QED BY <3>1
      <4> HIDE DEF Q
      <4> QED BY <3>2, <4>1
    <3> HIDE DEF Q
    <3>4. s[e] = IF cs[e] = 0 THEN u ELSE Append(u, <<k, cs[e]>>)
      <4>1. s[e] = Step(s, e) /\ e # 0 /\ s[e - 1] = u
        <5> HIDE DEF Step
        <5> QED BY <1>11, <3>1, <3>2
      <4> QED BY <3>1, <4>1
    <3>5. /\ k \in U256 /\ cs[e] \in F /\ Changed(f, g, k, cs[e])
          /\ cs[e] = 0 => g = f
          /\ g \in [1..Word -> F]
      <4>1. /\ e - 1 \in U256 /\ cs[e] \in F
            /\ Changed(LowerPart(cs, e - 1), LowerPart(cs, e), e - 1, cs[e])
            /\ cs[e] = 0 => LowerPart(cs, e) = LowerPart(cs, e - 1)
            /\ LowerPart(cs, e) \in [1..Word -> F]
        BY <3>1, LowerStep
      <4>2. e - 1 = k
        BY <3>1
      <4> QED BY <3>2, <4>1, <4>2
    <3>6. ASSUME NEW j \in 1..Len(u) PROVE u[j][1] < k
      <4>1. u[j][1] \in Nat /\ u[j][1] + 1 \in 1..Word /\ f[u[j][1] + 1] # 0
        BY <3>3, TermFacts DEF Stands, Ascending
      <4>2. u[j][1] + 1 <= k
        BY <3>1, <3>2, <4>1, LowerStep
      <4> QED BY <3>1, <4>1, <4>2
    <3>7. CASE cs[e] = 0
      BY <3>1, <3>2, <3>3, <3>4, <3>5, <3>7
    <3>8. CASE cs[e] # 0
      <4>0. PICK c \in F : c = cs[e]
        BY <3>5
      <4>3. c # 0 /\ Changed(f, g, k, c) /\ g \in [1..Word -> F]
        BY <3>5, <3>8, <4>0
      <4>4. k \in U256
        BY <3>5
      <4>1. Stands(Append(u, <<k, c>>), g)
        BY <3>3, <3>6, <4>3, <4>4, AppendStands
      <4> QED BY <3>1, <3>2, <3>4, <3>8, <4>0, <4>1
    <3> QED BY <3>7, <3>8
  <2> HIDE DEF Step
  <2> QED BY <2>1
<1>14. Q = Nat
  <2>1. Q \in SUBSET Nat
    OBVIOUS
  <2> HIDE DEF Q
  <2> QED BY <1>12, <1>13, <2>1, Inductive
<1>15. Stands(out, Padded(cs, Word))
  <2>1. n \in Q /\ n <= n
    <3> HIDE DEF Q
    <3> QED BY <1>1, <1>14
  <2>2. Stands(s[n], LowerPart(cs, n))
    <3> HIDE DEF Step
    <3> QED BY <2>1
  <2>3. n \in 0..Len(cs)
    BY <1>1
  <2>4. LowerPart(cs, n) = Padded(cs, Word)
    BY <2>3, LowerStep
  <2> HIDE DEF Q
  <2> QED BY <1>10, <2>2, <2>4
<1> HIDE DEF Q, Step
<1> DEFINE T == {k \in 1..Len(cs) : cs[k] # 0}
<1>16. PICK size \in Nat : size = Len(out)
  BY <1>15, TermFacts DEF Stands
<1>17. PICK h : h = [j \in 1..size |-> out[j][1] + 1]
  OBVIOUS
<1>18. IsFiniteSet(T)
  <2>1. T \subseteq 1..n /\ IsFiniteSet(1..n)
    BY <1>1, FS_Interval
  <2> HIDE DEF T
  <2> QED BY <2>1, FS_Subset
<1>19. h \in [1..size -> T]
  <2>1. ASSUME NEW j \in 1..size PROVE out[j][1] + 1 \in T
    <3>1. out[j][1] + 1 \in 1..Word /\ Padded(cs, Word)[out[j][1] + 1] # 0
      BY <1>15, <1>16, TermFacts DEF Stands, Ascending
    <3>2. PICK e \in 1..Word : e = out[j][1] + 1
      BY <3>1
    <3>3. Coefficient(cs, e) # 0
      BY <3>1, <3>2 DEF Padded
    <3>4. e \in 1..Len(cs) /\ cs[e] # 0
      BY <1>1, <3>2, <3>3 DEF Coefficient
    <3> QED BY <3>2, <3>4
  <2> HIDE DEF T
  <2> QED BY <1>17, <2>1
<1>20. \A j, k \in 1..size : j < k => h[j] # h[k]
  <2> SUFFICES ASSUME NEW j \in 1..size, NEW k \in 1..size, j < k PROVE h[j] # h[k]
    OBVIOUS
  <2>1. out[j][1] < out[k][1]
    BY <1>15, <1>16 DEF Stands, Ascending
  <2>2. out[j][1] \in Nat /\ out[k][1] \in Nat
    BY <1>15, <1>16, TermFacts DEF Stands
  <2>3. h[j] = out[j][1] + 1 /\ h[k] = out[k][1] + 1
    BY <1>17
  <2> QED BY <2>1, <2>2, <2>3
<1>21. size <= Cardinality(T)
  <2> HIDE DEF T
  <2> QED BY <1>18, <1>19, <1>20, Pigeons
<1> QED BY <1>15, <1>16, <1>21

(* The coefficients that terms are spread over are those they stand for.    *)
LEMMA SpreadIs ==
  ASSUME NEW ts, NEW f, Stands(ts, f), NEW out, out = Spread(ts)
  PROVE  /\ out \in Seq(F) /\ Len(out) = (IF ts = <<>> THEN 0 ELSE SparseDegree(ts) + 1)
         /\ Len(out) > 0 => out[Len(out)] # 0
         /\ \A v \in F : PolySum(f, Word, v) = PolySum(out, Len(out), v)
<1>1. /\ ts \in Seq(U256 \X F) /\ f \in [1..Word -> F] /\ Ascending(ts)
      /\ \A k \in 1..Len(ts) : f[ts[k][1] + 1] = ts[k][2]
      /\ \A e \in 1..Word : f[e] # 0 => \E k \in 1..Len(ts) : ts[k][1] + 1 = e
  BY DEF Stands
<1>2. PICK n \in Nat : n = Len(ts) /\ Word \in Nat
  BY <1>1, TermFacts, WordFacts
<1>3. \A k \in 1..n : /\ ts[k][1] \in Nat /\ ts[k][1] + 1 \in 1..Word /\ ts[k][2] # 0 /\ ts[k][2] \in F
                      /\ f[ts[k][1] + 1] = ts[k][2]
  BY <1>1, <1>2, TermFacts DEF Ascending
<1>4. (ts = <<>>) <=> (n = 0)
  BY <1>1, <1>2, EmptySeq
<1>5. PICK len \in 0..Word :
         /\ len = IF ts = <<>> THEN 0 ELSE SparseDegree(ts) + 1
         /\ n > 0 => len = ts[n][1] + 1 /\ len > 0 /\ n \in 1..n
         /\ n = 0 => len = 0
  <2>1. CASE n = 0
    <3>1. 0 \in 0..Word
      BY <1>2
    <3> QED BY <1>4, <2>1, <3>1
  <2>2. CASE n # 0
    <3>1. n \in 1..n
      BY <1>2, <2>2
    <3>2. SparseDegree(ts) + 1 = ts[n][1] + 1 /\ ts[n][1] + 1 \in 1..Word
      BY <1>2, <1>3, <1>4, <2>2, <3>1 DEF SparseDegree
    <3>3. ts[n][1] + 1 \in 0..Word /\ ts[n][1] + 1 > 0
      BY <1>2, <3>2
    <3> QED BY <1>4, <2>2, <3>1, <3>2, <3>3
  <2> QED BY <2>1, <2>2
<1> DEFINE Here(k) == {j \in 1..Len(ts) : ts[j][1] = k - 1}
           Value(k) == IF Here(k) = {} THEN 0 ELSE ts[CHOOSE j \in Here(k) : TRUE][2]
<1>6. out = [k \in 1..len |-> Value(k)]
  BY <1>5 DEF Spread
<1>7. ASSUME NEW k \in 1..len PROVE Value(k) = f[k] /\ f[k] \in F
  <2>1. k \in 1..Word /\ f[k] \in F
    BY <1>1, <1>2, <1>5
  <2>2. CASE Here(k) = {}
    <3>1. ASSUME f[k] # 0 PROVE FALSE
      <4>1. PICK j \in 1..Len(ts) : ts[j][1] + 1 = k
        BY <1>1, <2>1, <3>1
      <4>2. ts[j][1] = k - 1
        <5>1. ts[j][1] \in Nat /\ k \in Nat
          BY <1>2, <1>3, <2>1, <4>1
        <5> HIDE DEF Here
        <5> QED BY <4>1, <5>1
      <4> QED BY <2>2, <4>2
    <3> QED BY <2>1, <2>2, <3>1
  <2>3. CASE Here(k) # {}
    <3>1. PICK j : j = CHOOSE j1 \in Here(k) : TRUE
      OBVIOUS
    <3>2. j \in Here(k)
      <4> HIDE DEF Here
      <4> QED BY <2>3, <3>1
    <3>3. j \in 1..n /\ ts[j][1] = k - 1 /\ Value(k) = ts[j][2]
      BY <1>2, <2>3, <3>1, <3>2
    <3>4. ts[j][1] + 1 = k
      BY <2>1, <3>3
    <3> HIDE DEF Value, Here
    <3> QED BY <1>3, <2>1, <3>3, <3>4
  <2> HIDE DEF Value, Here
  <2> QED BY <2>2, <2>3
<1> HIDE DEF Value
<1>8. out \in Seq(F) /\ Len(out) = len /\ \A k \in 1..len : out[k] = f[k]
  <2>1. out \in [1..len -> F] /\ len \in Nat
    BY <1>2, <1>5, <1>6, <1>7
  <2>2. out \in Seq(F) /\ Len(out) = len
    BY <2>1, VectorLength
  <2> QED BY <1>6, <1>7, <2>2
<1>9. ASSUME len > 0 PROVE out[len] # 0
  <2>1. n > 0 /\ len \in 1..len
    BY <1>2, <1>5, <1>9
  <2>2. len = ts[n][1] + 1 /\ n \in 1..n
    BY <1>5, <2>1
  <2>3. out[len] = f[ts[n][1] + 1]
    BY <1>8, <2>1, <2>2
  <2> QED BY <1>3, <2>2, <2>3
<1>10. ASSUME NEW e \in 1..Word, ~(e <= len) PROVE f[e] = 0
  <2>1. ASSUME f[e] # 0 PROVE FALSE
    <3>1. PICK k \in 1..n : ts[k][1] + 1 = e
      BY <1>1, <1>2, <2>1
    <3>2. n > 0
      BY <1>2, <3>1
    <3>3. k < n \/ k = n
      BY <1>2, <3>1
    <3>4. n \in 1..n /\ len = ts[n][1] + 1
      BY <1>5, <3>2
    <3>5. ts[k][1] < ts[n][1] \/ k = n
      BY <1>1, <1>2, <3>1, <3>3, <3>4 DEF Ascending
    <3>6. e <= len
      BY <1>3, <3>1, <3>4, <3>5
    <3> QED BY <1>10, <3>6
  <2> QED BY <2>1
<1>11. ASSUME NEW v \in F PROVE PolySum(f, Word, v) = PolySum(out, Len(out), v)
  <2>1. len \in Nat /\ len <= Word /\ v \in Int
    BY <1>2, <1>5, ElementsAreNumbers
  <2>2. \A k \in 1..len : out[k] \in Int
    <3>1. \A k \in 1..len : out[k] \in F
      BY <1>7, <1>8
    <3> QED BY <3>1, ElementsAreNumbers
  <2>3. \A k \in 1..Word : f[k] = IF k <= len THEN out[k] ELSE 0
    <3>1. ASSUME NEW k \in 1..Word PROVE f[k] = IF k <= len THEN out[k] ELSE 0
      <4>1. k <= len => k \in 1..len
        BY <2>1
      <4> QED BY <1>8, <1>10, <4>1
    <3> QED BY <3>1
  <2>4. Pads(f, out, len, Word)
    BY <2>2, <2>3 DEF Pads
  <2> QED BY <1>2, <1>8, <2>1, <2>4, PolyPads
<1> QED BY <1>5, <1>8, <1>9, <1>11
-----------------------------------------------------------------------------
(* The state of a polynomial, through its operations.                       *)

(* Coefficients and terms that stand for the function g.                    *)
DenseFor(cs, g) ==
    /\ cs \in Seq(F) /\ Len(cs) <= MAX_COEFFS
    /\ Len(cs) > 0 => cs[Len(cs)] # 0
    /\ g = FunctionOf(cs)

SparseFor(ts, g) ==
    /\ Len(ts) <= MAX_TERMS /\ g \in [F -> F]
    /\ \E f : Stands(ts, f) /\ \A v \in F : Same(g[v], PolySum(f, Word, v), FR_MODULUS)

(* The inductive invariant.                                                 *)
PolyInv ==
    /\ \/ poly = NoPoly /\ refused.op \in {"none", "from_coefficients", "from_terms"}
       \/ poly.form = "dense" /\ DenseFor(poly.content, meant)
       \/ poly.form = "sparse" /\ SparseFor(poly.content, meant)
    /\ RefusalIsRight

LEMMA BecomesDense ==
  ASSUME NEW cs, NEW g, DenseFor(cs, g), Become("dense", cs, g)
  PROVE  PolyInv'
<1>1. poly'.form = "dense" /\ poly'.content = cs /\ meant' = g /\ refused' = NotRefused
  BY DEF Become
<1>2. RefusalIsRight'
  BY <1>1 DEF RefusalIsRight, NotRefused
<1>4. (poly.form = "dense" /\ DenseFor(poly.content, meant))'
  BY <1>1 DEF DenseFor
<1> QED BY <1>2, <1>4 DEF PolyInv

LEMMA BecomesSparse ==
  ASSUME NEW ts, NEW g, SparseFor(ts, g), Become("sparse", ts, g)
  PROVE  PolyInv'
<1>1. poly'.form = "sparse" /\ poly'.content = ts /\ meant' = g /\ refused' = NotRefused
  BY DEF Become
<1>2. RefusalIsRight'
  BY <1>1 DEF RefusalIsRight, NotRefused
<1>3. (poly.form = "sparse" /\ SparseFor(poly.content, meant))'
  BY <1>1 DEF SparseFor
<1> QED BY <1>2, <1>3 DEF PolyInv

LEMMA RefusedKeeps ==
  ASSUME PolyInv, NEW op, NEW given, Refuse(op, given), RefusalIsRight',
         poly = NoPoly => op \in {"from_coefficients", "from_terms"}
  PROVE  PolyInv'
<1>1. poly' = poly /\ meant' = meant /\ refused'.op = op
  BY DEF Refuse
<1>2. CASE poly = NoPoly
  <2>1. poly' = NoPoly /\ refused'.op \in {"none", "from_coefficients", "from_terms"}
    BY <1>1, <1>2
  <2> QED BY <2>1 DEF PolyInv
<1>3. CASE poly.form = "dense" /\ DenseFor(poly.content, meant)
  <2>1. (poly.form = "dense" /\ DenseFor(poly.content, meant))'
    BY <1>1, <1>3 DEF DenseFor
  <2> QED BY <2>1 DEF PolyInv
<1>4. CASE poly.form = "sparse" /\ SparseFor(poly.content, meant)
  <2>1. (poly.form = "sparse" /\ SparseFor(poly.content, meant))'
    BY <1>1, <1>4 DEF SparseFor
  <2> QED BY <2>1 DEF PolyInv
<1> QED BY <1>2, <1>3, <1>4 DEF PolyInv

(* What the form of the polynomial at hand tells.                           *)
LEMMA FormTells ==
  ASSUME PolyInv
  PROVE  /\ poly.form = "dense" => DenseFor(poly.content, meant) /\ poly # NoPoly
         /\ poly.form = "sparse" => SparseFor(poly.content, meant) /\ poly # NoPoly
BY DEF PolyInv, NoPoly

LEMMA FromCoefficientsKeeps ==
  ASSUME PolyInv, NEW cs \in CoeffLists, FromCoefficients(cs)
  PROVE  PolyInv'
<1>1. cs \in Seq(F) /\ MAX_COEFFS \in Nat
  BY PolynomialAssumption, WordFacts DEF U256
<1>2. PICK out : out = Canonical(cs)
  OBVIOUS
<1>3. /\ out \in Seq(F) /\ Len(out) \in 0..Len(cs) /\ Len(cs) \in Nat /\ DOMAIN cs = 1..Len(cs)
      /\ Len(out) > 0 => out[Len(out)] # 0 /\ cs[Len(out)] = out[Len(out)]
      /\ \A k \in Nat \ {0} : Coefficient(out, k) = Coefficient(cs, k)
  BY <1>1, <1>2, CanonicalIs, FunctionOfIs
<1>4. CASE Len(out) > MAX_COEFFS
  <2>1. Refuse("from_coefficients", cs) /\ poly = NoPoly
    BY <1>2, <1>4 DEF FromCoefficients
  <2>2. RefusalIsRight'
    <3>1. refused'.op = "from_coefficients" /\ refused'.given = cs
      BY <2>1 DEF Refuse
    <3>2. Len(out) \in DOMAIN cs /\ Len(out) > MAX_COEFFS /\ cs[Len(out)] # 0
      BY <1>1, <1>3, <1>4
    <3> QED BY <3>1, <3>2 DEF RefusalIsRight
  <2> QED BY <2>1, <2>2, RefusedKeeps
<1>5. CASE ~(Len(out) > MAX_COEFFS)
  <2>1. Become("dense", out, FunctionOf(cs))
    BY <1>2, <1>5 DEF FromCoefficients
  <2>2. FunctionOf(cs) = FunctionOf(out)
    BY <1>1, <1>3, SameFunction
  <2>3. Len(out) <= MAX_COEFFS
    BY <1>1, <1>3, <1>5
  <2>4. DenseFor(out, FunctionOf(cs))
    BY <1>3, <2>2, <2>3 DEF DenseFor
  <2> QED BY <2>1, <2>4, BecomesDense
<1> QED BY <1>4, <1>5

LEMMA FromTermsKeeps ==
  ASSUME PolyInv, NEW ts \in TermLists, FromTermsSlice(ts)
  PROVE  PolyInv'
<1>1. ts \in Seq(U256 \X F)
  BY PolynomialAssumption
<1>2. PICK r : r = FromTerms(ts)
  OBVIOUS
<1>3. /\ r.ok => Stands(r.terms, Nets(ts, Len(ts))) /\ Len(r.terms) <= MAX_TERMS
      /\ ~r.ok => \E k \in 1..Len(ts) : Crowded(ts, k)
  BY <1>1, <1>2, FromTermsIs
<1>4. CASE ~r.ok
  <2>1. Refuse("from_terms", ts) /\ poly = NoPoly
    BY <1>2, <1>4 DEF FromTermsSlice
  <2>2. RefusalIsRight'
    <3>1. refused'.op = "from_terms" /\ refused'.given = ts
      BY <2>1 DEF Refuse
    <3>2. DOMAIN ts = 1..Len(ts)
      BY <1>1
    <3>3. \E k \in DOMAIN refused'.given : Crowded(refused'.given, k)
      BY <1>3, <1>4, <3>1, <3>2
    <3> QED BY <3>1, <3>3 DEF RefusalIsRight
  <2> QED BY <2>1, <2>2, RefusedKeeps
<1>5. CASE r.ok
  <2>1. Become("sparse", r.terms, FunctionOfTerms(ts))
    BY <1>2, <1>5 DEF FromTermsSlice
  <2>2. ASSUME NEW v \in F PROVE Same(FunctionOfTerms(ts)[v], PolySum(Nets(ts, Len(ts)), Word, v), FR_MODULUS)
    <3>1. PICK n \in 0..Len(ts) : n = Len(ts)
      BY <1>1, TermFacts
    <3>2. Same(TermSum(ts, n, v), PolySum(Nets(ts, n), Word, v), FR_MODULUS)
      BY <1>1, NetSum
    <3>3. PICK h : h = Nets(ts, n)
      OBVIOUS
    <3>4. PolySum(h, Word, v) \in Int
      <4>1. h \in [1..Word -> F]
        BY <1>1, <3>3, NetStep
      <4>2. \A e \in 1..Word : h[e] \in Int
        BY <4>1, ElementsAreNumbers
      <4> QED BY <4>2, PolyStep, ElementsAreNumbers, WordFacts
    <3>5. PICK a \in Int, b \in Int, c \in Int :
             a = FunctionOfTerms(ts)[v] /\ b = TermSum(ts, n, v) /\ c = PolySum(h, Word, v)
      BY <1>1, <3>1, <3>4, FunctionOfTermsIs, ElementsAreNumbers
    <3>6. Same(a, b, FR_MODULUS) /\ Same(b, c, FR_MODULUS) /\ FR_MODULUS \in Nat
      BY <1>1, <3>1, <3>2, <3>3, <3>5, FunctionOfTermsIs, ElementsAreNumbers
    <3>7. Same(a, c, FR_MODULUS)
      BY <3>6, SameChain
    <3> QED BY <3>1, <3>3, <3>5, <3>7
  <2>3. FunctionOfTerms(ts) \in [F -> F]
    BY <1>1, FunctionOfTermsIs
  <2>4. SparseFor(r.terms, FunctionOfTerms(ts))
    BY <1>3, <1>5, <2>2, <2>3 DEF SparseFor
  <2> QED BY <2>1, <2>4, BecomesSparse
<1> QED BY <1>4, <1>5

LEMMA TransformKeeps ==
  ASSUME PolyInv, NEW cs \in CoeffLists, Transform(cs)
  PROVE  PolyInv'
<1>1. cs \in Seq(F) /\ MAX_COEFFS \in Nat
  BY PolynomialAssumption, WordFacts DEF U256
<1>2. PICK p, q : p = poly.content /\ q = Canonical(cs)
  OBVIOUS
<1>3. /\ q \in Seq(F) /\ Len(q) > 0 => q[Len(q)] # 0
      /\ \A k \in Nat \ {0} : Coefficient(q, k) = Coefficient(cs, k)
  BY <1>1, <1>2, CanonicalIs
<1>4. poly.form = "dense" /\ Len(q) <= MAX_COEFFS
  BY <1>2 DEF Transform
<1>5. /\ p \in Seq(F) /\ Len(p) <= MAX_COEFFS /\ meant = FunctionOf(p) /\ poly # NoPoly
      /\ Len(p) > 0 => p[Len(p)] # 0
  BY <1>2, <1>4, FormTells DEF DenseFor
<1>6. FunctionOf(cs) = FunctionOf(q)
  <2>1. \A k \in Nat \ {0} : Coefficient(cs, k) = Coefficient(q, k)
    BY <1>3
  <2>2. q \in Seq(F)
    BY <1>2, <1>1, CanonicalIs
  <2> QED BY <1>1, <2>1, <2>2, SameFunction
<1>12. q \in Seq(F) /\ (Len(q) > 0 => q[Len(q)] # 0) /\ Len(p) \in Nat /\ Len(q) \in Nat
  BY <1>1, <1>2, <1>5, CanonicalIs, FunctionOfIs
<1>7. \/ Become("dense", Combine(p, q, FAdd), [v \in F |-> (FunctionOf(p)[v] + FunctionOf(q)[v]) % FR_MODULUS])
      \/ Become("dense", Combine(p, q, FSub), [v \in F |-> (FunctionOf(p)[v] - FunctionOf(q)[v]) % FR_MODULUS])
      \/ IF p # <<>> /\ q # <<>> /\ Len(p) + Len(q) - 1 > MAX_COEFFS THEN Refuse("mul", cs)
         ELSE Become("dense", ProductDense(p, q),
                     [v \in F |-> (FunctionOf(p)[v] * FunctionOf(q)[v]) % FR_MODULUS])
  BY <1>2, <1>5, <1>6 DEF Transform
<1>8. CASE Become("dense", Combine(p, q, FAdd), [v \in F |-> (FunctionOf(p)[v] + FunctionOf(q)[v]) % FR_MODULUS])
  <2>1. PICK out, g : /\ out = Combine(p, q, FAdd)
                      /\ g = [v \in F |-> (FunctionOf(p)[v] + FunctionOf(q)[v]) % FR_MODULUS]
    OBVIOUS
  <2>2. /\ out \in Seq(F) /\ Len(out) \in 0..MAX_COEFFS
        /\ Len(out) > 0 => out[Len(out)] # 0
        /\ g = FunctionOf(out)
    BY <1>1, <1>4, <1>5, <1>12, <2>1, CombineIs
  <2>3. DenseFor(out, g)
    BY <1>1, <2>2 DEF DenseFor
  <2>4. Become("dense", out, g)
    BY <1>8, <2>1
  <2> QED BY <2>3, <2>4, BecomesDense
<1>9. CASE Become("dense", Combine(p, q, FSub), [v \in F |-> (FunctionOf(p)[v] - FunctionOf(q)[v]) % FR_MODULUS])
  <2>1. PICK out, g : /\ out = Combine(p, q, FSub)
                      /\ g = [v \in F |-> (FunctionOf(p)[v] - FunctionOf(q)[v]) % FR_MODULUS]
    OBVIOUS
  <2>2. /\ out \in Seq(F) /\ Len(out) \in 0..MAX_COEFFS
        /\ Len(out) > 0 => out[Len(out)] # 0
        /\ g = FunctionOf(out)
    BY <1>1, <1>4, <1>5, <1>12, <2>1, CombineIs
  <2>3. DenseFor(out, g)
    BY <1>1, <2>2 DEF DenseFor
  <2>4. Become("dense", out, g)
    BY <1>9, <2>1
  <2> QED BY <2>3, <2>4, BecomesDense
<1>10. CASE p # <<>> /\ q # <<>> /\ Len(p) + Len(q) - 1 > MAX_COEFFS /\ Refuse("mul", cs)
  <2>1. Len(p) > 0 /\ Len(q) > 0
    BY <1>5, <1>10, <1>12, EmptySeq
  <2>2. Len(p) \in 1..MAX_COEFFS /\ Len(q) \in 1..MAX_COEFFS
    BY <1>1, <1>4, <1>5, <1>12, <2>1
  <2>3. Coefficient(p, Len(p)) # 0
    BY <1>5, <1>12, <2>1 DEF Coefficient
  <2>4. Coefficient(cs, Len(q)) # 0
    <3>1. Coefficient(q, Len(q)) # 0
      BY <1>12, <2>1 DEF Coefficient
    <3>2. Len(q) \in Nat \ {0}
      BY <1>12, <2>1
    <3> QED BY <1>3, <3>1, <3>2
  <2>5. RefusalIsRight'
    <3>1. refused'.op = "mul" /\ refused'.given = cs /\ poly'.content = p
      BY <1>2, <1>10 DEF Refuse
    <3>2. \E j, k \in 1..MAX_COEFFS : /\ j + k - 1 > MAX_COEFFS /\ Coefficient(p, j) # 0
                                      /\ Coefficient(cs, k) # 0
      BY <1>10, <2>2, <2>3, <2>4
    <3> QED BY <3>1, <3>2 DEF RefusalIsRight, Coefficient
  <2> QED BY <1>5, <1>10, <2>5, RefusedKeeps
<1>11. CASE /\ ~(p # <<>> /\ q # <<>> /\ Len(p) + Len(q) - 1 > MAX_COEFFS)
            /\ Become("dense", ProductDense(p, q),
                      [v \in F |-> (FunctionOf(p)[v] * FunctionOf(q)[v]) % FR_MODULUS])
  <2>1. PICK out, g : /\ out = ProductDense(p, q)
                      /\ g = [v \in F |-> (FunctionOf(p)[v] * FunctionOf(q)[v]) % FR_MODULUS]
    OBVIOUS
  <2>2. /\ out \in Seq(F)
        /\ Len(out) > 0 => /\ out[Len(out)] # 0 /\ p # <<>> /\ q # <<>>
                           /\ Len(out) = Len(p) + Len(q) - 1
        /\ g = FunctionOf(out)
    BY <1>5, <1>12, <2>1, ProductIs
  <2>3. Len(out) \in Nat
    BY <2>2, FunctionOfIs
  <2>4. Len(out) <= MAX_COEFFS
    <3>1. CASE Len(out) > 0
      <4>1. ~(Len(p) + Len(q) - 1 > MAX_COEFFS) /\ Len(out) = Len(p) + Len(q) - 1
        BY <1>11, <2>2, <3>1
      <4> QED BY <1>1, <1>12, <4>1
    <3>2. CASE ~(Len(out) > 0)
      BY <1>1, <2>3, <3>2
    <3> QED BY <3>1, <3>2
  <2>5. DenseFor(out, g)
    BY <2>2, <2>4 DEF DenseFor
  <2>6. Become("dense", out, g)
    BY <1>11, <2>1
  <2> QED BY <2>5, <2>6, BecomesDense
<1> QED BY <1>7, <1>8, <1>9, <1>10, <1>11

LEMMA ScaleKeeps ==
  ASSUME PolyInv, NEW s \in F, Scale(s)
  PROVE  PolyInv'
<1>1. MAX_COEFFS \in Nat /\ poly.form = "dense"
  BY PolynomialAssumption, WordFacts DEF U256, Scale
<1>2. PICK p : p = poly.content
  OBVIOUS
<1>3. p \in Seq(F) /\ Len(p) <= MAX_COEFFS /\ meant = FunctionOf(p) /\ Len(p) \in Nat
  BY <1>1, <1>2, FormTells, FunctionOfIs DEF DenseFor
<1>4. PICK out, g : out = Scaled(p, s) /\ g = [v \in F |-> (FunctionOf(p)[v] * s) % FR_MODULUS]
  OBVIOUS
<1>5. /\ out \in Seq(F) /\ Len(out) \in 0..Len(p)
      /\ Len(out) > 0 => out[Len(out)] # 0
      /\ g = FunctionOf(out)
  BY <1>3, <1>4, ScaledIs
<1>6. Len(out) <= MAX_COEFFS
  BY <1>1, <1>3, <1>5
<1>7. DenseFor(out, g)
  BY <1>5, <1>6 DEF DenseFor
<1>8. Become("dense", out, g)
  BY <1>2, <1>3, <1>4 DEF Scale
<1> QED BY <1>7, <1>8, BecomesDense

LEMMA ToSparseKeeps ==
  ASSUME PolyInv, ToSparse
  PROVE  PolyInv'
<1>1. MAX_COEFFS \in Nat /\ MAX_TERMS \in Nat /\ MAX_COEFFS < Word /\ Word \in Nat /\ poly.form = "dense"
  <2>1. U256 = 0..(Word - 1) /\ Word \in Nat
    BY WordFacts DEF U256
  <2> QED BY <2>1, PolynomialAssumption DEF ToSparse
<1>2. PICK p, out : p = poly.content /\ out = Gathered(p)
  OBVIOUS
<1>3. p \in Seq(F) /\ Len(p) <= MAX_COEFFS /\ meant = FunctionOf(p) /\ Len(p) \in Nat /\ poly # NoPoly
  BY <1>1, <1>2, FormTells, FunctionOfIs DEF DenseFor
<1>4. Len(p) <= Word
  BY <1>1, <1>3
<1>5. Stands(out, Padded(p, Word)) /\ Len(out) <= Cardinality({k \in 1..Len(p) : p[k] # 0})
  BY <1>2, <1>3, <1>4, GatheredIs
<1>6. Len(out) \in Nat
  BY <1>5, TermFacts DEF Stands
<1>7. CASE Len(out) > MAX_TERMS
  <2>1. Refuse("to_sparse", <<>>)
    BY <1>2, <1>7 DEF ToSparse
  <2>2. Cardinality({k \in 1..Len(p) : p[k] # 0}) > MAX_TERMS
    <3>1. PICK T : T = {k \in 1..Len(p) : p[k] # 0}
      OBVIOUS
    <3>2. Cardinality(T) \in Nat
      <4>1. IsFiniteSet(1..Len(p)) /\ T \subseteq 1..Len(p)
        BY <1>3, <3>1, FS_Interval
      <4> QED BY <4>1, FS_Subset, FS_CardinalityType
    <3>3. Cardinality(T) > MAX_TERMS
      BY <1>1, <1>5, <1>6, <1>7, <3>1, <3>2
    <3> QED BY <3>1, <3>3
  <2>3. RefusalIsRight'
    <3>1. refused'.op = "to_sparse" /\ poly'.content = p
      BY <1>2, <2>1 DEF Refuse
    <3> QED BY <2>2, <3>1 DEF RefusalIsRight
  <2> QED BY <1>3, <2>1, <2>3, RefusedKeeps
<1>8. CASE ~(Len(out) > MAX_TERMS)
  <2>1. Become("sparse", out, meant)
    BY <1>2, <1>8 DEF ToSparse
  <2>2. \A v \in F : Same(meant[v], PolySum(Padded(p, Word), Word, v), FR_MODULUS)
    <3> SUFFICES ASSUME NEW v \in F
                 PROVE  Same(meant[v], PolySum(Padded(p, Word), Word, v), FR_MODULUS)
      OBVIOUS
    <3>1. PolySum(Padded(p, Word), Word, v) = PolySum(p, Len(p), v)
      BY <1>1, <1>3, <1>4, PaddedSum
    <3>2. Same(FunctionOf(p)[v], PolySum(p, Len(p), v), FR_MODULUS)
      BY <1>3, FunctionOfIs
    <3> QED BY <1>3, <3>1, <3>2
  <2>3. meant \in [F -> F] /\ Len(out) <= MAX_TERMS
    BY <1>1, <1>3, <1>6, <1>8, FunctionOfIs
  <2>4. SparseFor(out, meant)
    BY <1>5, <2>2, <2>3 DEF SparseFor
  <2> QED BY <2>1, <2>4, BecomesSparse
<1> QED BY <1>7, <1>8

LEMMA ToDenseKeeps ==
  ASSUME PolyInv, ToDense
  PROVE  PolyInv'
<1>1. MAX_COEFFS \in Nat /\ poly.form = "sparse"
  BY PolynomialAssumption, WordFacts DEF U256, ToDense
<1>2. PICK p, out : p = poly.content /\ out = Spread(p)
  OBVIOUS
<1>3. SparseFor(p, meant) /\ poly # NoPoly
  BY <1>1, <1>2, FormTells
<1>4. PICK f : Stands(p, f) /\ \A v \in F : Same(meant[v], PolySum(f, Word, v), FR_MODULUS)
  BY <1>3 DEF SparseFor
<1>5. /\ out \in Seq(F) /\ Len(out) = (IF p = <<>> THEN 0 ELSE SparseDegree(p) + 1)
      /\ Len(out) > 0 => out[Len(out)] # 0
      /\ \A v \in F : PolySum(f, Word, v) = PolySum(out, Len(out), v)
  BY <1>2, <1>4, SpreadIs
<1>6. CASE p # <<>> /\ SparseDegree(p) + 1 > MAX_COEFFS
  <2>1. Refuse("to_dense", <<>>)
    BY <1>2, <1>6 DEF ToDense
  <2>2. p \in Seq(U256 \X F)
    BY <1>4 DEF Stands
  <2>3. Len(p) \in 1..Len(p)
    BY <1>6, <2>2, EmptySeq, TermFacts
  <2>4. p[Len(p)][1] \in Nat /\ SparseDegree(p) = p[Len(p)][1]
    BY <1>6, <2>2, <2>3, TermFacts DEF SparseDegree
  <2>5. p[Len(p)][1] >= MAX_COEFFS
    BY <1>1, <1>6, <2>4
  <2>6. RefusalIsRight'
    <3>1. refused'.op = "to_dense" /\ poly'.content = p
      BY <1>2, <2>1 DEF Refuse
    <3> QED BY <2>3, <2>5, <3>1 DEF RefusalIsRight
  <2> QED BY <1>3, <2>1, <2>6, RefusedKeeps
<1>7. CASE ~(p # <<>> /\ SparseDegree(p) + 1 > MAX_COEFFS)
  <2>1. Become("dense", out, meant)
    BY <1>2, <1>7 DEF ToDense
  <2>2. Len(out) <= MAX_COEFFS
    <3>1. Len(out) \in Nat
      BY <1>5, FunctionOfIs
    <3> QED BY <1>1, <1>5, <1>7, <3>1
  <2>3. meant \in [F -> F]
    BY <1>3 DEF SparseFor
  <2>4. \A v \in F : Same(meant[v], PolySum(out, Len(out), v), FR_MODULUS)
    BY <1>4, <1>5
  <2>5. meant = FunctionOf(out)
    <3>1. out \in Seq(F)
      BY <1>5
    <3>2. PICK g \in [F -> F] : g = meant
      BY <2>3
    <3>3. g = FunctionOf(out)
      BY <2>4, <3>1, <3>2, FunctionIs
    <3> QED BY <3>2, <3>3
  <2>6. DenseFor(out, meant)
    BY <1>5, <2>2, <2>5 DEF DenseFor
  <2> QED BY <2>1, <2>6, BecomesDense
<1> QED BY <1>6, <1>7

(* The invariant gives exactness.                                           *)
LEMMA PolyInvIsExact ==
  ASSUME PolyInv
  PROVE  PolynomialsAreExact
<1>1. PICK p : p = poly.content
  OBVIOUS
<1>2. ASSUME poly.form = "dense"
      PROVE  /\ Len(p) <= MAX_COEFFS
             /\ \A v \in F : EvaluateDense(p, v) = meant[v]
             /\ Len(p) > 0 => p[Len(p)] # 0
  <2>1. DenseFor(p, meant)
    BY <1>1, <1>2, FormTells
  <2>2. p \in Seq(F) /\ meant = FunctionOf(p)
    BY <2>1 DEF DenseFor
  <2>3. \A v \in F : EvaluateDense(p, v) = meant[v]
    BY <2>2, EvaluateDenseIs
  <2> QED BY <2>1, <2>3 DEF DenseFor
<1>3. ASSUME poly.form = "sparse"
      PROVE  /\ Len(p) <= MAX_TERMS
             /\ \A v \in F : EvaluateSparse(p, v) = meant[v]
             /\ \A k \in 1..Len(p) : p[k][2] # 0 /\ (k > 1 => p[k - 1][1] < p[k][1])
  <2>1. SparseFor(p, meant)
    BY <1>1, <1>3, FormTells
  <2>2. PICK f : Stands(p, f) /\ \A v \in F : Same(meant[v], PolySum(f, Word, v), FR_MODULUS)
    BY <2>1 DEF SparseFor
  <2>3. p \in Seq(U256 \X F) /\ f \in [1..Word -> F] /\ Ascending(p)
    BY <2>2 DEF Stands
  <2>4. Len(p) \in Nat
    BY <2>3, TermFacts
  <2>5. ASSUME NEW k \in 1..Len(p) PROVE p[k][2] # 0 /\ (k > 1 => p[k - 1][1] < p[k][1])
    <3>1. k > 1 => k - 1 \in 1..Len(p) /\ k - 1 < k
      BY <2>4
    <3> QED BY <2>3, <3>1 DEF Ascending
  <2>6. ASSUME NEW v \in F PROVE EvaluateSparse(p, v) = meant[v]
    <3>1. EvaluateSparse(p, v) = FunctionOfTerms(p)[v]
      BY <2>3, EvaluateSparseIs
    <3>2. Nets(p, Len(p)) = f
      BY <2>2, StandsForNet
    <3>3. Same(TermSum(p, Len(p), v), PolySum(f, Word, v), FR_MODULUS)
      <4>1. PICK n \in 0..Len(p) : n = Len(p)
        BY <2>4
      <4>2. Same(TermSum(p, n, v), PolySum(Nets(p, n), Word, v), FR_MODULUS)
        BY <2>3, NetSum
      <4> QED BY <3>2, <4>1, <4>2
    <3>4. PolySum(f, Word, v) \in Int
      <4>1. \A e \in 1..Word : f[e] \in Int
        BY <2>3, ElementsAreNumbers
      <4> QED BY <4>1, PolyStep, ElementsAreNumbers, WordFacts
    <3>5. PICK a \in F, b \in Int, c \in Int, d \in F :
             /\ a = FunctionOfTerms(p)[v] /\ b = TermSum(p, Len(p), v) /\ c = PolySum(f, Word, v)
             /\ d = meant[v]
      <4>1. meant[v] \in F
        BY <2>1 DEF SparseFor
      <4> QED BY <2>3, <3>4, <4>1, FunctionOfTermsIs
    <3>6. Same(a, b, FR_MODULUS) /\ Same(b, c, FR_MODULUS) /\ Same(d, c, FR_MODULUS)
      BY <2>2, <2>3, <3>3, <3>5, FunctionOfTermsIs
    <3>7. FR_MODULUS \in Nat /\ a \in Int /\ d \in Int
      BY <3>5, ElementsAreNumbers
    <3>8. Same(a, d, FR_MODULUS)
      <4>1. Same(a, c, FR_MODULUS) /\ Same(c, d, FR_MODULUS)
        BY <3>5, <3>6, <3>7, SameChain
      <4> QED BY <3>5, <3>7, <4>1, SameChain
    <3>9. a = d
      BY <3>5, <3>8, ElementIs
    <3> QED BY <3>1, <3>5, <3>9
  <2> QED BY <2>1, <2>5, <2>6 DEF SparseFor
<1>4. poly.form = "none" => refused.op \in {"none", "from_coefficients", "from_terms"}
  BY DEF PolyInv
<1>5. RefusalIsRight
  BY DEF PolyInv
<1> QED BY <1>1, <1>2, <1>3, <1>4, <1>5 DEF PolynomialsAreExact

(* Whatever a caller builds and does, a dense and a sparse polynomial       *)
(* evaluate to the function they stand for, keep their form, and only what  *)
(* has no room is refused: for every modulus and room, every coefficient    *)
(* list and every list of terms.                                            *)
THEOREM PolynomialsStayExact == PolySpec => []PolynomialsAreExact
<1>1. PolyInit => PolyInv
  BY DEF PolyInit, PolyInv, RefusalIsRight, NotRefused
<1>2. PolyInv /\ [PolyNext]_polyVars => PolyInv'
  <2> SUFFICES ASSUME PolyInv, [PolyNext]_polyVars PROVE PolyInv'
    OBVIOUS
  <2>1. CASE \E cs \in CoeffLists : FromCoefficients(cs)
    BY <2>1, FromCoefficientsKeeps
  <2>2. CASE \E ts \in TermLists : FromTermsSlice(ts)
    BY <2>2, FromTermsKeeps
  <2>3. CASE \E cs \in CoeffLists : Transform(cs)
    BY <2>3, TransformKeeps
  <2>4. CASE \E s \in F : Scale(s)
    BY <2>4, ScaleKeeps
  <2>5. CASE ToSparse
    BY <2>5, ToSparseKeeps
  <2>6. CASE ToDense
    BY <2>6, ToDenseKeeps
  <2>7. CASE Forget
    <3>1. poly' = NoPoly /\ refused' = NotRefused
      BY <2>7 DEF Forget, Become, NoPoly
    <3> QED BY <3>1 DEF PolyInv, RefusalIsRight, NotRefused
  <2>8. CASE UNCHANGED polyVars
    <3>1. poly' = poly /\ meant' = meant /\ refused' = refused
      BY <2>8 DEF polyVars
    <3>2. RefusalIsRight'
      BY <3>1 DEF PolyInv, RefusalIsRight
    <3>3. (poly.form = "dense" /\ DenseFor(poly.content, meant)) =>
             (poly.form = "dense" /\ DenseFor(poly.content, meant))'
      BY <3>1 DEF DenseFor
    <3>4. (poly.form = "sparse" /\ SparseFor(poly.content, meant)) =>
             (poly.form = "sparse" /\ SparseFor(poly.content, meant))'
      BY <3>1 DEF SparseFor
    <3> QED BY <3>1, <3>2, <3>3, <3>4 DEF PolyInv
  <2> QED BY <2>1, <2>2, <2>3, <2>4, <2>5, <2>6, <2>7, <2>8 DEF PolyNext
<1>3. PolyInv => PolynomialsAreExact
  BY PolyInvIsExact
<1> QED BY <1>1, <1>2, <1>3, PTL DEF PolySpec

-----------------------------------------------------------------------------
(* The elements of the field of the STARK building blocks.                  *)

(* Elements are numbers.                                                    *)
LEMMA FeltFacts ==
  /\ MODULUS \in Nat /\ MODULUS > 2 /\ MODULUS > 0
  /\ \A a \in Felts : a \in Nat /\ a \in Int /\ a < MODULUS
  /\ 0 \in Felts /\ 1 \in Felts
<1>1. MODULUS \in Nat /\ MODULUS > 2
  BY FeltAssumption
<1> QED BY <1>1 DEF Felts

(* Congruent elements are equal.                                            *)
LEMMA FeltIs ==
  ASSUME NEW a \in Felts, NEW b \in Felts, Same(a, b, MODULUS)
  PROVE  a = b
<1>1. a \in Int /\ b \in Int /\ MODULUS \in Nat /\ MODULUS > 0
  BY FeltFacts
<1>2. a % MODULUS = a /\ b % MODULUS = b
  BY <1>1, ResidueIsIdempotent DEF Felts
<1>3. a % MODULUS = b % MODULUS
  BY <1>1, SameIsResidue
<1> QED BY <1>2, <1>3

(* A residue is an element.                                                 *)
LEMMA FeltOfResidue ==
  ASSUME NEW v \in Int
  PROVE  v % MODULUS \in Felts /\ Same(v % MODULUS, v, MODULUS)
<1>1. MODULUS \in Nat /\ MODULUS > 0
  BY FeltFacts
<1>2. PICK r : r = v % MODULUS
  OBVIOUS
<1>3. r \in 0..(MODULUS - 1) /\ Same(r, v, MODULUS)
  BY <1>1, <1>2, SameAsResidue
<1> QED BY <1>2, <1>3 DEF Felts

(* The operations on what is congruent to integers u and v.                 *)
LEMMA FeltAddOf ==
  ASSUME NEW a \in Felts, NEW b \in Felts, NEW u \in Int, NEW v \in Int,
         Same(a, u, MODULUS), Same(b, v, MODULUS)
  PROVE  FeltAdd(a, b) \in Felts /\ Same(FeltAdd(a, b), u + v, MODULUS)
<1>1. MODULUS \in Nat /\ a \in Int /\ b \in Int
  BY FeltFacts
<1>2. PICK s \in Int : s = a + b
  BY <1>1
<1>3. PICK r : r = FeltAdd(a, b)
  OBVIOUS
<1>4. r \in Felts /\ Same(r, s, MODULUS)
  BY <1>2, <1>3, FeltOfResidue DEF FeltAdd
<1>5. Same(s, u + v, MODULUS)
  BY <1>1, <1>2, SameSum
<1>6. r \in Int /\ u + v \in Int
  BY <1>4, FeltFacts
<1>7. Same(r, u + v, MODULUS)
  BY <1>1, <1>4, <1>5, <1>6, SameChain
<1> QED BY <1>3, <1>4, <1>7

LEMMA FeltSubOf ==
  ASSUME NEW a \in Felts, NEW b \in Felts, NEW u \in Int, NEW v \in Int,
         Same(a, u, MODULUS), Same(b, v, MODULUS)
  PROVE  FeltSub(a, b) \in Felts /\ Same(FeltSub(a, b), u - v, MODULUS)
<1>1. MODULUS \in Nat /\ a \in Int /\ b \in Int
  BY FeltFacts
<1>2. PICK s \in Int : s = a + MODULUS - b
  BY <1>1
<1>3. PICK r : r = FeltSub(a, b)
  OBVIOUS
<1>4. r \in Felts /\ Same(r, s, MODULUS)
  BY <1>2, <1>3, FeltOfResidue DEF FeltSub
<1>5. Same(s, u - v, MODULUS)
  <2>1. PICK k \in Int : a = u + MODULUS * k
    BY DEF Same
  <2>2. PICK l \in Int : b = v + MODULUS * l
    BY DEF Same
  <2>3. MODULUS * (k - l + 1) = MODULUS * k - MODULUS * l + MODULUS
    BY <1>1, Z3
  <2>4. PICK mk \in Int, ml \in Int : mk = MODULUS * k /\ ml = MODULUS * l
    BY <1>1
  <2>5. s = (u - v) + MODULUS * (k - l + 1) /\ k - l + 1 \in Int
    BY <1>1, <1>2, <2>1, <2>2, <2>3, <2>4
  <2> QED BY <2>5 DEF Same
<1>6. r \in Int /\ u - v \in Int
  BY <1>4, FeltFacts
<1>7. Same(r, u - v, MODULUS)
  BY <1>1, <1>4, <1>5, <1>6, SameChain
<1> QED BY <1>3, <1>4, <1>7

LEMMA FeltMulOf ==
  ASSUME NEW a \in Felts, NEW b \in Felts, NEW u \in Int, NEW v \in Int,
         Same(a, u, MODULUS), Same(b, v, MODULUS)
  PROVE  FeltMul(a, b) \in Felts /\ Same(FeltMul(a, b), u * v, MODULUS)
<1>1. MODULUS \in Nat /\ a \in Int /\ b \in Int
  BY FeltFacts
<1>2. PICK s \in Int, p \in Int : s = a * b /\ p = u * v
  BY <1>1
<1>3. PICK r : r = FeltMul(a, b)
  OBVIOUS
<1>4. r \in Felts /\ Same(r, s, MODULUS)
  BY <1>2, <1>3, FeltOfResidue DEF FeltMul
<1>5. Same(s, p, MODULUS)
  BY <1>1, <1>2, SameProduct
<1>6. r \in Int
  BY <1>4, FeltFacts
<1>7. Same(r, p, MODULUS)
  BY <1>1, <1>2, <1>4, <1>5, <1>6, SameChain
<1> QED BY <1>2, <1>3, <1>4, <1>7

LEMMA FeltSelf == \A a \in Felts : a \in Int /\ Same(a, a, MODULUS)
<1>1. ASSUME NEW a \in Felts PROVE a \in Int /\ Same(a, a, MODULUS)
  <2>1. a \in Int /\ MODULUS \in Nat
    BY FeltFacts
  <2> QED BY <2>1, SameIsEquivalence
<1> QED BY <1>1

LEMMA FeltNegIs ==
  ASSUME NEW a \in Felts
  PROVE  FeltNeg(a) \in Felts /\ Same(FeltNeg(a), 0 - a, MODULUS)
<1>1. a \in Int /\ a \in 0..(MODULUS - 1) /\ MODULUS \in Nat
  BY FeltFacts DEF Felts
<1>2. CASE a = 0
  <2>1. FeltNeg(a) = 0 /\ 0 - a = 0 /\ 0 \in Felts
    BY <1>2, FeltFacts DEF FeltNeg
  <2>2. Same(0, 0, MODULUS)
    BY <2>1, FeltSelf
  <2> QED BY <2>1, <2>2
<1>3. CASE a # 0
  <2>1. FeltNeg(a) = MODULUS - a /\ MODULUS - a \in Felts
    BY <1>1, <1>3 DEF FeltNeg, Felts
  <2>2. MODULUS - a = (0 - a) + MODULUS * 1
    BY <1>1
  <2> QED BY <2>1, <2>2 DEF Same
<1> QED BY <1>2, <1>3

-----------------------------------------------------------------------------
(* Powers and inverses in it.                                               *)

(* Equal exponents of congruent numbers.                                    *)
LEMMA RaisedOfSame ==
  ASSUME NEW m \in Nat, NEW u \in Int, NEW v \in Int, Same(u, v, m), NEW e \in Nat
  PROVE  Same(Raised(u, e), Raised(v, e), m)
<1> DEFINE Q == {k \in Nat : Same(Raised(u, k), Raised(v, k), m)}
<1>1. 0 \in Q
  <2>1. Raised(u, 0) = 1 /\ Raised(v, 0) = 1 /\ Same(1, 1, m)
    BY RaisedStep, SameIsEquivalence
  <2> QED BY <2>1
<1>2. ASSUME NEW k \in Q PROVE k + 1 \in Q
  <2>1. k \in Nat /\ k + 1 \in Nat
    OBVIOUS
  <2>2. PICK p \in Int, q \in Int : p = Raised(u, k) /\ q = Raised(v, k) /\ Same(p, q, m)
    BY <2>1, RaisedStep
  <2>3. Raised(u, k + 1) = p * u /\ Raised(v, k + 1) = q * v
    BY <2>1, <2>2, RaisedStep
  <2>4. Same(p * u, q * v, m)
    BY <2>2, SameProduct
  <2> QED BY <2>1, <2>3, <2>4
<1>3. Q = Nat
  <2>1. Q \in SUBSET Nat
    OBVIOUS
  <2> HIDE DEF Q
  <2> QED BY <1>1, <1>2, <2>1, Inductive
<1> QED BY <1>3

(* Powers of a power, and of a product.                                     *)
LEMMA RaisedTwice ==
  ASSUME NEW v \in Int, NEW e \in Nat, NEW d \in Nat
  PROVE  Raised(Raised(v, e), d) = Raised(v, e * d)
<1>1. PICK p \in Int : p = Raised(v, e)
  BY RaisedStep
<1> DEFINE Q == {k \in Nat : Raised(p, k) = Raised(v, e * k)}
<1>2. 0 \in Q
  <2>1. Raised(p, 0) = 1 /\ Raised(v, 0) = 1 /\ e * 0 = 0
    BY RaisedStep
  <2> QED BY <2>1
<1>3. ASSUME NEW k \in Q PROVE k + 1 \in Q
  <2>1. k \in Nat /\ k + 1 \in Nat
    OBVIOUS
  <2>2. PICK ek \in Nat : ek = e * k
    BY <2>1
  <2>3. e * (k + 1) = ek + e
    BY <2>1, <2>2
  <2>4. Raised(v, ek + e) = Raised(v, ek) * Raised(v, e)
    BY <2>2, RaisedSum
  <2>5. Raised(p, k + 1) = Raised(p, k) * p
    BY <2>1, RaisedStep
  <2>6. Raised(p, k) = Raised(v, ek)
    BY <2>2
  <2>7. Raised(p, k + 1) = Raised(v, e * (k + 1))
    BY <1>1, <2>3, <2>4, <2>5, <2>6
  <2> QED BY <2>1, <2>7
<1>4. Q = Nat
  <2>1. Q \in SUBSET Nat
    OBVIOUS
  <2> HIDE DEF Q
  <2> QED BY <1>2, <1>3, <2>1, Inductive
<1>5. d \in Q
  <2> HIDE DEF Q
  <2> QED BY <1>4
<1> QED BY <1>1, <1>5

(* One bit of the exponent.                                                 *)
LEMMA FeltPowBit ==
  ASSUME NEW a \in Felts, NEW k \in Nat, k > 0, NEW r \in Felts, NEW s, s = FeltMul(r, r),
         Same(r, Raised(a, k \div 2), MODULUS),
         NEW p, p = IF k % 2 = 1 THEN FeltMul(s, a) ELSE s
  PROVE  p \in Felts /\ Same(p, Raised(a, k), MODULUS)
<1>1. PICK h \in Nat, b \in 0..1 : h = k \div 2 /\ b = k % 2 /\ k = 2 * h + b
  OBVIOUS
<1>2. a \in Int /\ Same(a, a, MODULUS) /\ MODULUS \in Nat
  BY FeltSelf, FeltFacts
<1>3. PICK q \in Int : q = Raised(a, h)
  BY <1>2, RaisedStep
<1>4. s \in Felts /\ Same(s, q * q, MODULUS) /\ q * q \in Int
  BY <1>1, <1>3, FeltMulOf
<1>5. PICK d \in Nat : d = h + h /\ 2 * h = d
  OBVIOUS
<1>6. Raised(a, d) = q * q
  BY <1>2, <1>3, <1>5, RaisedSum
<1>7. CASE b = 1
  <2>1. p = FeltMul(s, a) /\ k = d + 1
    BY <1>1, <1>5, <1>7
  <2>2. Raised(a, k) = (q * q) * a
    BY <1>2, <1>5, <1>6, <2>1, RaisedStep
  <2>3. p \in Felts /\ Same(p, (q * q) * a, MODULUS)
    BY <1>2, <1>4, <2>1, FeltMulOf
  <2> QED BY <2>2, <2>3
<1>8. CASE b = 0
  <2>1. p = s /\ k = d
    BY <1>1, <1>5, <1>8
  <2> QED BY <1>4, <1>6, <2>1
<1> QED BY <1>1, <1>7, <1>8

(* Square and multiply computes the power.                                  *)
LEMMA FeltPowIs ==
  ASSUME NEW a \in Felts, NEW e \in Nat
  PROVE  FeltPow(a, e) \in Felts /\ Same(FeltPow(a, e), Raised(a, e), MODULUS)
<1> DEFINE Step(f, k) == IF k = 0 THEN 1
                         ELSE IF k % 2 = 1 THEN FeltMul(FeltMul(f[k \div 2], f[k \div 2]), a)
                              ELSE FeltMul(f[k \div 2], f[k \div 2])
           g == [k \in Nat |-> Raised(a, k) % MODULUS]
           s == CHOOSE s : s = [k \in Nat |-> Step(s, k)]
           Right(r, k) == r \in Felts /\ Same(r, Raised(a, k), MODULUS)
<1>1. a \in Int /\ MODULUS \in Nat /\ Raised(a, 0) = 1 /\ 1 \in Felts /\ Same(1, 1, MODULUS)
  BY FeltSelf, FeltFacts, RaisedStep
<1>2. ASSUME NEW f, NEW k \in Nat, k = 0 \/ Right(f[k \div 2], k \div 2)
      PROVE  Right(Step(f, k), k)
  <2>1. CASE k = 0
    BY <1>1, <2>1
  <2>2. CASE k # 0
    <3>1. PICK r \in Felts : r = f[k \div 2] /\ Same(r, Raised(a, k \div 2), MODULUS)
      BY <1>2, <2>2
    <3>2. PICK q, p : q = FeltMul(r, r) /\ p = (IF k % 2 = 1 THEN FeltMul(q, a) ELSE q)
      OBVIOUS
    <3>3. p \in Felts /\ Same(p, Raised(a, k), MODULUS)
      BY <2>2, <3>1, <3>2, FeltPowBit
    <3>4. Step(f, k) = p
      BY <2>2, <3>1, <3>2
    <3> HIDE DEF Step
    <3> QED BY <3>3, <3>4
  <2> QED BY <2>1, <2>2
<1>3. ASSUME NEW k \in Nat PROVE Right(g[k], k)
  <2>1. PICK p \in Int : p = Raised(a, k)
    BY <1>1, RaisedStep
  <2>2. g[k] = p % MODULUS
    BY <2>1
  <2> QED BY <2>1, <2>2, FeltOfResidue
<1>4. ASSUME NEW k \in Nat PROVE g[k] = Step(g, k)
  <2>1. Right(Step(g, k), k) /\ Right(g[k], k)
    <3>1. k \div 2 \in Nat
      OBVIOUS
    <3> HIDE DEF Step, g, Right
    <3> QED BY <1>2, <1>3, <3>1
  <2>2. PICK p \in Int : p = Raised(a, k)
    BY <1>1, RaisedStep
  <2>3. PICK u, v : u = Step(g, k) /\ v = g[k]
    OBVIOUS
  <2>4. u \in Felts /\ v \in Felts /\ Same(u, p, MODULUS) /\ Same(v, p, MODULUS)
    <3> HIDE DEF Step, g
    <3> QED BY <2>1, <2>2, <2>3
  <2>5. u \in Int /\ v \in Int
    BY <2>4, FeltFacts
  <2>6. Same(v, u, MODULUS)
    BY <1>1, <2>4, <2>5, SameChain
  <2>7. v = u
    BY <2>4, <2>6, FeltIs
  <2> QED BY <2>3, <2>7
<1>5. g = [k \in Nat |-> Step(g, k)]
  <2>1. g = [k \in Nat |-> g[k]]
    OBVIOUS
  <2> HIDE DEF Step, g
  <2> QED BY <1>4, <2>1
<1>6. s = [k \in Nat |-> Step(s, k)]
  <2> HIDE DEF Step, g
  <2> QED BY <1>5
<1>7. FeltPow(a, e) = s[e]
  BY DEF FeltPow
<1> HIDE DEF g, s
<1>8. \A k \in Nat : s[k] = Step(s, k)
  <2> HIDE DEF Step
  <2> QED BY <1>6
<1> DEFINE Q == {n \in Nat : \A k \in 0..n : Right(s[k], k)}
<1>9. 0 \in Q
  <2>1. s[0] = 1
    BY <1>8
  <2>2. \A k \in 0..0 : k = 0
    OBVIOUS
  <2> QED BY <1>1, <2>1, <2>2
<1>10. ASSUME NEW n \in Q PROVE n + 1 \in Q
  <2>1. n \in Nat /\ \A k \in 0..n : Right(s[k], k)
    <3> HIDE DEF Right
    <3> QED OBVIOUS
  <2>2. ASSUME NEW k \in 0..(n + 1) PROVE Right(s[k], k)
    <3>1. k \in Nat /\ (k = 0 \/ k \div 2 \in 0..n)
      BY <2>1
    <3>2. s[k] = Step(s, k)
      BY <1>8, <3>1
    <3>3. k = 0 \/ Right(s[k \div 2], k \div 2)
      <4> HIDE DEF Right
      <4> QED BY <2>1, <3>1
    <3>4. Right(Step(s, k), k)
      <4> HIDE DEF Right, Step
      <4> QED BY <1>2, <3>1, <3>3
    <3> HIDE DEF Right, Step
    <3> QED BY <3>2, <3>4
  <2> HIDE DEF Right
  <2> QED BY <2>1, <2>2
<1>11. Q = Nat
  <2>1. Q \in SUBSET Nat
    OBVIOUS
  <2> HIDE DEF Q
  <2> QED BY <1>9, <1>10, <2>1, Inductive
<1>12. Right(s[e], e)
  <2>1. e \in Q /\ e \in 0..e
    <3> HIDE DEF Q
    <3> QED BY <1>11
  <2> HIDE DEF Right
  <2> QED BY <2>1
<1> QED BY <1>7, <1>12

(* Every element but zero has an inverse.                                   *)
LEMMA FeltInvIs ==
  ASSUME NEW a \in Felts, a # 0
  PROVE  FeltInv[a] \in Felts /\ Same(a * FeltInv[a], 1, MODULUS)
<1>1. a \in Int /\ MODULUS \in Nat /\ MODULUS > 2 /\ a \in 1..(MODULUS - 1) /\ 1 \in Int
  BY FeltFacts DEF Felts
<1>2. PICK d \in Nat : d = MODULUS - 2 /\ d + 1 = MODULUS - 1 /\ d + 1 \in Nat
  BY <1>1
<1>3. PICK c : c = FeltInv[a]
  OBVIOUS
<1>4. c = FeltPow(a, d)
  BY <1>2, <1>3 DEF FeltInv
<1>5. PICK q \in Int, p \in Int : q = Raised(a, d) /\ p = Raised(a, d + 1) /\ p = q * a
  BY <1>1, <1>2, RaisedStep
<1>6. c \in Felts /\ Same(c, q, MODULUS) /\ c \in Int
  BY <1>4, <1>5, FeltPowIs, FeltFacts
<1>7. Same(1, p, MODULUS)
  <2>1. FeltPow(a, d + 1) = 1
    BY <1>1, <1>2, FeltAssumption
  <2>2. Same(FeltPow(a, d + 1), Raised(a, d + 1), MODULUS)
    BY <1>2, FeltPowIs
  <2> QED BY <1>5, <2>1, <2>2
<1>8. Same(a * c, a * q, MODULUS) /\ a * c \in Int /\ a * q = p
  <2>1. Same(a * c, a * q, MODULUS)
    BY <1>1, <1>5, <1>6, SameTimes
  <2>2. a * c \in Int /\ a * q = q * a
    BY <1>1, <1>5, <1>6
  <2> QED BY <1>5, <2>1, <2>2
<1>9. Same(a * c, 1, MODULUS)
  BY <1>1, <1>5, <1>7, <1>8, SameChain
<1> QED BY <1>3, <1>6, <1>9

(* It can be cancelled.                                                     *)
LEMMA FeltCancel ==
  ASSUME NEW a \in Felts, a # 0, NEW u \in Int, NEW v \in Int, Same(a * u, a * v, MODULUS)
  PROVE  Same(u, v, MODULUS)
<1>1. a \in Int /\ MODULUS \in Nat
  BY FeltFacts
<1>2. PICK c \in Int : Same(a * c, 1, MODULUS)
  BY FeltInvIs, FeltFacts
<1>3. PICK au \in Int, av \in Int, ac \in Int, cau \in Int, cav \in Int, acu \in Int, acv \in Int :
         /\ au = a * u /\ av = a * v /\ ac = a * c
         /\ cau = c * au /\ cav = c * av /\ acu = ac * u /\ acv = ac * v
  BY <1>1
<1>4. cau = acu /\ cav = acv
  <2>1. c * (a * u) = (a * c) * u /\ c * (a * v) = (a * c) * v
    BY <1>1, Z3
  <2> QED BY <1>3, <2>1
<1>5. Same(cau, cav, MODULUS)
  BY <1>1, <1>3, SameTimes
<1>6. Same(acu, u, MODULUS) /\ Same(acv, v, MODULUS)
  <2>1. Same(ac * u, 1 * u, MODULUS) /\ Same(ac * v, 1 * v, MODULUS)
    <3>1. Same(ac, 1, MODULUS) /\ ac \in Int /\ 1 \in Int
      BY <1>2, <1>3
    <3> QED BY <1>1, <3>1, SameTimes
  <2> QED BY <1>3, <2>1
<1>7. Same(u, acu, MODULUS)
  BY <1>1, <1>6, SameChain
<1>8. Same(u, cav, MODULUS)
  BY <1>1, <1>4, <1>5, <1>7, SameChain
<1> QED BY <1>1, <1>4, <1>6, <1>8, SameChain

(* A product is zero only with a factor.                                    *)
LEMMA FeltNoZeroProduct ==
  ASSUME NEW a \in Felts, a # 0, NEW u \in Int, Same(a * u, 0, MODULUS)
  PROVE  Same(u, 0, MODULUS)
<1>1. a * 0 = 0 /\ 0 \in Int
  BY FeltFacts
<1>2. Same(a * u, a * 0, MODULUS)
  BY <1>1
<1> QED BY <1>1, <1>2, FeltCancel

(* Powers of what is not zero are not zero.                                 *)
LEMMA FeltPowNotZero ==
  ASSUME NEW a \in Felts, a # 0, NEW e \in Nat
  PROVE  FeltPow(a, e) # 0 /\ ~Same(Raised(a, e), 0, MODULUS)
<1>1. a \in Int /\ MODULUS \in Nat /\ MODULUS > 2
  BY FeltFacts
<1> DEFINE Q == {k \in Nat : ~Same(Raised(a, k), 0, MODULUS)}
<1>2. 0 \in Q
  <2>1. Raised(a, 0) = 1
    BY <1>1, RaisedStep
  <2>2. Same(1, 0, MODULUS) => 1 = 0
    BY FeltFacts, FeltIs
  <2> QED BY <2>1, <2>2
<1>3. ASSUME NEW k \in Q PROVE k + 1 \in Q
  <2>1. k \in Nat /\ k + 1 \in Nat
    OBVIOUS
  <2>2. PICK q \in Int : q = Raised(a, k) /\ Raised(a, k + 1) = q * a /\ q * a = a * q
    BY <1>1, <2>1, RaisedStep
  <2>3. ~Same(q, 0, MODULUS)
    BY <2>2
  <2>4. ~Same(a * q, 0, MODULUS)
    BY <2>3, FeltNoZeroProduct
  <2> QED BY <2>1, <2>2, <2>4
<1>4. Q = Nat
  <2>1. Q \in SUBSET Nat
    OBVIOUS
  <2> HIDE DEF Q
  <2> QED BY <1>2, <1>3, <2>1, Inductive
<1>5. ~Same(Raised(a, e), 0, MODULUS)
  BY <1>4
<1>6. FeltPow(a, e) # 0
  <2>1. PICK q \in Int, c \in Int : q = Raised(a, e) /\ c = FeltPow(a, e) /\ Same(c, q, MODULUS)
    BY <1>1, RaisedStep, FeltPowIs, FeltFacts
  <2>2. Same(q, c, MODULUS)
    BY <1>1, <2>1, SameChain
  <2> QED BY <1>5, <2>1, <2>2
<1> QED BY <1>5, <1>6

-----------------------------------------------------------------------------
(* The points of the evaluation domains.                                    *)

(* The sizes of the layers are a function.                                  *)
LEMMA OneShlUnfolds ==
  OneShl = [k \in 0..FRI_MAX_LOG |-> IF k = 0 THEN 1 ELSE 2 * OneShl[k - 1]]
<1> DEFINE Step(f, k) == IF k = 0 THEN 1 ELSE 2 * f[k - 1]
           G == [k \in 1..FRI_MAX_LOG |-> [u \in Nat |-> 2 * u]]
<1>1. FRI_MAX_LOG \in Nat /\ 1 \in Nat
  BY RootAssumption
<1>2. G \in [1..FRI_MAX_LOG -> [Nat -> Nat]]
  OBVIOUS
<1>3. PICK f0 : Recurs(f0, Nat, 1, FRI_MAX_LOG, G)
  <2> HIDE DEF G
  <2> QED BY <1>1, <1>2, Recursion
<1>4. f0 \in [0..FRI_MAX_LOG -> Nat] /\ f0[0] = 1
      /\ \A k \in 1..FRI_MAX_LOG : f0[k] = G[k][f0[k - 1]]
  <2> HIDE DEF G
  <2> QED BY <1>3 DEF Recurs
<1>5. ASSUME NEW k \in 0..FRI_MAX_LOG PROVE f0[k] = Step(f0, k)
  <2>1. k # 0 => k - 1 \in 0..FRI_MAX_LOG /\ k \in 1..FRI_MAX_LOG
    BY <1>1
  <2>2. k # 0 => f0[k - 1] \in Nat /\ G[k] = [u \in Nat |-> 2 * u]
    BY <1>4, <2>1
  <2> QED BY <1>4, <2>1, <2>2
<1>6. f0 = [k \in 0..FRI_MAX_LOG |-> Step(f0, k)]
  <2> HIDE DEF Step, G
  <2>1. f0 = [k \in 0..FRI_MAX_LOG |-> f0[k]]
    BY <1>4
  <2> QED BY <1>5, <2>1
<1> DEFINE s == CHOOSE s : s = [k \in 0..FRI_MAX_LOG |-> Step(s, k)]
<1>7. s = [k \in 0..FRI_MAX_LOG |-> Step(s, k)]
  <2> HIDE DEF Step, G
  <2> QED BY <1>6
<1>8. OneShl = s
  BY DEF OneShl
<1> HIDE DEF s, G
<1> QED BY <1>7, <1>8

(* Every size is twice the one below it.                                    *)
LEMMA OneShlFacts ==
  /\ FRI_MAX_LOG \in Nat /\ FRI_MAX_LOG > 0
  /\ OneShl[0] = 1
  /\ \A k \in 0..FRI_MAX_LOG : OneShl[k] \in Nat /\ OneShl[k] > 0
  /\ \A k \in 1..FRI_MAX_LOG : OneShl[k] = 2 * OneShl[k - 1]
<1>0. FRI_MAX_LOG \in Nat /\ FRI_MAX_LOG > 0
  BY RootAssumption
<1>1. OneShl[0] = 1 /\ \A k \in 1..FRI_MAX_LOG : OneShl[k] = 2 * OneShl[k - 1]
  <2>1. \A k \in 0..FRI_MAX_LOG : OneShl[k] = IF k = 0 THEN 1 ELSE 2 * OneShl[k - 1]
    BY OneShlUnfolds
  <2> QED BY <1>0, <2>1
<1> DEFINE Q == {n \in Nat : n <= FRI_MAX_LOG => OneShl[n] \in Nat /\ OneShl[n] > 0}
<1>2. 0 \in Q
  BY <1>1
<1>3. ASSUME NEW n \in Q PROVE n + 1 \in Q
  <2>1. CASE n + 1 <= FRI_MAX_LOG
    <3>1. OneShl[n] \in Nat /\ OneShl[n] > 0 /\ OneShl[n + 1] = 2 * OneShl[(n + 1) - 1]
      BY <1>0, <1>1, <2>1
    <3>2. (n + 1) - 1 = n
      OBVIOUS
    <3> QED BY <3>1, <3>2
  <2> QED BY <2>1
<1>4. Q = Nat
  <2>1. Q \in SUBSET Nat
    OBVIOUS
  <2> HIDE DEF Q
  <2> QED BY <1>2, <1>3, <2>1, Inductive
<1> QED BY <1>0, <1>1, <1>4

(* What the exponent of a layer and half its size multiply to.              *)
LEMMA OneShlProduct ==
  ASSUME NEW l \in 1..FRI_MAX_LOG
  PROVE  OneShl[FRI_MAX_LOG - l] * OneShl[l - 1] = OneShl[FRI_MAX_LOG - 1]
<1> DEFINE Q == {n \in Nat : n + 1 <= FRI_MAX_LOG =>
                   OneShl[FRI_MAX_LOG - (n + 1)] * OneShl[n] = OneShl[FRI_MAX_LOG - 1]}
<1>0. FRI_MAX_LOG \in Nat /\ FRI_MAX_LOG > 0 /\ OneShl[FRI_MAX_LOG - 1] \in Nat
  BY OneShlFacts
<1>1. 0 \in Q
  <2>1. 0 + 1 = 1 /\ OneShl[0] = 1 /\ \A p \in Nat : p * 1 = p
    BY OneShlFacts
  <2> QED BY <1>0, <2>1
<1>2. ASSUME NEW n \in Q PROVE n + 1 \in Q
  <2>1. CASE (n + 1) + 1 <= FRI_MAX_LOG
    <3>1. PICK j \in 1..FRI_MAX_LOG :
             j = FRI_MAX_LOG - (n + 1) /\ j - 1 = FRI_MAX_LOG - ((n + 1) + 1)
      BY <1>0, <2>1
    <3>2. n + 1 \in 1..FRI_MAX_LOG /\ (n + 1) - 1 = n /\ n \in 0..FRI_MAX_LOG
          /\ j - 1 \in 0..FRI_MAX_LOG
      BY <1>0, <2>1, <3>1
    <3>3. PICK p \in Nat, q \in Nat : p = OneShl[j - 1] /\ q = OneShl[n]
      BY <3>2, OneShlFacts
    <3>4. OneShl[j] = 2 * p /\ OneShl[n + 1] = 2 * q
      BY <3>1, <3>2, <3>3, OneShlFacts
    <3>5. (2 * p) * q = p * (2 * q)
      BY Z3
    <3>6. OneShl[j] * OneShl[n] = OneShl[FRI_MAX_LOG - 1]
      <4>1. n + 1 <= FRI_MAX_LOG
        BY <1>0, <2>1
      <4> QED BY <3>1, <4>1
    <3>7. OneShl[j - 1] * OneShl[n + 1] = OneShl[FRI_MAX_LOG - 1]
      BY <3>3, <3>4, <3>5, <3>6
    <3> QED BY <3>1, <3>7
  <2> QED BY <2>1
<1>3. Q = Nat
  <2>1. Q \in SUBSET Nat
    OBVIOUS
  <2> HIDE DEF Q
  <2> QED BY <1>1, <1>2, <2>1, Inductive
<1>4. PICK n \in Nat : n = l - 1 /\ n + 1 = l /\ n + 1 <= FRI_MAX_LOG
  BY <1>0
<1>5. n \in Q
  <2> HIDE DEF Q
  <2> QED BY <1>3
<1> QED BY <1>4, <1>5

(* A product of what is not zero is not zero.                               *)
LEMMA FeltMulNotZero ==
  ASSUME NEW a \in Felts, NEW b \in Felts, a # 0, b # 0
  PROVE  FeltMul(a, b) # 0
<1>1. a \in Int /\ b \in Int /\ Same(a, a, MODULUS) /\ Same(b, b, MODULUS) /\ MODULUS \in Nat
  BY FeltSelf, FeltFacts
<1>2. PICK p \in Int, q \in Int : p = FeltMul(a, b) /\ q = a * b /\ Same(p, q, MODULUS)
  <2>1. FeltMul(a, b) \in Felts /\ Same(FeltMul(a, b), a * b, MODULUS)
    BY <1>1, FeltMulOf
  <2>2. FeltMul(a, b) \in Int /\ a * b \in Int
    <3>1. \A r \in Felts : r \in Int
      BY FeltFacts
    <3>2. FeltMul(a, b) \in Int
      BY <2>1, <3>1
    <3>3. a * b \in Int
      BY <1>1
    <3> QED BY <3>2, <3>3
  <2> QED BY <2>1, <2>2
<1>3. ASSUME p = 0 PROVE FALSE
  <2>1. Same(q, 0, MODULUS)
    BY <1>1, <1>2, <1>3, SameChain
  <2>2. Same(b, 0, MODULUS)
    BY <1>1, <1>2, <2>1, FeltNoZeroProduct
  <2> QED BY <2>2, FeltFacts, FeltIs
<1> QED BY <1>2, <1>3

(* A point is a power of the offset times a power of the root.              *)
LEMMA DomainPointIs ==
  ASSUME NEW l \in 0..FRI_MAX_LOG, NEW m \in Nat, NEW s, s = OneShl[FRI_MAX_LOG - l]
  PROVE  /\ DomainPoint(l, m) \in Felts /\ DomainPoint(l, m) # 0
         /\ s \in Nat /\ s * m \in Nat
         /\ Same(DomainPoint(l, m), Raised(COSSET_OFFSET, s) * Raised(ROOT_OF_UNITY, s * m),
                 MODULUS)
<1>1. s \in Nat /\ s * m \in Nat
  BY OneShlFacts
<1>2. PICK c \in Felts, w \in Felts :
         c = COSSET_OFFSET /\ w = ROOT_OF_UNITY /\ c # 0 /\ w # 0 /\ c \in Int /\ w \in Int
  BY RootAssumption DEF Felts
<1>3. PICK f \in Felts, r \in Felts : f = LayerOffset(l) /\ r = LayerRoot(l) /\ f # 0 /\ r # 0
                                      /\ f \in Int /\ r \in Int
  <2>1. FeltPow(c, s) \in Felts /\ FeltPow(w, s) \in Felts
    BY <1>1, <1>2, FeltPowIs
  <2>2. FeltPow(c, s) # 0 /\ FeltPow(w, s) # 0
    BY <1>1, <1>2, FeltPowNotZero
  <2>3. LayerOffset(l) = FeltPow(c, s) /\ LayerRoot(l) = FeltPow(w, s)
    BY <1>2 DEF LayerOffset, LayerRoot
  <2> QED BY <2>1, <2>2, <2>3, FeltFacts
<1>4. PICK cs \in Int, ws \in Int : /\ cs = Raised(c, s) /\ ws = Raised(w, s)
                                    /\ Same(f, cs, MODULUS) /\ Same(r, ws, MODULUS)
  BY <1>1, <1>2, <1>3, FeltPowIs, RaisedStep DEF LayerOffset, LayerRoot
<1>5. PICK g \in Felts : g = FeltPow(r, m) /\ g # 0 /\ g \in Int
  BY <1>3, FeltPowIs, FeltPowNotZero, FeltFacts
<1>6. PICK rm \in Int, wm \in Int : rm = Raised(r, m) /\ wm = Raised(ws, m) /\ wm = Raised(w, s * m)
  <2>1. Raised(r, m) \in Int /\ Raised(ws, m) \in Int
    BY <1>3, RaisedStep
  <2>2. Raised(Raised(w, s), m) = Raised(w, s * m)
    BY <1>1, <1>2, RaisedTwice
  <2> QED BY <1>4, <2>1, <2>2
<1>7. Same(g, rm, MODULUS) /\ Same(rm, wm, MODULUS) /\ MODULUS \in Nat
  <2>1. MODULUS \in Nat
    BY FeltFacts
  <2>2. Same(g, rm, MODULUS)
    BY <1>3, <1>5, <1>6, FeltPowIs
  <2>3. Same(Raised(r, m), Raised(ws, m), MODULUS)
    BY <1>3, <1>4, <2>1, RaisedOfSame
  <2> QED BY <1>6, <2>1, <2>2, <2>3
<1>8. Same(g, wm, MODULUS)
  BY <1>5, <1>6, <1>7, SameChain
<1>9. FeltMul(f, g) \in Felts /\ FeltMul(f, g) # 0 /\ Same(FeltMul(f, g), cs * wm, MODULUS)
  BY <1>3, <1>4, <1>5, <1>6, <1>8, FeltMulOf, FeltMulNotZero
<1>10. DomainPoint(l, m) = FeltMul(f, g)
  BY <1>3, <1>5 DEF DomainPoint
<1> QED BY <1>1, <1>2, <1>4, <1>6, <1>9, <1>10

(* Half a layer further is the opposite point.                              *)
LEMMA OppositePoint ==
  ASSUME NEW l \in 1..FRI_MAX_LOG, NEW m \in Nat
  PROVE  DomainPoint(l, m + OneShl[l - 1]) = FeltNeg(DomainPoint(l, m))
<1>1. l \in 0..FRI_MAX_LOG /\ l - 1 \in 0..FRI_MAX_LOG /\ MODULUS \in Nat
  BY OneShlFacts, FeltFacts
<1>2. PICK s \in Nat, half \in Nat, top \in Nat :
         s = OneShl[FRI_MAX_LOG - l] /\ half = OneShl[l - 1] /\ top = OneShl[FRI_MAX_LOG - 1]
  BY <1>1, OneShlFacts
<1>3. s * half = top
  BY <1>2, OneShlProduct
<1>4. PICK n \in Nat, sm \in Nat : n = m + half /\ sm = s * m
  OBVIOUS
<1>5. s * n = sm + top
  <2>1. s * (m + half) = s * m + s * half
    OBVIOUS
  <2> QED BY <1>3, <1>4, <2>1
<1>6. PICK c \in Int, w \in Int : c = COSSET_OFFSET /\ w = ROOT_OF_UNITY
  BY RootAssumption, FeltAssumption
<1>7. PICK cs \in Int, wm \in Int, wt \in Int, wn \in Int :
         cs = Raised(c, s) /\ wm = Raised(w, sm) /\ wt = Raised(w, top) /\ wn = Raised(w, sm + top)
  <2>1. \A e \in Nat : Raised(c, e) \in Int /\ Raised(w, e) \in Int
    BY <1>6, RaisedStep
  <2>2. sm + top \in Nat
    OBVIOUS
  <2> QED BY <2>1, <2>2
<1>8. wn = wm * wt
  BY <1>4, <1>6, <1>7, RaisedSum
<1>9. Same(wt, -1, MODULUS)
  <2>1. w \in Felts /\ FeltPow(w, top) = MODULUS - 1
    BY <1>2, <1>6, RootAssumption DEF Felts
  <2>2. Same(MODULUS - 1, wt, MODULUS)
    BY <1>7, <2>1, FeltPowIs
  <2>3. MODULUS - 1 = -1 + MODULUS * 1 /\ MODULUS - 1 \in Int /\ -1 \in Int
    BY <1>1
  <2>4. Same(MODULUS - 1, -1, MODULUS)
    BY <2>3 DEF Same
  <2>5. Same(wt, MODULUS - 1, MODULUS)
    BY <1>1, <2>2, <2>3, SameChain
  <2> QED BY <1>1, <2>3, <2>4, <2>5, SameChain
<1>10. PICK p \in Felts, q \in Felts : p = DomainPoint(l, m) /\ q = DomainPoint(l, n)
  BY <1>1, <1>2, <1>4, DomainPointIs
<1>11. p \in Int /\ q \in Int /\ FeltNeg(p) \in Felts /\ FeltNeg(p) \in Int
       /\ Same(FeltNeg(p), 0 - p, MODULUS)
  BY FeltNegIs, FeltFacts
<1>12. Same(p, cs * wm, MODULUS)
  BY <1>1, <1>2, <1>4, <1>6, <1>7, <1>10, DomainPointIs
<1>13. Same(q, cs * wn, MODULUS)
  BY <1>1, <1>2, <1>5, <1>6, <1>7, <1>10, DomainPointIs
<1>14. PICK cw \in Int, u \in Int : cw = cs * wm /\ u = cs * wn /\ u = cw * wt
  <2>1. cs * (wm * wt) = (cs * wm) * wt
    BY Z3
  <2> QED BY <1>8, <2>1
<1>15. Same(u, cw * (-1), MODULUS) /\ cw * (-1) = 0 - cw /\ 0 - cw \in Int /\ 0 - p \in Int
  <2>1. Same(cw * wt, cw * (-1), MODULUS)
    <3>1. PICK neg \in Int : neg = -1
      OBVIOUS
    <3>2. Same(wt, neg, MODULUS)
      BY <1>9, <3>1
    <3>3. Same(cw * wt, cw * neg, MODULUS)
      BY <1>1, <3>2, SameTimes
    <3> QED BY <3>1, <3>3
  <2> QED BY <1>11, <1>14, <2>1
<1>16. Same(p, cw, MODULUS)
  BY <1>12, <1>14
<1>17. Same(0 - cw, 0 - p, MODULUS)
  <2>1. Same(p * (-1), cw * (-1), MODULUS)
    <3>1. PICK neg \in Int : neg = -1
      OBVIOUS
    <3>2. Same(p * neg, cw * neg, MODULUS)
      BY <1>1, <1>11, <1>16, SameTimes
    <3> QED BY <3>1, <3>2
  <2>2. p * (-1) = 0 - p
    BY <1>11
  <2> QED BY <1>1, <1>15, <2>1, <2>2, SameChain
<1>18. Same(q, 0 - p, MODULUS)
  BY <1>1, <1>11, <1>13, <1>14, <1>15, <1>17, SameChain
<1>19. Same(q, FeltNeg(p), MODULUS)
  BY <1>1, <1>11, <1>15, <1>18, SameChain
<1>20. q = FeltNeg(p)
  BY <1>11, <1>19, FeltIs
<1> QED BY <1>2, <1>4, <1>10, <1>20

(* The squares are the points of the next layer.                            *)
LEMMA SquaredPoint ==
  ASSUME NEW l \in 1..FRI_MAX_LOG, NEW m \in Nat
  PROVE  /\ DomainPoint(l - 1, m) = FeltPow(DomainPoint(l, m), 2)
         /\ DomainPoint(l - 1, m) \in Felts /\ DomainPoint(l, m) \in Felts
         /\ Same(DomainPoint(l - 1, m), DomainPoint(l, m) * DomainPoint(l, m), MODULUS)
<1>1. l \in 0..FRI_MAX_LOG /\ l - 1 \in 0..FRI_MAX_LOG /\ MODULUS \in Nat /\ FRI_MAX_LOG \in Nat
  BY OneShlFacts, FeltFacts
<1>2. PICK s \in Nat, ss \in Nat : s = OneShl[FRI_MAX_LOG - l] /\ ss = OneShl[FRI_MAX_LOG - (l - 1)]
                                   /\ ss = 2 * s /\ ss = s + s
  <2>1. PICK j \in 1..FRI_MAX_LOG : j = FRI_MAX_LOG - (l - 1) /\ j - 1 = FRI_MAX_LOG - l
    BY <1>1
  <2>2. j \in 0..FRI_MAX_LOG /\ j - 1 \in 0..FRI_MAX_LOG
    BY <1>1, <2>1
  <2> QED BY <2>1, <2>2, OneShlFacts
<1>3. PICK sm \in Nat : sm = s * m /\ ss * m = sm + sm
  <2>1. (s + s) * m = s * m + s * m /\ s * m \in Nat
    OBVIOUS
  <2> QED BY <1>2, <2>1
<1>4. PICK c \in Int, w \in Int : c = COSSET_OFFSET /\ w = ROOT_OF_UNITY
  BY RootAssumption, FeltAssumption
<1>5. PICK cs \in Int, wm \in Int : cs = Raised(c, s) /\ wm = Raised(w, sm)
  BY <1>4, RaisedStep
<1>6. Raised(c, ss) = cs * cs /\ Raised(w, ss * m) = wm * wm
  <2>1. Raised(c, s + s) = Raised(c, s) * Raised(c, s)
    BY <1>4, RaisedSum
  <2>2. Raised(w, sm + sm) = Raised(w, sm) * Raised(w, sm)
    BY <1>4, RaisedSum
  <2>3. Raised(c, ss) = cs * cs
    BY <1>2, <1>5, <2>1
  <2>4. Raised(w, ss * m) = wm * wm
    BY <1>3, <1>5, <2>2
  <2> QED BY <2>3, <2>4
<1>7. PICK p \in Felts, q \in Felts : p = DomainPoint(l, m) /\ q = DomainPoint(l - 1, m)
                                      /\ p \in Int /\ q \in Int
  BY <1>1, DomainPointIs, FeltFacts
<1>8. Same(p, cs * wm, MODULUS)
  BY <1>1, <1>2, <1>3, <1>4, <1>5, <1>7, DomainPointIs
<1>9. Same(q, (cs * cs) * (wm * wm), MODULUS)
  BY <1>1, <1>2, <1>4, <1>6, <1>7, DomainPointIs
<1>10. PICK cw \in Int, u \in Int, pp \in Int : cw = cs * wm /\ u = cw * cw /\ pp = p * p
  BY <1>7
<1>11. (cs * cs) * (wm * wm) = u
  <2>1. (cs * cs) * (wm * wm) = (cs * wm) * (cs * wm)
    BY Z3
  <2> QED BY <1>10, <2>1
<1>12. Same(pp, u, MODULUS)
  BY <1>1, <1>7, <1>8, <1>10, SameProduct
<1>13. Same(q, pp, MODULUS)
  BY <1>1, <1>7, <1>9, <1>10, <1>11, <1>12, SameChain
<1>14. PICK r \in Felts : r = FeltPow(p, 2) /\ Same(r, pp, MODULUS) /\ r \in Int
  <2>1. Raised(p, 0) = 1 /\ Raised(p, 1) = 1 * p /\ Raised(p, 2) = Raised(p, 1) * p
    <3>1. 0 \in Nat /\ 1 \in Nat /\ 0 + 1 = 1 /\ 1 + 1 = 2
      OBVIOUS
    <3>2. \A e \in Nat : Raised(p, e + 1) = Raised(p, e) * p
      BY <1>7, RaisedStep
    <3>3. Raised(p, 0) = 1
      BY <1>7, RaisedStep
    <3>4. Raised(p, 0 + 1) = Raised(p, 0) * p /\ Raised(p, 1 + 1) = Raised(p, 1) * p
      BY <3>1, <3>2
    <3> QED BY <3>1, <3>3, <3>4
  <2>2. 1 * p = p
    BY <1>7
  <2>3. Raised(p, 2) = pp
    BY <1>10, <2>1, <2>2
  <2>4. 2 \in Nat
    OBVIOUS
  <2> QED BY <2>3, <2>4, FeltPowIs, FeltFacts
<1>15. Same(q, r, MODULUS)
  BY <1>1, <1>7, <1>10, <1>13, <1>14, SameChain
<1>16. q = r
  BY <1>15, FeltIs
<1> QED BY <1>7, <1>10, <1>13, <1>14, <1>16
=============================================================================
