-------------------------- MODULE PermutationProofs --------------------------
(***************************************************************************)
(* That no permutation maps two states to one image, for every prime above *)
(* seven with an inverse of five in the exponent, all round constants and  *)
(* keys and any numbers of rounds; and that the exponent Rescue-Prime      *)
(* searches for is found within its bound, is the smallest one and has the *)
(* inverse that mod_inv computes.                                          *)
(*                                                                         *)
(* Every layer is undone.  A power is undone by an exponent that gives one *)
(* with it, modulo the prime minus one; I + 2J by I - 2J/7; the Cauchy     *)
(* matrix by its cofactors over a determinant that is not zero, as 2160    *)
(* times it is one.  The exponents come from Euclid's algorithm: the loop  *)
(* of gcd keeps the common divisors, and that of mod_inv the congruences   *)
(* between coefficients and remainders.  Loops are shown by induction over *)
(* their turns (lemma Recursion of ArithmeticProofs).                      *)
(***************************************************************************)
EXTENDS ArithmeticProofs, Permutations

-----------------------------------------------------------------------------
(* Greatest common divisors.                                                *)

Pairs == [a : Nat, b : Nat]
Common(d, s) == Same(s.a, 0, d) /\ Same(s.b, 0, d)

(* What divides a divisor divides a number if and only if it divides the    *)
(* remainder.                                                               *)
LEMMA DividesRemainder ==
  ASSUME NEW a \in Nat, NEW b \in Nat, b > 0, NEW d \in Nat, Same(b, 0, d)
  PROVE  Same(a, 0, d) <=> Same(a % b, 0, d)
<1>1. PICK q \in Int, r \in Int : a = b * q + r /\ r = a % b
  <2>1. a \in Int
    OBVIOUS
  <2>2. PICK u \in Int, w \in Int : u = a \div b /\ w = a % b
    BY <2>1, DivMod
  <2>3. a = b * u + w
    BY <2>1, <2>2, DivMod
  <2> QED BY <2>2, <2>3
<1>2. PICK p \in Int : p = b * q
  OBVIOUS
<1>6. a = p + r
  BY <1>1, <1>2
<1>3. Same(p, 0, d)
  <2>1. PICK k \in Int : b = 0 + d * k
    BY DEF Same
  <2>2. (d * k) * q = d * (k * q) /\ k * q \in Int
    BY Z3
  <2>3. p = 0 + d * (k * q)
    BY <1>2, <2>1, <2>2
  <2> QED BY <2>2, <2>3 DEF Same
<1>4. ASSUME Same(a, 0, d) PROVE Same(r, 0, d)
  <2>1. PICK k \in Int, l \in Int : a = 0 + d * k /\ p = 0 + d * l
    BY <1>3, <1>4 DEF Same
  <2>2. d * (k - l) = d * k - d * l
    BY Z3
  <2>4. r = 0 + d * (k - l)
    BY <1>6, <2>1, <2>2
  <2>3. k - l \in Int
    OBVIOUS
  <2> QED BY <2>3, <2>4 DEF Same
<1>5. ASSUME Same(r, 0, d) PROVE Same(a, 0, d)
  <2>1. PICK k \in Int, l \in Int : r = 0 + d * k /\ p = 0 + d * l
    BY <1>3, <1>5 DEF Same
  <2>2. d * (k + l) = d * k + d * l
    BY Z3
  <2>4. a = 0 + d * (k + l)
    BY <1>6, <2>1, <2>2
  <2>3. k + l \in Int
    OBVIOUS
  <2> QED BY <2>3, <2>4 DEF Same
<1> QED BY <1>1, <1>4, <1>5

(* A turn keeps the common divisors and makes the second number smaller.    *)
LEMMA EuclidStepIs ==
  ASSUME NEW s \in Pairs
  PROVE  /\ EuclidStep(s) \in Pairs
         /\ s.a > 0 => EuclidStep(s).a > 0
         /\ EuclidStep(s).b = 0 \/ EuclidStep(s).b < s.b
         /\ \A d \in Nat : Common(d, EuclidStep(s)) <=> Common(d, s)
<1>1. PICK a \in Nat, b \in Nat : a = s.a /\ b = s.b
  BY DEF Pairs
<1>2. CASE b = 0
  BY <1>1, <1>2 DEF EuclidStep
<1>3. CASE b # 0
  <2>1. PICK r : r = a % b
    OBVIOUS
  <2>2. r \in Nat /\ r < b
    BY <1>3, <2>1, DivMod
  <2>3. EuclidStep(s) = [a |-> b, b |-> r]
    BY <1>1, <1>3, <2>1 DEF EuclidStep
  <2>4. ASSUME NEW d \in Nat PROVE Common(d, [a |-> b, b |-> r]) <=> Common(d, s)
    <3>1. Same(b, 0, d) => (Same(a, 0, d) <=> Same(r, 0, d))
      BY <1>3, <2>1, DividesRemainder
    <3> QED BY <1>1, <3>1 DEF Common
  <2> QED BY <1>1, <1>3, <2>2, <2>3, <2>4 DEF Pairs
<1> QED BY <1>2, <1>3

(* The divisors of what gcd returns are the common divisors.                *)
LEMMA GcdIs ==
  ASSUME NEW a \in Nat, a > 0, NEW b \in Nat
  PROVE  /\ Gcd(a, b) \in Nat /\ Gcd(a, b) > 0
         /\ \A d \in Nat : Same(Gcd(a, b), 0, d) <=> Same(a, 0, d) /\ Same(b, 0, d)
<1> DEFINE v0 == [a |-> a, b |-> b]
           Step(f, k) == IF k = 0 THEN v0 ELSE EuclidStep(f[k - 1])
           G == [k \in 1..b |-> [v \in Pairs |-> EuclidStep(v)]]
           s == CHOOSE s : s = [k \in 0..b |-> Step(s, k)]
<1>1. v0 \in Pairs
  BY DEF Pairs
<1>2. G \in [1..b -> [Pairs -> Pairs]]
  BY EuclidStepIs
<1>3. PICK f : Recurs(f, Pairs, v0, b, G)
  <2> HIDE DEF v0, G
  <2> QED BY <1>1, <1>2, Recursion
<1>4. f = [k \in 0..b |-> Step(f, k)]
  <2>1. /\ f \in [0..b -> Pairs]
        /\ f[0] = v0 /\ \A k \in 1..b : f[k] = G[k][f[k - 1]]
    <3> HIDE DEF v0, G
    <3> QED BY <1>3 DEF Recurs
  <2>2. ASSUME NEW k \in 0..b PROVE f[k] = Step(f, k)
    <3>1. CASE k = 0
      <4> HIDE DEF v0
      <4> QED BY <2>1, <3>1
    <3>2. CASE k # 0
      <4>1. k \in 1..b /\ k - 1 \in 0..b
        BY <3>2
      <4>2. f[k - 1] \in Pairs
        <5> HIDE DEF v0, G
        <5> QED BY <2>1, <4>1
      <4>3. G[k][f[k - 1]] = EuclidStep(f[k - 1])
        BY <4>1, <4>2
      <4> HIDE DEF v0, G
      <4> QED BY <2>1, <3>2, <4>1, <4>3
    <3> QED BY <3>1, <3>2
  <2> HIDE DEF Step, v0, G
  <2> QED BY <2>1, <2>2
<1>5. s = [k \in 0..b |-> Step(s, k)]
  <2> HIDE DEF Step, v0, G
  <2> QED BY <1>4
<1>6. Gcd(a, b) = s[b].a
  BY DEF Gcd
<1> HIDE DEF s
<1>7. s[0] = v0 /\ \A k \in 1..b : s[k] = EuclidStep(s[k - 1])
  <2>1. \A k \in 0..b : s[k] = Step(s, k)
    <3> HIDE DEF Step, v0
    <3> QED BY <1>5
  <2> HIDE DEF v0
  <2> QED BY <2>1
<1> DEFINE Good(e) == /\ s[e] \in Pairs /\ s[e].a > 0
                      /\ s[e].b = 0 \/ s[e].b <= b - e
                      /\ \A d \in Nat : Common(d, s[e]) <=> Common(d, v0)
           Q == {e \in Nat : e <= b => Good(e)}
<1>8. 0 \in Q
  BY <1>1, <1>7
<1>9. ASSUME NEW e \in Q PROVE e + 1 \in Q
  <2>1. SUFFICES ASSUME e + 1 <= b PROVE Good(e + 1)
    <3> HIDE DEF Good
    <3> QED OBVIOUS
  <2>2. e \in Nat /\ e <= b /\ e + 1 \in 1..b /\ (e + 1) - 1 = e
    BY <2>1
  <2>3. Good(e)
    <3> HIDE DEF Good
    <3> QED BY <2>2
  <2> HIDE DEF v0
  <2>4. PICK u, w : u \in Pairs /\ u = s[e] /\ w = s[e + 1] /\ w = EuclidStep(u)
    BY <1>7, <2>2, <2>3
  <2>5. /\ w \in Pairs /\ w.a > 0 /\ (w.b = 0 \/ w.b < u.b)
        /\ \A d \in Nat : Common(d, w) <=> Common(d, u)
    BY <2>3, <2>4, EuclidStepIs
  <2>6. w.b = 0 \/ w.b <= b - (e + 1)
    <3>1. u.b \in Nat /\ w.b \in Nat /\ (u.b = 0 \/ u.b <= b - e)
      BY <2>3, <2>4, <2>5 DEF Pairs
    <3> QED BY <2>2, <2>5, <3>1
  <2> QED BY <2>3, <2>4, <2>5, <2>6
<1>10. Good(b)
  <2>1. Q \in SUBSET Nat
    OBVIOUS
  <2>2. Q = Nat
    <3> HIDE DEF Q
    <3> QED BY <1>8, <1>9, <2>1, Inductive
  <2> HIDE DEF Good
  <2> QED BY <2>2
<1>11. PICK u \in Pairs : u = s[b] /\ u.b = 0 /\ u.a > 0 /\ u.a \in Nat
  <2>1. PICK u \in Pairs : u = s[b]
    BY <1>10
  <2>2. u.b \in Nat /\ u.a \in Nat
    BY DEF Pairs
  <2> QED BY <1>10, <2>1, <2>2
<1>12. ASSUME NEW d \in Nat PROVE Same(u.a, 0, d) <=> Same(a, 0, d) /\ Same(b, 0, d)
  <2>1. Same(0, 0, d)
    BY SameChain
  <2>2. Common(d, u) <=> Common(d, v0)
    <3> HIDE DEF v0
    <3> QED BY <1>10, <1>11
  <2> QED BY <1>11, <2>1, <2>2 DEF Common
<1> QED BY <1>6, <1>11, <1>12

(* It is one for coprime numbers, and only for them.                        *)
LEMMA GcdTellsCoprime ==
  ASSUME NEW a \in Nat, a > 0, NEW b \in Nat
  PROVE  Gcd(a, b) = 1 <=> Coprime(a, b)
<1>1. PICK g \in Nat : /\ g = Gcd(a, b) /\ g > 0
                       /\ \A d \in Nat : Same(g, 0, d) <=> Same(a, 0, d) /\ Same(b, 0, d)
  BY GcdIs
<1>2. \A d \in Nat : d > 0 => /\ a % d = 0 <=> Same(a, 0, d)
                              /\ b % d = 0 <=> Same(b, 0, d)
  BY SameAsZero
<1>3. ASSUME g = 1, NEW d \in 2..a, a % d = 0, b % d = 0 PROVE FALSE
  <2>1. Same(g, 0, d)
    BY <1>1, <1>2, <1>3
  <2>2. PICK k \in Int : 1 = 0 + d * k
    BY <1>3, <2>1 DEF Same
  <2>3. k > 0 \/ k <= 0
    OBVIOUS
  <2>4. k > 1 => d * k >= d
    BY Z3
  <2>5. k <= 0 => d * k <= 0
    BY Z3
  <2>6. k = 1 => d * k = d
    OBVIOUS
  <2> QED BY <2>2, <2>3, <2>4, <2>5, <2>6
<1>4. ASSUME Coprime(a, b), g # 1 PROVE FALSE
  <2>1. Same(g, 0, g)
    <3>1. g = 0 + g * 1
      OBVIOUS
    <3> QED BY <3>1 DEF Same
  <2>2. Same(a, 0, g) /\ Same(b, 0, g)
    BY <1>1, <2>1
  <2>3. PICK k \in Int : a = 0 + g * k
    BY <2>2 DEF Same
  <2>4. g <= a
    <3>1. k <= 0 => g * k <= 0
      BY Z3
    <3>2. k > 0 => g * k >= g
      BY Z3
    <3> QED BY <2>3, <3>1, <3>2
  <2>5. g \in 2..a /\ a % g = 0 /\ b % g = 0
    BY <1>1, <1>2, <1>4, <2>2, <2>4
  <2> QED BY <1>4, <2>5 DEF Coprime
<1> QED BY <1>1, <1>3, <1>4 DEF Coprime

(* The quotient by half of a divisor has one more bit.                      *)
LEMMA QuotientBit ==
  ASSUME NEW v \in Nat, NEW d \in Nat, d > 0, NEW q \in Nat, q = v \div d
  PROVE  q = 2 * (v \div (2 * d)) + (q % 2) /\ q % 2 \in 0..1
<1>1. PICK h \in Nat, b \in 0..1 : h = q \div 2 /\ b = q % 2 /\ q = 2 * h + b
  OBVIOUS
<1>2. PICK r \in 0..(d - 1) : r = v % d
  <2>1. v \in Int
    OBVIOUS
  <2> QED BY <2>1, DivMod
<1>3. v = d * q + r
  <2>1. v \in Int
    OBVIOUS
  <2> QED BY <1>2, <2>1, DivMod
<1>4. PICK e \in Nat : e = 2 * d
  OBVIOUS
<1>5. PICK s \in Int : s = d * b + r
  OBVIOUS
<1>6. s \in 0..(e - 1)
  <2>1. b = 0 \/ b = 1
    OBVIOUS
  <2>2. b = 0 => s = r
    BY <1>5
  <2>3. b = 1 => s = d + r
    BY <1>5
  <2> QED BY <1>2, <1>4, <2>1, <2>2, <2>3
<1>7. v = e * h + s
  <2>1. d * (2 * h + b) = (2 * d) * h + d * b
    BY Z3
  <2> QED BY <1>1, <1>3, <1>4, <1>5, <2>1
<1>8. v \div e = h
  <2>1. v \in Int /\ h \in Int /\ e > 0
    BY <1>4
  <2> QED BY <1>6, <1>7, <2>1, DivModIs
<1> QED BY <1>1, <1>4, <1>8

(* One bit of the factor: what was summed is doubled, and b added for one.  *)
LEMMA DoubledIs ==
  ASSUME NEW m \in Nat, m > 0, NEW b \in Nat, NEW h \in Nat, NEW bit \in 0..1,
         NEW u \in 0..(m - 1), Same(u, h * b, m), NEW w,
         w = LET twice == (2 * u) % m IN IF bit = 1 THEN (twice + b) % m ELSE twice
  PROVE  w \in 0..(m - 1) /\ Same(w, (2 * h + bit) * b, m)
<1>1. PICK p \in Int, t2 \in Int, bb \in Int, uu \in Int :
         p = h * b /\ t2 = (2 * u) % m /\ bb = b /\ uu = 2 * u
  OBVIOUS
<1>2. t2 \in 0..(m - 1) /\ Same(t2, uu, m)
  BY <1>1, SameAsResidue
<1>3. Same(uu, 2 * p, m)
  <2>1. PICK u1 \in Int, two \in Int : u1 = u /\ two = 2
    OBVIOUS
  <2>2. Same(u1, p, m)
    BY <1>1, <2>1
  <2>3. Same(two * u1, two * p, m)
    BY <2>2, SameTimes
  <2> QED BY <1>1, <2>1, <2>3
<1>4. Same(t2, 2 * p, m)
  <2>1. 2 * p \in Int
    OBVIOUS
  <2> QED BY <1>2, <1>3, <2>1, SameChain
<1>5. CASE bit = 0
  <2>1. (2 * h + bit) * b = 2 * (h * b)
    <3>1. (2 * h) * b = 2 * (h * b)
      BY Z3
    <3> QED BY <1>5, <3>1
  <2> QED BY <1>1, <1>2, <1>4, <1>5, <2>1
<1>6. CASE bit = 1
  <2>1. (2 * h + bit) * b = 2 * (h * b) + b
    <3>1. (2 * h + 1) * b = 2 * (h * b) + b
      BY Z3
    <3> QED BY <1>6, <3>1
  <2>2. PICK z \in Int, y2 \in Int : z = t2 + bb /\ y2 = 2 * p + bb
    OBVIOUS
  <2>3. Same(z, y2, m)
    <3>1. Same(bb, bb, m) /\ 2 * p \in Int
      BY SameChain
    <3> QED BY <1>4, <2>2, <3>1, SameSum
  <2>4. w = z % m
    BY <1>1, <1>6, <2>2
  <2>5. w \in 0..(m - 1) /\ Same(w, z, m) /\ w \in Int
    BY <2>2, <2>4, SameAsResidue
  <2>6. Same(w, y2, m)
    BY <2>2, <2>3, <2>5, SameChain
  <2> QED BY <1>1, <2>1, <2>2, <2>5, <2>6
<1> QED BY <1>5, <1>6

(* mul_mod of rescue_prime.rs multiplies.                                   *)
LEMMA DoubleAndAddIs ==
  ASSUME NEW a \in Nat, NEW b \in Nat, NEW m \in Nat, m > 0, m < Word
  PROVE  DoubleAndAdd(a, b, m) \in 0..(m - 1) /\ Same(DoubleAndAdd(a, b, m), a * b, m)
<1> DEFINE n == 2 * HalfBits
           v == a % m
           Bit(k) == (v \div TwoTo[n - k]) % 2
           Turn(u, k) == LET twice == (2 * u) % m IN
                         IF Bit(k) = 1 THEN (twice + b) % m ELSE twice
           Step(f, k) == IF k = 0 THEN 0 ELSE Turn(f[k - 1], k)
           V == 0..(m - 1)
           G == [k \in 1..n |-> [u \in V |-> Turn(u, k)]]
           s == CHOOSE s : s = [k \in 0..n |-> Step(s, k)]
<1>1. n \in Nat /\ v \in Nat /\ v < Word /\ Same(v, a, m)
  <2>1. a \in Int
    OBVIOUS
  <2>2. v \in 0..(m - 1) /\ Same(v, a, m)
    BY <2>1, SameAsResidue
  <2> QED BY <2>2, WidthType, WordFacts
<1>2. \A k \in 1..n : /\ n - k \in 0..n /\ n - (k - 1) = (n - k) + 1 /\ n - (k - 1) \in 1..n
                      /\ k - 1 \in 0..n /\ k \in 0..n
  BY <1>1
<1>3. ASSUME NEW k \in 0..n
      PROVE  v \div TwoTo[n - k] \in Nat
  <2>1. PICK d \in Nat : d = TwoTo[n - k] /\ d > 0
    <3>1. n - k \in 0..n
      BY <1>1
    <3> QED BY <3>1, TwoToFacts
  <2>2. v \div d \in Nat
    <3> HIDE DEF v
    <3> QED BY <1>1, <2>1
  <2> QED BY <2>1, <2>2
<1>4. ASSUME NEW k \in 1..n
      PROVE  /\ Bit(k) \in 0..1
             /\ v \div TwoTo[n - k] = 2 * (v \div TwoTo[n - (k - 1)]) + Bit(k)
  <2>1. PICK d \in Nat, q \in Nat : d = TwoTo[n - k] /\ d > 0 /\ q = v \div d
    <3>1. k \in 0..n
      BY <1>2
    <3> QED BY <1>2, <1>3, <3>1, TwoToFacts
  <2>2. TwoTo[n - (k - 1)] = 2 * d
    <3>1. n - (k - 1) \in 1..n /\ (n - (k - 1)) - 1 = n - k
      BY <1>1, <1>2
    <3> QED BY <2>1, <3>1, TwoToFacts
  <2>3. q = 2 * (v \div (2 * d)) + (q % 2) /\ q % 2 \in 0..1
    <3>1. PICK v1 \in Nat : v1 = v
      BY <1>1
    <3>2. q = v1 \div d
      BY <2>1, <3>1
    <3>3. q = 2 * (v1 \div (2 * d)) + (q % 2) /\ q % 2 \in 0..1
      BY <2>1, <3>2, QuotientBit
    <3> HIDE DEF v
    <3> QED BY <3>1, <3>3
  <2>4. Bit(k) = q % 2
    BY <2>1
  <2> HIDE DEF Bit, v, n
  <2> QED BY <2>1, <2>2, <2>3, <2>4
<1>5. ASSUME NEW k \in 1..n, NEW u \in V,
             Same(u, (v \div TwoTo[n - (k - 1)]) * b, m)
      PROVE  /\ Turn(u, k) \in V
             /\ Same(Turn(u, k), (v \div TwoTo[n - k]) * b, m)
  <2>1. PICK h, bit, w : /\ h \in Nat /\ h = v \div TwoTo[n - (k - 1)]
                         /\ bit \in 0..1 /\ bit = Bit(k) /\ w = Turn(u, k)
    <3>1. k - 1 \in 0..n
      BY <1>2
    <3> HIDE DEF v, n, Bit, Turn
    <3> QED BY <1>3, <1>4, <3>1
  <2>2. w = LET twice == (2 * u) % m IN IF bit = 1 THEN (twice + b) % m ELSE twice
    BY <2>1
  <2>3. w \in 0..(m - 1) /\ Same(w, (2 * h + bit) * b, m)
    <3> HIDE DEF v, n, Bit, Turn
    <3> QED BY <1>5, <2>1, <2>2, DoubledIs
  <2>4. v \div TwoTo[n - k] = 2 * h + bit
    <3> HIDE DEF v, n, Bit, Turn
    <3> QED BY <1>4, <2>1
  <2> HIDE DEF v, n, Bit, Turn
  <2> QED BY <2>1, <2>3, <2>4
<1>6. ASSUME NEW k \in 1..n, NEW u \in V PROVE Turn(u, k) \in V
  <2>1. 2 * u \in Int /\ (2 * u) % m \in V
    <3>1. 2 * u \in Int
      OBVIOUS
    <3> QED BY <3>1, DivMod
  <2>2. ((2 * u) % m) + b \in Int
    BY <2>1
  <2>3. (((2 * u) % m) + b) % m \in V
    BY <2>2, DivMod
  <2> HIDE DEF Bit, v, n
  <2> QED BY <2>1, <2>3
<1>7. PICK f : f = [k \in 0..n |-> Step(f, k)]
  <2>1. 0 \in V /\ G \in [1..n -> [V -> V]]
    <3> HIDE DEF Turn, n
    <3> QED BY <1>6
  <2>2. PICK f : Recurs(f, V, 0, n, G)
    <3> HIDE DEF V, G, n
    <3> QED BY <1>1, <2>1, Recursion
  <2>3. f \in [0..n -> V] /\ f[0] = 0 /\ \A k \in 1..n : f[k] = G[k][f[k - 1]]
    <3> HIDE DEF V, G, n
    <3> QED BY <2>2 DEF Recurs
  <2>4. ASSUME NEW k \in 0..n PROVE f[k] = Step(f, k)
    <3>1. CASE k = 0
      BY <2>3, <3>1
    <3>2. CASE k # 0
      <4>1. k \in 1..n /\ k - 1 \in 0..n
        BY <1>1, <3>2
      <4>2. f[k - 1] \in V
        <5> HIDE DEF V, G, n
        <5> QED BY <2>3, <4>1
      <4>3. G[k][f[k - 1]] = Turn(f[k - 1], k)
        <5> HIDE DEF V, Turn, n
        <5> QED BY <4>1, <4>2
      <4> HIDE DEF V, G, n, Turn
      <4> QED BY <2>3, <3>2, <4>1, <4>3
    <3> QED BY <3>1, <3>2
  <2> HIDE DEF Step, V, G, n
  <2> QED BY <2>3, <2>4
<1>8. s = [k \in 0..n |-> Step(s, k)]
  <2> HIDE DEF Step, n
  <2> QED BY <1>7
<1>9. DoubleAndAdd(a, b, m) = s[n]
  BY DEF DoubleAndAdd
<1> HIDE DEF s
<1>10. s[0] = 0 /\ \A k \in 1..n : s[k] = Turn(s[k - 1], k)
  <2>1. \A k \in 0..n : s[k] = Step(s, k)
    <3> HIDE DEF Step, n
    <3> QED BY <1>8
  <2>2. 0 \in 0..n
    BY <1>1
  <2> HIDE DEF Turn, n
  <2> QED BY <1>2, <2>1, <2>2
<1> DEFINE Good(k) == s[k] \in V /\ Same(s[k], (v \div TwoTo[n - k]) * b, m)
           Q == {k \in Nat : k <= n => Good(k)}
<1>11. 0 \in Q
  <2>1. v \div Word = 0
    <3> HIDE DEF v
    <3> QED BY <1>1, WordFacts
  <2>2. TwoTo[n - 0] = Word
    BY <1>1, WordFacts
  <2>3. 0 * b = 0 /\ Same(0, 0, m) /\ 0 \in V
    BY SameChain
  <2> HIDE DEF v, n
  <2> QED BY <1>10, <2>1, <2>2, <2>3
<1>12. ASSUME NEW k \in Q PROVE k + 1 \in Q
  <2>1. CASE k + 1 <= n
    <3>1. k \in Nat /\ k + 1 \in 1..n /\ (k + 1) - 1 = k
      BY <1>1, <2>1
    <3>2. Good(k)
      <4> HIDE DEF Good, n
      <4> QED BY <1>1, <2>1, <3>1
    <3>3. PICK j \in 1..n : j = k + 1 /\ j - 1 = k
      BY <3>1
    <3>4. s[j] = Turn(s[j - 1], j) /\ Good(j - 1)
      <4> HIDE DEF Good, Turn, n
      <4> QED BY <1>10, <3>2, <3>3
    <3>5. Good(j)
      <4> HIDE DEF Turn, n, v, V
      <4> QED BY <1>5, <3>4
    <3> HIDE DEF Good, n
    <3> QED BY <3>1, <3>3, <3>5
  <2>2. CASE ~ (k + 1 <= n)
    <3> HIDE DEF Good, n
    <3> QED BY <2>2
  <2> QED BY <2>1, <2>2
<1>13. Good(n)
  <2>1. Q \in SUBSET Nat
    OBVIOUS
  <2>2. Q = Nat
    <3> HIDE DEF Q
    <3> QED BY <1>11, <1>12, <2>1, Inductive
  <2> HIDE DEF Good, n
  <2> QED BY <1>1, <2>2
<1>14. v \div TwoTo[n - n] = v
  <2>1. n - n = 0
    BY <1>1
  <2>2. v \div 1 = v
    <3> HIDE DEF v
    <3> QED BY <1>1
  <2> HIDE DEF v, n
  <2> QED BY <2>1, <2>2, TwoToFacts
<1>15. Same(v * b, a * b, m)
  <2>1. PICK v1 \in Int, a1 \in Int, b1 \in Int : v1 = v /\ a1 = a /\ b1 = b
    <3> HIDE DEF v
    <3> QED BY <1>1
  <2>2. Same(v1, a1, m)
    <3> HIDE DEF v
    <3> QED BY <1>1, <2>1
  <2>3. Same(v1 * b1, a1 * b1, m)
    BY <2>2, SameTimes
  <2> HIDE DEF v
  <2> QED BY <2>1, <2>3
<1>16. PICK o \in Int, p \in Int, q \in Int : o = s[n] /\ p = v * b /\ q = a * b
  <2> HIDE DEF n
  <2> QED BY <1>1, <1>13
<1>17. o \in V /\ Same(o, p, m) /\ Same(p, q, m)
  <2> HIDE DEF v, n, V
  <2> QED BY <1>13, <1>14, <1>15, <1>16
<1>18. Same(o, q, m)
  BY <1>16, <1>17, SameChain
<1> QED BY <1>9, <1>16, <1>17, <1>18

(* sub_mod of rescue_prime.rs.                                              *)
LEMMA SubWithinIs ==
  ASSUME NEW m \in Nat, m > 0, NEW a \in Nat, NEW b \in 0..(m - 1)
  PROVE  SubWithin(a, b, m) \in 0..(m - 1) /\ Same(SubWithin(a, b, m), a - b, m)
<1>1. PICK d \in Int : d = a - b
  OBVIOUS
<1>2. CASE a >= b
  <2>1. SubWithin(a, b, m) = d % m
    BY <1>1, <1>2 DEF SubWithin
  <2> QED BY <1>1, <2>1, SameAsResidue
<1>3. CASE ~ (a >= b)
  <2>1. PICK e, o : e \in Int /\ e = m - (b - a) /\ e = d + m /\ o = e % m
    BY <1>1
  <2>2. SubWithin(a, b, m) = o
    BY <1>3, <2>1 DEF SubWithin
  <2>3. o \in 0..(m - 1) /\ o \in Int /\ e \in Int /\ Same(o, e, m)
    BY <2>1, SameAsResidue
  <2>4. Same(e, d, m)
    <3>1. e = d + m * 1
      BY <2>1
    <3> QED BY <3>1 DEF Same
  <2>5. Same(o, d, m)
    BY <2>3, <2>4, SameChain
  <2> QED BY <1>1, <2>2, <2>3, <2>5
<1> QED BY <1>2, <1>3

(* What the loop of mod_inv holds, and what it keeps: the coefficients give *)
(* the remainders, modulo m.                                                *)
Coefficients(m) == [t : Nat, newt : 0..(m - 1), r : Nat, newr : Nat]
Bezout(a, m, s) == Same(s.t * a, s.r, m) /\ Same(s.newt * a, s.newr, m)
Remainders(s) == [a |-> s.r, b |-> s.newr]

LEMMA InverseStepIs ==
  ASSUME NEW m \in Nat, m > 1, m < Word, NEW a \in Nat, NEW s \in Coefficients(m)
  PROVE  /\ InverseStep(s, m) \in Coefficients(m)
         /\ Remainders(InverseStep(s, m)) = EuclidStep(Remainders(s))
         /\ Bezout(a, m, s) => Bezout(a, m, InverseStep(s, m))
<1>1. PICK t0 \in Nat, t1 \in 0..(m - 1), r0 \in Nat, r1 \in Nat :
         /\ t0 = s.t /\ t1 = s.newt /\ r0 = s.r /\ r1 = s.newr
         /\ s = [t |-> t0, newt |-> t1, r |-> r0, newr |-> r1]
  BY DEF Coefficients
<1>2. CASE r1 = 0
  <2>1. InverseStep(s, m) = s /\ EuclidStep(Remainders(s)) = Remainders(s)
    BY <1>1, <1>2 DEF InverseStep, EuclidStep, Remainders
  <2> QED BY <2>1
<1>3. CASE r1 # 0
  <2>1. PICK q \in Nat, r2 \in Nat : q = r0 \div r1 /\ r2 = r0 % r1
    BY <1>3
  <2>2. r0 = r1 * q + r2
    <3>1. r0 \in Int /\ r1 > 0
      BY <1>3
    <3> QED BY <2>1, <3>1, DivMod
  <2>3. PICK p \in 0..(m - 1) : p = DoubleAndAdd(q, t1, m) /\ Same(p, q * t1, m)
    <3>1. t1 \in Nat /\ m > 0
      OBVIOUS
    <3> QED BY <3>1, DoubleAndAddIs
  <2>4. PICK t2 \in 0..(m - 1) : t2 = SubWithin(t0, p, m) /\ Same(t2, t0 - p, m)
    <3>1. m > 0
      OBVIOUS
    <3> QED BY <2>3, <3>1, SubWithinIs
  <2>5. InverseStep(s, m) = [t |-> t1, newt |-> t2, r |-> r1, newr |-> r2]
    <3>1. r0 - q * r1 = r2
      <4>1. q * r1 = r1 * q
        BY Z3
      <4> QED BY <2>2, <4>1
    <3> QED BY <1>1, <1>3, <2>1, <2>3, <2>4, <3>1 DEF InverseStep
  <2>6. EuclidStep(Remainders(s)) = [a |-> r1, b |-> r2]
    BY <1>1, <1>3, <2>1 DEF EuclidStep, Remainders
  <2>7. ASSUME Same(t0 * a, r0, m), Same(t1 * a, r1, m) PROVE Same(t2 * a, r2, m)
    <3>1. PICK k0 \in Int, k1 \in Int, kp \in Int, k2 \in Int :
             /\ t0 * a = r0 + m * k0 /\ t1 * a = r1 + m * k1
             /\ p = q * t1 + m * kp /\ t2 = t0 - p + m * k2
      BY <2>3, <2>4, <2>7 DEF Same
    <3>2. PICK e \in Int : e = k0 - q * k1 - kp * a + k2 * a
      OBVIOUS
    <3>3. t2 * a = r2 + m * e
      <4>1. t2 * a = t0 * a - q * (t1 * a) - m * (kp * a) + m * (k2 * a)
        <5>1. t2 = t0 - (q * t1 + m * kp) + m * k2
          BY <3>1
        <5>2. (t0 - (q * t1 + m * kp) + m * k2) * a
                = t0 * a - q * (t1 * a) - m * (kp * a) + m * (k2 * a)
          BY Z3
        <5> QED BY <5>1, <5>2
      <4>2. q * (t1 * a) = q * r1 + m * (q * k1)
        <5>1. q * (r1 + m * k1) = q * r1 + m * (q * k1)
          BY Z3
        <5> QED BY <3>1, <5>1
      <4>3. q * r1 = r1 * q
        BY Z3
      <4>4. m * e = m * k0 - m * (q * k1) - m * (kp * a) + m * (k2 * a)
        <5>1. m * (k0 - q * k1 - kp * a + k2 * a)
                = m * k0 - m * (q * k1) - m * (kp * a) + m * (k2 * a)
          BY Z3
        <5> QED BY <3>2, <5>1
      <4>5. PICK g1 \in Int, g2 \in Int, g3 \in Int, g4 \in Int, g5 \in Int, g6 \in Int :
               /\ g1 = t0 * a /\ g2 = q * (t1 * a) /\ g3 = m * (kp * a) /\ g4 = m * (k2 * a)
               /\ g5 = m * (q * k1) /\ g6 = q * r1
        OBVIOUS
      <4> QED BY <2>2, <3>1, <4>1, <4>2, <4>3, <4>4, <4>5
    <3> QED BY <3>3 DEF Same
  <2>8. InverseStep(s, m) \in Coefficients(m)
    BY <2>5 DEF Coefficients
  <2>9. Remainders(InverseStep(s, m)) = EuclidStep(Remainders(s))
    BY <2>5, <2>6 DEF Remainders
  <2>10. Bezout(a, m, s) => Bezout(a, m, InverseStep(s, m))
    BY <1>1, <2>5, <2>7 DEF Bezout
  <2> QED BY <2>8, <2>9, <2>10
<1> QED BY <1>2, <1>3

(* mod_inv of rescue_prime.rs inverts what is coprime to m.                 *)
LEMMA ModInvIs ==
  ASSUME NEW m \in Nat, m > 1, m < Word, NEW a \in Nat, a > 0, Coprime(a, m)
  PROVE  ModInv(a, m) \in 0..(m - 1) /\ Same(a * ModInv(a, m), 1, m)
<1> DEFINE v0 == [t |-> 0, newt |-> 1, r |-> m, newr |-> a % m]
           V == Coefficients(m)
           Step(f, k) == IF k = 0 THEN v0 ELSE InverseStep(f[k - 1], m)
           G == [k \in 1..m |-> [v \in V |-> InverseStep(v, m)]]
           s == CHOOSE s : s = [k \in 0..m |-> Step(s, k)]
<1>1. PICK c \in 0..(m - 1) : c = a % m /\ Same(c, a, m)
  <2>1. a \in Int
    OBVIOUS
  <2> QED BY <2>1, SameAsResidue
<1>2. v0 \in V
  BY <1>1 DEF Coefficients
<1>3. G \in [1..m -> [V -> V]]
  BY InverseStepIs
<1>4. PICK f : Recurs(f, V, v0, m, G)
  <2> HIDE DEF v0, G, V
  <2> QED BY <1>2, <1>3, Recursion
<1>5. f = [k \in 0..m |-> Step(f, k)]
  <2>1. /\ f \in [0..m -> V]
        /\ f[0] = v0 /\ \A k \in 1..m : f[k] = G[k][f[k - 1]]
    <3> HIDE DEF v0, G, V
    <3> QED BY <1>4 DEF Recurs
  <2>2. ASSUME NEW k \in 0..m PROVE f[k] = Step(f, k)
    <3>1. CASE k = 0
      <4> HIDE DEF v0
      <4> QED BY <2>1, <3>1
    <3>2. CASE k # 0
      <4>1. k \in 1..m /\ k - 1 \in 0..m
        BY <3>2
      <4>2. f[k - 1] \in V
        <5> HIDE DEF v0, G, V
        <5> QED BY <2>1, <4>1
      <4>3. G[k][f[k - 1]] = InverseStep(f[k - 1], m)
        <5> HIDE DEF v0, V
        <5> QED BY <4>1, <4>2
      <4> HIDE DEF v0, G, V
      <4> QED BY <2>1, <3>2, <4>1, <4>3
    <3> QED BY <3>1, <3>2
  <2> HIDE DEF Step, v0, G, V
  <2> QED BY <2>1, <2>2
<1>6. s = [k \in 0..m |-> Step(s, k)]
  <2> HIDE DEF Step, v0, G
  <2> QED BY <1>5
<1>7. ModInv(a, m) = s[m].t % m
  BY DEF ModInv
<1> HIDE DEF s, V
<1>8. s[0] = v0 /\ \A k \in 1..m : s[k] = InverseStep(s[k - 1], m)
  <2>1. \A k \in 0..m : s[k] = Step(s, k)
    <3> HIDE DEF Step, v0
    <3> QED BY <1>6
  <2> HIDE DEF v0
  <2> QED BY <2>1
<1> DEFINE Rem(e) == Remainders(s[e])
           Good(e) == /\ s[e] \in V /\ Bezout(a, m, s[e])
                      /\ Rem(e) \in Pairs /\ Rem(e).a > 0
                      /\ Rem(e).b = 0 \/ Rem(e).b <= m - e
                      /\ \A d \in Nat : Common(d, Rem(e)) <=> Common(d, Remainders(v0))
           Q == {e \in Nat : e <= m => Good(e)}
<1>9. 0 \in Q
  <2>1. s[0] \in V
    BY <1>2, <1>8
  <2>2. Bezout(a, m, v0)
    <3>1. 0 * a = 0 /\ Same(0, m, m)
      <4>1. 0 = m + m * (-1)
        OBVIOUS
      <4>2. -1 \in Int
        OBVIOUS
      <4> QED BY <4>1, <4>2 DEF Same
    <3>2. 1 * a = a /\ Same(a, c, m)
      <4>1. a \in Int /\ c \in Int
        OBVIOUS
      <4> QED BY <1>1, <4>1, SameChain
    <3> QED BY <1>1, <3>1, <3>2 DEF Bezout
  <2>3. Remainders(v0) = [a |-> m, b |-> c]
    BY <1>1 DEF Remainders
  <2>4. Remainders(v0) \in Pairs /\ Remainders(v0).a > 0 /\ Remainders(v0).b <= m - 0
    BY <1>1, <2>3 DEF Pairs
  <2> HIDE DEF v0
  <2> QED BY <1>8, <2>1, <2>2, <2>4
<1>10. ASSUME NEW e \in Q PROVE e + 1 \in Q
  <2>1. SUFFICES ASSUME e + 1 <= m PROVE Good(e + 1)
    <3> HIDE DEF Good
    <3> QED OBVIOUS
  <2>2. e \in Nat /\ e <= m /\ e + 1 \in 1..m /\ (e + 1) - 1 = e
    BY <2>1
  <2>3. Good(e)
    <3> HIDE DEF Good
    <3> QED BY <2>2
  <2> HIDE DEF v0
  <2>4. PICK u, w : u \in V /\ u = s[e] /\ w = s[e + 1] /\ w = InverseStep(u, m)
    BY <1>8, <2>2, <2>3
  <2>5. w \in V /\ Bezout(a, m, w) /\ Remainders(w) = EuclidStep(Remainders(u))
    BY <2>3, <2>4, InverseStepIs DEF V
  <2>6. PICK x0, x1 : x0 = Remainders(u) /\ x1 = Remainders(w)
    OBVIOUS
  <2>7. /\ x0 \in Pairs /\ x0.a > 0 /\ (x0.b = 0 \/ x0.b <= m - e)
        /\ \A d \in Nat : Common(d, x0) <=> Common(d, Remainders(v0))
    BY <2>3, <2>4, <2>6
  <2>8. /\ x1 \in Pairs /\ x1.a > 0 /\ (x1.b = 0 \/ x1.b < x0.b)
        /\ \A d \in Nat : Common(d, x1) <=> Common(d, x0)
    BY <2>5, <2>6, <2>7, EuclidStepIs
  <2>9. x1.b = 0 \/ x1.b <= m - (e + 1)
    <3>1. x0.b \in Nat /\ x1.b \in Nat
      BY <2>7, <2>8 DEF Pairs
    <3> QED BY <2>2, <2>7, <2>8, <3>1
  <2> QED BY <2>4, <2>5, <2>6, <2>7, <2>8, <2>9
<1>11. Good(m)
  <2>1. Q \in SUBSET Nat
    OBVIOUS
  <2>2. Q = Nat
    <3> HIDE DEF Q
    <3> QED BY <1>9, <1>10, <2>1, Inductive
  <2> HIDE DEF Good
  <2> QED BY <2>2
<1>12. PICK u \in V : u = s[m]
  BY <1>11
<1>13. u.t \in Nat /\ u.r \in Nat /\ u.newr \in Nat
  BY <1>12 DEF V, Coefficients
<1>14. u.newr = 0 /\ u.r > 0 /\ Same(u.t * a, u.r, m)
  BY <1>11, <1>12, <1>13 DEF Bezout, Remainders
<1>15. u.r = 1
  <2>1. PICK g \in Nat : g = u.r /\ g > 0
    BY <1>13, <1>14
  <2>2. Remainders(u) = [a |-> g, b |-> 0]
    BY <1>14, <2>1 DEF Remainders
  <2>3. Same(g, 0, g) /\ Same(0, 0, g)
    <3>1. g = 0 + g * 1
      OBVIOUS
    <3> QED BY <3>1, SameChain DEF Same
  <2>4. Common(g, Remainders(v0))
    <3>1. Common(g, Remainders(u))
      BY <2>2, <2>3 DEF Common
    <3> HIDE DEF v0
    <3> QED BY <1>11, <1>12, <2>1, <3>1
  <2>5. Same(m, 0, g) /\ Same(c, 0, g)
    BY <1>1, <2>4 DEF Common, Remainders
  <2>6. Same(a, 0, g)
    BY <1>1, <2>5, DividesRemainder
  <2>7. PICK h \in Nat : /\ h = Gcd(a, m) /\ h = 1
                         /\ \A d \in Nat : Same(h, 0, d) <=> Same(a, 0, d) /\ Same(m, 0, d)
    <3>1. Gcd(a, m) = 1
      BY GcdTellsCoprime
    <3> QED BY <3>1, GcdIs
  <2>8. Same(1, 0, g)
    BY <2>5, <2>6, <2>7
  <2>9. PICK k \in Int : 1 = 0 + g * k
    BY <2>8 DEF Same
  <2>10. g = 1
    <3>1. k <= 0 => g * k <= 0
      BY Z3
    <3>2. k > 0 => g * k >= g
      BY Z3
    <3> QED BY <2>1, <2>9, <3>1, <3>2
  <2> QED BY <2>1, <2>10
<1>16. PICK t0, o : t0 \in Int /\ t0 = u.t /\ o = t0 % m
  BY <1>13
<1>17. o \in 0..(m - 1) /\ o \in Int /\ Same(o, t0, m)
  <2>1. m > 0
    OBVIOUS
  <2> QED BY <1>16, <2>1, SameAsResidue
<1>18. Same(a * o, a * t0, m)
  <2>1. a \in Int
    OBVIOUS
  <2> QED BY <1>16, <1>17, <2>1, SameTimes
<1>19. Same(a * t0, 1, m)
  <2>1. t0 * a = a * t0
    BY <1>16, Z3
  <2> QED BY <1>14, <1>15, <1>16, <2>1
<1>20. Same(a * o, 1, m)
  <2>1. PICK p \in Int, q \in Int : p = a * o /\ q = a * t0
    BY <1>16, <1>17
  <2> QED BY <1>18, <1>19, <2>1, SameChain
<1> QED BY <1>7, <1>12, <1>16, <1>17, <1>20

-----------------------------------------------------------------------------
(* The search for an exponent.                                              *)

(* Numbers that have a difference of one have no common divisor.            *)
LEMMA NoDivisorOfOne ==
  ASSUME NEW d \in Nat, d > 1, NEW v \in Int, NEW w \in Int, NEW c \in {1, 2}, v = w + c,
         Same(v, 0, d), Same(w, 0, d)
  PROVE  c = 2 /\ d = 2
<1>1. PICK k \in Int, l \in Int : v = 0 + d * k /\ w = 0 + d * l
  BY DEF Same
<1>2. PICK g \in Int : g = k - l
  OBVIOUS
<1>3. d * g = c
  <2>1. d * (k - l) = d * k - d * l
    BY Z3
  <2>2. PICK p \in Int, q \in Int : p = d * k /\ q = d * l
    OBVIOUS
  <2> QED BY <1>1, <1>2, <2>1, <2>2
<1>4. g <= 0 => d * g <= 0
  BY Z3
<1>5. g > 1 => d * g >= 2 * d
  BY Z3
<1>6. g = 1 => d * g = d
  OBVIOUS
<1> QED BY <1>3, <1>4, <1>5, <1>6

(* One of the two numbers after m is odd, and has no common divisor with m. *)
LEMMA OddCoprime ==
  ASSUME NEW m \in Nat, m > 2
  PROVE  \E w \in {m + 1, m + 2} : w % 2 = 1 /\ Coprime(w, m)
<1>1. ASSUME NEW c \in {1, 2}, NEW w \in Nat, w = m + c, c = 1 \/ m % 2 # 0
      PROVE  Coprime(w, m)
  <2>1. SUFFICES ASSUME NEW d \in 2..w, w % d = 0, m % d = 0 PROVE FALSE
    BY DEF Coprime
  <2>2. d \in Nat /\ d > 0 /\ d > 1 /\ w \in Int /\ m \in Int
    BY <2>1
  <2>3. Same(w, 0, d) /\ Same(m, 0, d)
    BY <2>1, <2>2, SameAsZero
  <2>4. c = 2 /\ d = 2
    BY <1>1, <2>2, <2>3, NoDivisorOfOne
  <2> QED BY <1>1, <2>1, <2>4
<1>2. CASE m % 2 = 0
  <2>1. (m + 1) % 2 = 1 /\ m + 1 \in Nat
    BY <1>2
  <2> QED BY <1>1, <2>1
<1>3. CASE m % 2 # 0
  <2>1. (m + 2) % 2 = 1 /\ m + 2 \in Nat
    BY <1>3
  <2> QED BY <1>1, <1>3, <2>1
<1> QED BY <1>2, <1>3

(* v is the first odd number from 3 on without a common divisor with m.     *)
FirstCoprime(v, m) ==
    /\ v % 2 = 1 /\ Coprime(v, m)
    /\ \A b \in 3..(v - 1) : b % 2 = 1 => ~ Coprime(b, m)

(* sbox_exponents of rescue_prime.rs finds it, within the number of trials  *)
(* that Alpha allows.                                                       *)
LEMMA AlphaIs ==
  ASSUME NEW m \in Nat, m > 2
  PROVE  /\ Alpha(m) \in 3..(m + 2) /\ Coprime(Alpha(m), m)
         /\ Alpha(m) = RefAlpha(m)
<1> DEFINE V == Nat
           Tried(k) == 3 + 2 * (m - k)
           Next1(k, v) == IF Gcd(Tried(k), m) = 1 THEN Tried(k) ELSE v
           Step(f, k) == IF k = 0 \/ Gcd(3 + 2 * (m - k), m) = 1 THEN 3 + 2 * (m - k)
                         ELSE f[k - 1]
           G == [k \in 1..m |-> [v \in V |-> Next1(k, v)]]
           s == CHOOSE s : s = [k \in 0..m |-> Step(s, k)]
<1>0. \A k \in 0..m : Tried(k) \in V /\ Tried(k) > 2 /\ Tried(k) % 2 = 1
  OBVIOUS
<1>1. Tried(0) \in V
  OBVIOUS
<1>2. G \in [1..m -> [V -> V]]
  <2>1. ASSUME NEW k \in 1..m, NEW v \in V PROVE Next1(k, v) \in V
    <3> HIDE DEF Tried, V
    <3>1. k \in 0..m
      OBVIOUS
    <3> QED BY <1>0, <3>1
  <2> HIDE DEF Next1, V
  <2> QED BY <2>1
<1>3. PICK f : Recurs(f, V, Tried(0), m, G)
  <2> HIDE DEF G, V, Tried
  <2> QED BY <1>1, <1>2, Recursion
<1>4. f = [k \in 0..m |-> Step(f, k)]
  <2>1. /\ f \in [0..m -> V]
        /\ f[0] = Tried(0) /\ \A k \in 1..m : f[k] = G[k][f[k - 1]]
    <3> HIDE DEF G, V, Tried
    <3> QED BY <1>3 DEF Recurs
  <2>2. ASSUME NEW k \in 0..m PROVE f[k] = Step(f, k)
    <3>1. CASE k = 0
      <4>1. f[k] = Tried(k)
        <5> HIDE DEF G, V, Tried
        <5> QED BY <2>1, <3>1
      <4> QED BY <3>1, <4>1
    <3>2. CASE k # 0
      <4>1. k \in 1..m /\ k - 1 \in 0..m
        BY <3>2
      <4>2. f[k - 1] \in V
        <5> HIDE DEF G, V, Tried
        <5> QED BY <2>1, <4>1
      <4>3. G[k][f[k - 1]] = Next1(k, f[k - 1])
        <5> HIDE DEF V, Next1, Tried
        <5> QED BY <4>1, <4>2
      <4>4. Step(f, k) = Next1(k, f[k - 1])
        BY <3>2
      <4> HIDE DEF G, V, Tried, Step, Next1
      <4> QED BY <2>1, <4>1, <4>3, <4>4
    <3> QED BY <3>1, <3>2
  <2> HIDE DEF Step, G, V, Tried
  <2> QED BY <2>1, <2>2
<1>5. s = [k \in 0..m |-> Step(s, k)]
  <2> HIDE DEF Step, G
  <2> QED BY <1>4
<1>6. Alpha(m) = s[m]
  BY DEF Alpha
<1> HIDE DEF s
<1>7. s[0] = Tried(0) /\ \A k \in 1..m : s[k] = Next1(k, s[k - 1])
  <2>1. \A k \in 0..m : s[k] = Step(s, k)
    <3> HIDE DEF Step
    <3> QED BY <1>5
  <2>2. ASSUME NEW k \in 1..m PROVE Step(s, k) = Next1(k, s[k - 1])
    OBVIOUS
  <2>3. Step(s, 0) = Tried(0)
    OBVIOUS
  <2> HIDE DEF Step, Next1, Tried
  <2> QED BY <2>1, <2>2, <2>3
<1> DEFINE Failed(v, w) == \A b \in v..(w - 1) : b % 2 = 1 => ~ Coprime(b, m)
           Good(e) == /\ s[e] \in Nat /\ s[e] % 2 = 1 /\ Tried(e) <= s[e]
                      /\ Failed(Tried(e), s[e])
                      /\ Coprime(s[e], m) \/ s[e] = 3 + 2 * m
           Q == {e \in Nat : e <= m => Good(e)}
<1> HIDE DEF Next1
<1>8. 0 \in Q
  <2>1. Tried(0) = 3 + 2 * m /\ Tried(0) \in Nat /\ Tried(0) % 2 = 1
    OBVIOUS
  <2>2. Failed(Tried(0), Tried(0))
    OBVIOUS
  <2> HIDE DEF Failed, Tried
  <2> QED BY <1>7, <2>1, <2>2
<1>9. ASSUME NEW e \in Q PROVE e + 1 \in Q
  <2>1. SUFFICES ASSUME e + 1 <= m PROVE Good(e + 1)
    <3> HIDE DEF Good
    <3> QED OBVIOUS
  <2>2. e \in Nat /\ e <= m /\ e + 1 \in 1..m /\ e + 1 \in 0..m /\ (e + 1) - 1 = e
    BY <2>1
  <2>3. Good(e)
    <3> HIDE DEF Good
    <3> QED BY <2>2
  <2>4. PICK c \in Nat : c = Tried(e + 1) /\ c > 2 /\ c % 2 = 1 /\ Tried(e) = c + 2
    BY <1>0, <2>2
  <2> HIDE DEF Failed, Tried
  <2>5. s[e + 1] = Next1(e + 1, s[e])
    BY <1>7, <2>2
  <2>6. CASE Coprime(c, m)
    <3>1. s[e + 1] = c
      BY <2>4, <2>5, <2>6, GcdTellsCoprime DEF Next1
    <3>2. Failed(c, c)
      BY DEF Failed
    <3> QED BY <2>4, <2>6, <3>1, <3>2
  <2>7. CASE ~ Coprime(c, m)
    <3>1. s[e + 1] = s[e]
      BY <2>4, <2>5, <2>7, GcdTellsCoprime DEF Next1
    <3>2. Failed(c, s[e])
      <4>1. SUFFICES ASSUME NEW b \in c..(s[e] - 1), b % 2 = 1 PROVE ~ Coprime(b, m)
        BY DEF Failed
      <4>2. b = c \/ b = c + 1 \/ b \in (c + 2)..(s[e] - 1)
        BY <2>3, <2>4, <4>1
      <4>3. b = c + 1 => b % 2 = 0
        BY <2>4
      <4> QED BY <2>3, <2>4, <2>7, <4>1, <4>2, <4>3 DEF Failed
    <3>3. c <= s[e]
      BY <2>3, <2>4
    <3> QED BY <2>3, <2>4, <3>1, <3>2, <3>3
  <2> QED BY <2>6, <2>7
<1>10. Good(m)
  <2>1. Q \in SUBSET Nat
    OBVIOUS
  <2>2. Q = Nat
    <3> HIDE DEF Q
    <3> QED BY <1>8, <1>9, <2>1, Inductive
  <2> HIDE DEF Good
  <2> QED BY <2>2
<1> DEFINE Before(v) == \A b \in 3..(v - 1) : b % 2 = 1 => ~ Coprime(b, m)
<1>11. /\ s[m] \in Nat /\ s[m] > 2 /\ s[m] % 2 = 1 /\ Before(s[m])
       /\ Coprime(s[m], m) \/ s[m] = 3 + 2 * m
  <2>1. Tried(m) = 3
    OBVIOUS
  <2> HIDE DEF Tried
  <2> QED BY <1>10, <2>1
<1>12. PICK a \in Nat : a = Alpha(m) /\ a = s[m] /\ a > 2
  BY <1>6, <1>11
<1>13. PICK w \in {m + 1, m + 2} : w % 2 = 1 /\ Coprime(w, m)
  BY OddCoprime
<1>14. a <= w
  <2>1. SUFFICES ASSUME w < a PROVE FALSE
    OBVIOUS
  <2>2. w \in 3..(a - 1)
    BY <2>1
  <2>3. Before(a)
    <3> HIDE DEF Before
    <3> QED BY <1>11, <1>12
  <2> QED BY <1>13, <2>2, <2>3
<1>15. FirstCoprime(a, m)
  <2>1. Before(a) /\ a % 2 = 1
    <3> HIDE DEF Before
    <3> QED BY <1>11, <1>12
  <2>2. Coprime(a, m)
    <3>1. a # 3 + 2 * m
      BY <1>14
    <3> HIDE DEF Before
    <3> QED BY <1>11, <1>12, <3>1
  <2> QED BY <1>12, <2>1, <2>2 DEF FirstCoprime
<1>16. RefAlpha(m) = a
  <2>1. RefAlpha(m) = CHOOSE v \in 3..(m + 3) : FirstCoprime(v, m)
    BY DEF RefAlpha, FirstCoprime
  <2>2. a \in 3..(m + 3)
    BY <1>12, <1>14
  <2>3. ASSUME NEW v \in 3..(m + 3), FirstCoprime(v, m) PROVE v = a
    <3>1. v < a => v \in 3..(a - 1)
      OBVIOUS
    <3>2. a < v => a \in 3..(v - 1)
      BY <1>12
    <3>3. v \in Nat
      OBVIOUS
    <3> QED BY <1>15, <2>3, <3>1, <3>2, <3>3 DEF FirstCoprime
  <2> QED BY <1>15, <2>1, <2>2, <2>3
<1> QED BY <1>12, <1>14, <1>15, <1>16 DEF FirstCoprime

(* What PermNext reports of the search.                                     *)
LEMMA ExponentsInvert ==
  ASSUME NEW m \in Nat, m > 2, m < Word
  PROVE  /\ Alpha(m) \in 3..(m + 2) /\ AlphaInv(m) \in 0..(m - 1)
         /\ Alpha(m) = RefAlpha(m) /\ (Alpha(m) * AlphaInv(m)) % m = 1
<1>1. PICK a \in Nat : a = Alpha(m) /\ a \in 3..(m + 2) /\ Coprime(a, m) /\ a > 0
  BY AlphaIs
<1>2. PICK b \in 0..(m - 1) : b = AlphaInv(m) /\ Same(a * b, 1, m)
  <2>1. m > 1
    OBVIOUS
  <2> QED BY <1>1, <2>1, ModInvIs DEF AlphaInv
<1>3. PICK p \in Int : p = a * b
  BY <1>1, <1>2
<1>4. p % m = 1 % m
  <2>1. m > 0 /\ 1 \in Int
    OBVIOUS
  <2> QED BY <1>2, <1>3, <2>1, SameIsResidue
<1>5. 1 % m = 1
  BY ResidueIsIdempotent
<1> QED BY <1>1, <1>2, <1>3, <1>4, <1>5, AlphaIs

-----------------------------------------------------------------------------
(* Powers and their roots.                                                  *)

(* Facts about Elements, the numbers a state consists of.                   *)
LEMMA ElementsOfState ==
  /\ FR_MODULUS \in Nat /\ FR_MODULUS > 7 /\ FR_MODULUS > 0 /\ FR_MODULUS \in Moduli
  /\ Elements = F /\ Elements = 0..(FR_MODULUS - 1)
  /\ \A v \in Elements : v \in Int /\ v \in Nat /\ v \in U256 /\ v < FR_MODULUS
  /\ \A v, w \in Elements : Same(v, w, FR_MODULUS) => v = w
<1>1. FR_MODULUS \in Nat /\ FR_MODULUS > 7 /\ FR_MODULUS \in Moduli
  BY ElementFacts, SboxAssumption
<1>2. Elements = F /\ Elements = 0..(FR_MODULUS - 1)
  BY DEF Elements, F
<1>3. ASSUME NEW v \in Elements, NEW w \in Elements, Same(v, w, FR_MODULUS) PROVE v = w
  <2>1. FR_MODULUS > 0 /\ v \in Int /\ w \in Int
    BY <1>1, <1>2
  <2>2. v % FR_MODULUS = w % FR_MODULUS
    BY <1>1, <1>3, <2>1, SameIsResidue
  <2> QED BY <1>2, <2>2, ElementFacts
<1> QED BY <1>1, <1>2, <1>3, ElementFacts

(* The residue of a number is the element that is congruent to it.          *)
LEMMA ResidueOf ==
  ASSUME NEW v \in Int, NEW r \in Elements, Same(r, v, FR_MODULUS)
  PROVE  v % FR_MODULUS = r
<1>1. FR_MODULUS \in Nat /\ FR_MODULUS > 0 /\ r \in Int
  BY ElementsOfState
<1>2. r % FR_MODULUS = v % FR_MODULUS
  BY <1>1, SameIsResidue
<1> QED BY <1>2, ElementsOfState, ElementFacts

LEMMA PowerRaises ==
  ASSUME NEW v \in Elements, NEW e \in Nat
  PROVE  Power(v, e) \in Elements /\ Same(Power(v, e), Raised(v, e), FR_MODULUS)
<1> DEFINE g == [k \in 0..e |-> Raised(v, k) % FR_MODULUS]
           Step(f, k) == IF k = 0 THEN 1 ELSE (f[k - 1] * v) % FR_MODULUS
           s == CHOOSE s : s = [k \in 0..e |-> Step(s, k)]
           Right(r, k) == r \in Elements /\ Same(r, Raised(v, k), FR_MODULUS)
<1>1. /\ v \in Int /\ FR_MODULUS \in Nat /\ FR_MODULUS > 0
      /\ Raised(v, 0) = 1 /\ 1 \in Elements /\ Same(1, 1, FR_MODULUS)
  <2>1. v \in Int /\ FR_MODULUS \in Nat /\ FR_MODULUS > 0 /\ 1 \in Elements
    BY ElementsOfState, ElementFacts
  <2> QED BY <2>1, RaisedStep, SameChain
<1>2. ASSUME NEW k \in 1..e, NEW r, Right(r, k - 1)
      PROVE  Right((r * v) % FR_MODULUS, k)
  <2>1. PICK d \in Nat : d = k - 1 /\ k = d + 1
    OBVIOUS
  <2>2. PICK p \in Int : p = Raised(v, d) /\ Raised(v, k) = p * v
    BY <1>1, <2>1, RaisedStep
  <2>3. r \in Int /\ Same(r, p, FR_MODULUS)
    BY <1>2, <2>1, <2>2, ElementsOfState
  <2>4. PICK w \in Int, u \in Int : w = r * v /\ u = p * v
    BY <1>1, <2>3
  <2>5. Same(w, u, FR_MODULUS)
    BY <1>1, <2>3, <2>4, SameTimes
  <2>6. PICK o : o = w % FR_MODULUS
    OBVIOUS
  <2>7. o \in Elements /\ o \in Int /\ Same(o, w, FR_MODULUS)
    BY <1>1, <2>6, SameAsResidue DEF Elements
  <2>8. Same(o, u, FR_MODULUS)
    BY <1>1, <2>5, <2>7, SameChain
  <2> QED BY <2>2, <2>4, <2>6, <2>7, <2>8
<1>3. ASSUME NEW k \in 0..e PROVE Right(g[k], k)
  <2>1. PICK w \in Int : w = Raised(v, k)
    BY <1>1, RaisedStep
  <2>2. PICK o : o = w % FR_MODULUS
    OBVIOUS
  <2>3. o \in Elements /\ Same(o, w, FR_MODULUS)
    BY <1>1, <2>2, SameAsResidue DEF Elements
  <2> QED BY <2>1, <2>2, <2>3
<1>4. g = [k \in 0..e |-> Step(g, k)]
  <2>1. ASSUME NEW k \in 0..e PROVE g[k] = Step(g, k)
    <3>1. PICK r, o : r = Step(g, k) /\ o = g[k]
      <4> HIDE DEF g, Step
      <4> QED OBVIOUS
    <3>2. Right(r, k)
      <4>1. CASE k = 0
        BY <1>1, <3>1, <4>1
      <4>2. CASE k # 0
        <5>1. k \in 1..e /\ k - 1 \in 0..e
          BY <4>2
        <5>2. Right(g[k - 1], k - 1)
          <6> HIDE DEF g, Right
          <6> QED BY <1>3, <5>1
        <5>3. r = (g[k - 1] * v) % FR_MODULUS
          BY <3>1, <4>2
        <5> HIDE DEF g, Right
        <5> QED BY <1>2, <5>1, <5>2, <5>3
      <4> QED BY <4>1, <4>2
    <3>3. Right(o, k)
      <4> HIDE DEF g, Right
      <4> QED BY <1>3, <3>1
    <3>4. Raised(v, k) \in Int
      BY <1>1, RaisedStep
    <3>5. r = o
      <4>1. PICK w \in Int : w = Raised(v, k)
        BY <3>4
      <4>2. r \in Elements /\ Same(r, w, FR_MODULUS) /\ o \in Elements /\ Same(o, w, FR_MODULUS)
        BY <3>2, <3>3, <4>1
      <4> QED BY <4>2, ResidueOf
    <3> HIDE DEF g, Step
    <3> QED BY <3>1, <3>5
  <2>2. g = [k \in 0..e |-> g[k]]
    OBVIOUS
  <2> HIDE DEF g, Step
  <2> QED BY <2>1, <2>2
<1>5. s = [k \in 0..e |-> Step(s, k)]
  <2> HIDE DEF Step, g
  <2> QED BY <1>4
<1>6. Power(v, e) = s[e]
  BY DEF Power
<1> HIDE DEF s
<1>7. \A k \in 0..e : s[k] = Step(s, k)
  <2> HIDE DEF Step
  <2> QED BY <1>5
<1> DEFINE Q == {k \in Nat : k <= e => Right(s[k], k)}
<1>8. 0 \in Q
  <2>1. s[0] = 1
    BY <1>7
  <2> QED BY <1>1, <2>1
<1>9. ASSUME NEW k \in Q PROVE k + 1 \in Q
  <2>1. SUFFICES ASSUME k + 1 <= e PROVE Right(s[k + 1], k + 1)
    <3> HIDE DEF Right
    <3> QED OBVIOUS
  <2>2. k \in Nat /\ k + 1 \in 1..e /\ (k + 1) - 1 = k
    BY <2>1
  <2>3. Right(s[k], k)
    <3> HIDE DEF Right
    <3> QED BY <2>1, <2>2
  <2>4. s[k + 1] = (s[k] * v) % FR_MODULUS
    BY <1>7, <2>2
  <2> HIDE DEF Right
  <2>5. PICK j \in 1..e : j = k + 1 /\ j - 1 = k
    BY <2>2
  <2> QED BY <1>2, <2>3, <2>4, <2>5
<1>10. Right(s[e], e)
  <2>1. Q \in SUBSET Nat
    OBVIOUS
  <2>2. Q = Nat
    <3> HIDE DEF Q
    <3> QED BY <1>8, <1>9, <2>1, Inductive
  <2> HIDE DEF Right
  <2> QED BY <2>2
<1> QED BY <1>6, <1>10

(* pow_mod computes it.                                                     *)
LEMMA PowModIs ==
  ASSUME NEW v \in Elements, NEW e \in U256
  PROVE  PowMod(v, e, FR_MODULUS) = Power(v, e)
<1>1. e \in Nat /\ v \in F /\ v \in Int
  BY ElementsOfState, WordFacts DEF U256
<1>2. PICK p, q, w : /\ p = PowMod(v, e, FR_MODULUS) /\ q = Power(v, e) /\ w = Raised(v, e)
                     /\ p \in Elements /\ q \in Elements /\ w \in Int
                     /\ Same(p, w, FR_MODULUS) /\ Same(q, w, FR_MODULUS)
  BY <1>1, PowerIsRaised, PowerRaises, RaisedStep, ElementsOfState
<1>3. p = q
  BY <1>2, ResidueOf
<1> QED BY <1>2, <1>3

LEMMA RaisedOne ==
  ASSUME NEW e \in Nat
  PROVE  Raised(1, e) = 1
<1> DEFINE Q == {k \in Nat : Raised(1, k) = 1}
<1>1. 0 \in Q
  BY RaisedStep
<1>2. ASSUME NEW k \in Q PROVE k + 1 \in Q
  <2>1. k \in Nat /\ k + 1 \in Nat /\ Raised(1, k) = 1
    OBVIOUS
  <2>2. Raised(1, k + 1) = Raised(1, k) * 1
    BY <2>1, RaisedStep
  <2> QED BY <2>1, <2>2
<1>3. Q = Nat
  <2>1. Q \in SUBSET Nat
    OBVIOUS
  <2> HIDE DEF Q
  <2> QED BY <1>1, <1>2, <2>1, Inductive
<1> QED BY <1>3

(* The prime minus one is a period of the exponent.                         *)
LEMMA RaisedPeriod ==
  ASSUME NEW v \in Elements, NEW e \in Nat, e > 0, e % (FR_MODULUS - 1) = 1
  PROVE  Same(Raised(v, e), v, FR_MODULUS)
<1>1. PICK n \in Nat : n = FR_MODULUS - 1 /\ n > 6 /\ n \in U256
  BY ElementsOfState, WordFacts DEF U256
<1>2. PICK c \in Nat : e = n * c + 1
  <2>1. e \in Int /\ n > 0
    BY <1>1
  <2>2. PICK c \in Int : c = e \div n /\ e = n * c + (e % n)
    BY <2>1, DivMod
  <2>3. e = n * c + 1
    BY <1>1, <2>2
  <2>4. c < 0 => n * c < 0
    BY <1>1, Z3
  <2>5. c >= 0
    BY <2>3, <2>4
  <2> QED BY <2>3, <2>5
<1>3. v \in Int /\ v \in Nat /\ FR_MODULUS \in Nat
  BY ElementsOfState
<1>4. CASE v = 0
  <2>1. PICK d \in Nat : d + 1 = e
    BY <1>2
  <2>2. Raised(v, e) = Raised(v, d) * v /\ Raised(v, d) \in Int
    BY <1>3, <2>1, RaisedStep
  <2>3. Raised(v, e) = 0
    BY <1>4, <2>2
  <2> QED BY <1>3, <1>4, <2>3, SameChain
<1>5. CASE v # 0
  <2>1. Same(Raised(v, n), 1, FR_MODULUS)
    <3>1. v \in 1..(FR_MODULUS - 1)
      BY <1>5, ElementsOfState
    <3>2. PowerOf(v, FR_MODULUS)[n] = 1
      BY <1>1, <3>1, PrimeAssumption, ElementsOfState
    <3>3. n < Word
      BY <1>1, WordFacts DEF U256
    <3>4. PowMod(v, n, FR_MODULUS) = 1
      BY <1>1, <1>3, <3>2, <3>3, PowModIsPower, ElementsOfState
    <3>5. PICK w \in Int : w = Raised(v, n) /\ Same(1, w, FR_MODULUS)
      BY <1>1, <1>3, <3>4, PowerIsRaised, RaisedStep, ElementsOfState
    <3> QED BY <1>3, <3>5, SameChain
  <2>2. PICK p \in Int, q \in Int : p = Raised(v, n) /\ q = Raised(p, c)
    BY <1>1, <1>3, RaisedStep
  <2>3. q = Raised(v, n * c)
    BY <1>1, <1>2, <1>3, <2>2, RaisedTwice
  <2>4. Same(q, 1, FR_MODULUS)
    <3>1. Same(q, Raised(1, c), FR_MODULUS)
      <4>1. 1 \in Int /\ Same(p, 1, FR_MODULUS)
        BY <2>1, <2>2
      <4> QED BY <1>2, <1>3, <2>2, <4>1, RaisedOfSame
    <3>2. Raised(1, c) = 1
      BY RaisedOne
    <3> QED BY <3>1, <3>2
  <2>5. Raised(v, e) = q * v
    <3>1. n * c \in Nat
      BY <1>1, <1>2
    <3>2. PICK nc \in Nat : nc = n * c
      BY <3>1
    <3> QED BY <1>2, <1>3, <2>3, <3>2, RaisedStep
  <2>6. Same(q * v, v, FR_MODULUS)
    <3>1. 1 \in Int
      OBVIOUS
    <3>2. Same(q * v, 1 * v, FR_MODULUS)
      BY <1>3, <2>2, <2>4, <3>1, SameTimes
    <3>3. 1 * v = v
      BY <1>3
    <3> QED BY <3>2, <3>3
  <2> QED BY <2>5, <2>6
<1> QED BY <1>4, <1>5

(* Exponents with a product of one undo one another.                        *)
LEMMA PowerBack ==
  ASSUME NEW v \in Elements, NEW e \in Nat, NEW d \in Nat, (e * d) % (FR_MODULUS - 1) = 1
  PROVE  Power(Power(v, e), d) = v
<1>1. PICK c \in Nat : c = e * d
  OBVIOUS
<1>2. c > 0
  <2>1. PICK n \in Nat : n = FR_MODULUS - 1 /\ n > 0
    BY ElementsOfState
  <2>2. 0 % n = 0
    BY <2>1, ResidueIsIdempotent
  <2> QED BY <1>1, <2>1, <2>2
<1>3. v \in Int /\ FR_MODULUS \in Nat
  BY ElementsOfState
<1>4. PICK p, q : /\ p = Power(v, e) /\ q = Power(p, d) /\ p \in Elements /\ q \in Elements
                  /\ Same(p, Raised(v, e), FR_MODULUS) /\ Same(q, Raised(p, d), FR_MODULUS)
  BY PowerRaises
<1>5. PICK a \in Int, b \in Int, h \in Int :
         a = Raised(v, e) /\ b = Raised(p, d) /\ h = Raised(v, c)
  <2>1. p \in Int
    BY <1>4, ElementsOfState
  <2> QED BY <1>3, <2>1, RaisedStep
<1>6. p \in Int /\ q \in Int
  BY <1>4, ElementsOfState
<1>7. Same(b, h, FR_MODULUS)
  <2>1. Same(b, Raised(a, d), FR_MODULUS)
    BY <1>3, <1>4, <1>5, <1>6, RaisedOfSame
  <2>2. Raised(a, d) = h
    BY <1>1, <1>3, <1>5, RaisedTwice
  <2> QED BY <2>1, <2>2
<1>8. Same(h, v, FR_MODULUS)
  BY <1>1, <1>2, <1>5, RaisedPeriod
<1>9. Same(q, v, FR_MODULUS)
  <2>1. Same(q, b, FR_MODULUS)
    BY <1>4, <1>5
  <2>2. Same(q, h, FR_MODULUS)
    BY <1>3, <1>5, <1>6, <1>7, <2>1, SameChain
  <2> QED BY <1>3, <1>5, <1>6, <1>8, <2>2, SameChain
<1> QED BY <1>4, <1>9, ElementsOfState

(* The choice of a root is the only one.                                    *)
LEMMA FifthRootIs ==
  ASSUME NEW v \in Elements
  PROVE  FifthRoot[Power(v, 5)] = v
<1>1. PICK e \in Nat : (5 * e) % (FR_MODULUS - 1) = 1
  BY SboxAssumption
<1>2. PICK p \in Elements : p = Power(v, 5)
  BY PowerRaises
<1>3. ASSUME NEW w \in Elements, Power(w, 5) = p PROVE w = v
  <2>1. Power(Power(w, 5), e) = w /\ Power(Power(v, 5), e) = v
    BY <1>1, PowerBack
  <2> QED BY <1>2, <1>3, <2>1
<1>4. FifthRoot[p] = CHOOSE w \in Elements : Power(w, 5) = p
  BY DEF FifthRoot
<1> QED BY <1>2, <1>3, <1>4

(* The exponents of the two kinds of round of Rescue-Prime.                 *)
LEMMA RescueExponents ==
  /\ Exponents.forward \in Nat /\ Exponents.forward \in U256
  /\ Exponents.back \in Nat /\ Exponents.back \in U256
  /\ Exponents.forward = RefAlpha(FR_MODULUS - 1)
  /\ (Exponents.forward * Exponents.back) % (FR_MODULUS - 1) = 1
  /\ (Exponents.back * Exponents.forward) % (FR_MODULUS - 1) = 1
<1>1. PICK m \in Nat : m = FR_MODULUS - 1 /\ m > 2 /\ m < Word /\ m + 2 < Word
  <2>1. 2 * FR_MODULUS < Word /\ Word \in Nat
    BY ElementsOfState, WordFacts
  <2> QED BY <2>1, ElementsOfState
<1>2. /\ Alpha(m) \in 3..(m + 2) /\ AlphaInv(m) \in 0..(m - 1)
      /\ Alpha(m) = RefAlpha(m) /\ (Alpha(m) * AlphaInv(m)) % m = 1
  BY <1>1, ExponentsInvert
<1>3. PICK a \in Nat, b \in Nat : a = Alpha(m) /\ b = AlphaInv(m) /\ a <= m + 2 /\ b < m
  BY <1>2
<1>4. a \in U256 /\ b \in U256
  BY <1>1, <1>3, WordFacts DEF U256
<1>5. a * b = b * a
  BY Z3
<1> QED BY <1>1, <1>2, <1>3, <1>4, <1>5 DEF Exponents

LEMMA RootsAre ==
  ASSUME NEW v \in Elements
  PROVE  /\ Power(v, Exponents.forward) \in Elements /\ Power(v, Exponents.back) \in Elements
         /\ Root[Power(v, Exponents.forward)] = v
         /\ AlphaPower[Power(v, Exponents.back)] = v
<1>1. PICK a \in Nat, b \in Nat :
         /\ a = Exponents.forward /\ b = Exponents.back /\ a = RefAlpha(FR_MODULUS - 1)
         /\ (a * b) % (FR_MODULUS - 1) = 1 /\ (b * a) % (FR_MODULUS - 1) = 1
  BY RescueExponents
<1>2. \A w \in Elements : AlphaPower[w] = Power(w, a)
  BY <1>1 DEF AlphaPower
<1>3. PICK p \in Elements, q \in Elements : p = Power(v, a) /\ q = Power(v, b)
  BY PowerRaises
<1>4. ASSUME NEW w \in Elements, AlphaPower[w] = p PROVE w = v
  <2>1. Power(Power(w, a), b) = w /\ Power(Power(v, a), b) = v
    BY <1>1, PowerBack
  <2> QED BY <1>2, <1>3, <1>4, <2>1
<1>5. Root[p] = CHOOSE w \in Elements : AlphaPower[w] = p
  BY DEF Root
<1>6. Root[p] = v
  BY <1>2, <1>3, <1>4, <1>5
<1>7. AlphaPower[q] = v
  <2>1. Power(Power(v, b), a) = v
    BY <1>1, PowerBack
  <2> QED BY <1>2, <1>3, <2>1
<1> QED BY <1>1, <1>3, <1>6, <1>7

-----------------------------------------------------------------------------
(* The layers of Poseidon2.                                                 *)

LEMMA StateArithmetic ==
  /\ \A v, w \in Elements : /\ AddFr(v, w) \in Elements /\ Same(AddFr(v, w), v + w, FR_MODULUS)
                            /\ SubFr(v, w) \in Elements /\ Same(SubFr(v, w), v - w, FR_MODULUS)
                            /\ MulFr(v, w) \in Elements /\ Same(MulFr(v, w), v * w, FR_MODULUS)
<1>1. Elements = F /\ \A v \in F : v \in Int
  BY ElementsOfState
<1>2. \A v, w \in F : AddFr(v, w) \in F /\ Same(AddFr(v, w), v + w, FR_MODULUS)
  BY FAddIs DEF AddFr, FAdd
<1>3. \A v, w \in F : SubFr(v, w) \in F /\ Same(SubFr(v, w), v - w, FR_MODULUS)
  BY FSubIs DEF SubFr, FSub
<1>4. \A v, w \in F : MulFr(v, w) \in F /\ Same(MulFr(v, w), v * w, FR_MODULUS)
  BY <1>1, FMulIs DEF MulFr, FMul
<1> QED BY <1>1, <1>2, <1>3, <1>4

(* A state has three elements.                                              *)
LEMMA StateFacts ==
  ASSUME NEW s \in State
  PROVE  /\ s[1] \in Elements /\ s[2] \in Elements /\ s[3] \in Elements
         /\ \A k \in 1..T : k \in {1, 2, 3} /\ s[k] \in Elements
BY DEF State, T, Elements

(* sbox raises to the fifth power.                                          *)
LEMMA SboxIs ==
  ASSUME NEW v \in Elements
  PROVE  Sbox(v) \in Elements /\ Sbox(v) = Power(v, 5)
<1>1. v \in Int /\ FR_MODULUS \in Nat
  BY ElementsOfState
<1>2. PICK a, b, o : a = MulFr(v, v) /\ b = MulFr(a, a) /\ o = MulFr(b, v)
  OBVIOUS
<1>3. /\ a \in Elements /\ a \in Int /\ Same(a, v * v, FR_MODULUS)
      /\ b \in Elements /\ b \in Int /\ Same(b, a * a, FR_MODULUS)
      /\ o \in Elements /\ o \in Int /\ Same(o, b * v, FR_MODULUS)
  BY <1>2, StateArithmetic, ElementsOfState
<1>4. Sbox(v) = o
  BY <1>2 DEF Sbox
<1>5. PICK p \in Int, q \in Int, r \in Int, h \in Int :
         /\ p = v * v /\ q = p * p /\ h = a * a /\ r = b * v
  BY <1>1, <1>3
<1>6. Same(h, q, FR_MODULUS)
  BY <1>1, <1>3, <1>5, SameProduct
<1>7. Same(b, q, FR_MODULUS)
  BY <1>1, <1>3, <1>5, <1>6, SameChain
<1>8. PICK w \in Int : w = q * v
  BY <1>1, <1>5
<1>9. Same(r, w, FR_MODULUS)
  BY <1>1, <1>3, <1>5, <1>7, <1>8, SameTimes
<1>10. Same(o, w, FR_MODULUS)
  BY <1>1, <1>3, <1>5, <1>8, <1>9, SameChain
<1>11. Raised(v, 5) = w
  <2>1. Raised(v, 1) = v
    <3>1. Raised(v, 0) = 1 /\ Raised(v, 0 + 1) = Raised(v, 0) * v /\ 0 + 1 = 1
      BY <1>1, RaisedStep
    <3> QED BY <1>1, <3>1
  <2>2. Raised(v, 2) = p
    <3>1. Raised(v, 1 + 1) = Raised(v, 1) * v /\ 1 + 1 = 2
      BY <1>1, RaisedStep
    <3> QED BY <1>5, <2>1, <3>1
  <2>3. Raised(v, 4) = q
    <3>1. Raised(v, 2 + 2) = Raised(v, 2) * Raised(v, 2) /\ 2 + 2 = 4
      BY <1>1, RaisedSum
    <3> QED BY <1>5, <2>2, <3>1
  <2>4. Raised(v, 4 + 1) = Raised(v, 4) * v /\ 4 + 1 = 5
    BY <1>1, RaisedStep
  <2> QED BY <1>8, <2>3, <2>4
<1>12. PICK e : e = Power(v, 5) /\ e \in Elements /\ e \in Int /\ Same(e, w, FR_MODULUS)
  <2>1. Power(v, 5) \in Elements /\ Same(Power(v, 5), Raised(v, 5), FR_MODULUS)
    BY PowerRaises
  <2> QED BY <1>11, <2>1, ElementsOfState
<1>13. e = o
  <2>1. w % FR_MODULUS = e /\ w % FR_MODULUS = o
    BY <1>3, <1>8, <1>10, <1>12, ResidueOf
  <2> QED BY <2>1
<1> QED BY <1>3, <1>4, <1>12, <1>13

(* Reciprocals of small numbers.                                            *)
LEMMA ReciprocalIs ==
  ASSUME NEW v \in Elements, v # 0
  PROVE  Reciprocal(v) \in Elements /\ Same(v * Reciprocal(v), 1, FR_MODULUS)
<1>1. PICK w \in Elements : Same(v * w, 1, FR_MODULUS)
  BY InverseIs, ElementsOfState
<1>2. \A u \in Elements : (v * u) % FR_MODULUS = 1 <=> Same(v * u, 1, FR_MODULUS)
  <2>1. SUFFICES ASSUME NEW u \in Elements
                 PROVE  (v * u) % FR_MODULUS = 1 <=> Same(v * u, 1, FR_MODULUS)
    OBVIOUS
  <2>2. PICK p \in Int : p = v * u
    BY ElementsOfState
  <2>3. FR_MODULUS \in Nat /\ FR_MODULUS > 0 /\ 1 \in Int /\ 1 % FR_MODULUS = 1
    BY ElementsOfState, ElementFacts
  <2>4. Same(p, 1, FR_MODULUS) <=> p % FR_MODULUS = 1 % FR_MODULUS
    BY <2>3, SameIsResidue
  <2> QED BY <2>2, <2>3, <2>4
<1>3. Reciprocal(v) \in Elements /\ (v * Reciprocal(v)) % FR_MODULUS = 1
  BY <1>1, <1>2 DEF Reciprocal
<1> QED BY <1>2, <1>3

(* The matrix and its inverse.                                              *)
LEMMA MdsBack ==
  ASSUME NEW s \in State
  PROVE  Mds(s) \in State /\ UnMds(Mds(s)) = s
<1>1. PICK a \in Elements, b \in Elements, c \in Elements : a = s[1] /\ b = s[2] /\ c = s[3]
  BY StateFacts
<1>2. \A v \in Elements : v \in Int
  BY ElementsOfState
<1>3. FR_MODULUS \in Nat
  BY ElementsOfState
<1>4. PICK ab \in Elements, g \in Elements, gg \in Elements :
         /\ ab = AddFr(a, b) /\ g = AddFr(ab, c) /\ gg = AddFr(g, g)
         /\ Same(ab, a + b, FR_MODULUS) /\ Same(g, ab + c, FR_MODULUS)
         /\ Same(gg, g + g, FR_MODULUS)
  BY StateArithmetic
<1>5. PICK z \in Int : z = a + b + c
  BY <1>2
<1>6. PICK k1 \in Int, k2 \in Int, k3 \in Int :
         /\ ab = a + b + FR_MODULUS * k1 /\ g = ab + c + FR_MODULUS * k2
         /\ gg = g + g + FR_MODULUS * k3
  BY <1>4 DEF Same
<1>7. PICK kg \in Int : kg = 2 * k1 + 2 * k2 + k3
  OBVIOUS
<1>8. gg = 2 * z + FR_MODULUS * kg
  <2>1. FR_MODULUS * (2 * k1 + 2 * k2 + k3)
          = 2 * (FR_MODULUS * k1) + 2 * (FR_MODULUS * k2) + FR_MODULUS * k3
    BY <1>3, Z3
  <2>2. PICK p1 \in Int, p2 \in Int, p3 \in Int :
           p1 = FR_MODULUS * k1 /\ p2 = FR_MODULUS * k2 /\ p3 = FR_MODULUS * k3
    BY <1>3
  <2> QED BY <1>2, <1>5, <1>6, <1>7, <2>1, <2>2
<1> DEFINE m == Mds(s)
<1>9. m = [k \in 1..T |-> AddFr(s[k], gg)]
  BY <1>1, <1>4 DEF Mds
<1>10. m \in State
  <2>1. State = [1..T -> Elements]
    BY DEF State, Elements
  <2>2. \A k \in 1..T : AddFr(s[k], gg) \in Elements
    BY StateFacts, StateArithmetic
  <2> HIDE DEF m
  <2> QED BY <1>9, <2>1, <2>2
<1>11. ASSUME NEW k \in 1..T
       PROVE  \E j \in Int : m[k] = s[k] + 2 * z + FR_MODULUS * j
  <2>1. PICK v \in Elements, w \in Elements : v = s[k] /\ w = AddFr(v, gg) /\ w = m[k]
    BY <1>9, StateFacts, StateArithmetic
  <2>2. PICK j \in Int : w = v + gg + FR_MODULUS * j
    <3>1. Same(w, v + gg, FR_MODULUS)
      BY <2>1, StateArithmetic
    <3> QED BY <3>1 DEF Same
  <2>3. FR_MODULUS * (kg + j) = FR_MODULUS * kg + FR_MODULUS * j /\ kg + j \in Int
    BY <1>3, Z3
  <2>4. PICK p1 \in Int, p2 \in Int : p1 = FR_MODULUS * kg /\ p2 = FR_MODULUS * j
    BY <1>3
  <2>5. w = v + 2 * z + FR_MODULUS * (kg + j)
    BY <1>2, <1>8, <2>2, <2>3, <2>4
  <2> QED BY <2>1, <2>3, <2>5
<1>12. PICK j1 \in Int, j2 \in Int, j3 \in Int :
          /\ m[1] = a + 2 * z + FR_MODULUS * j1 /\ m[2] = b + 2 * z + FR_MODULUS * j2
          /\ m[3] = c + 2 * z + FR_MODULUS * j3
  BY <1>1, <1>11 DEF T
<1>13. PICK h \in Int : h = j1 + j2 + j3
  OBVIOUS
<1>14. m[1] + m[2] + m[3] = 7 * z + FR_MODULUS * h
  <2>1. FR_MODULUS * (j1 + j2 + j3) = FR_MODULUS * j1 + FR_MODULUS * j2 + FR_MODULUS * j3
    BY <1>3, Z3
  <2>2. PICK p1 \in Int, p2 \in Int, p3 \in Int :
           p1 = FR_MODULUS * j1 /\ p2 = FR_MODULUS * j2 /\ p3 = FR_MODULUS * j3
    BY <1>3
  <2> HIDE DEF m
  <2> QED BY <1>2, <1>5, <1>12, <1>13, <2>1, <2>2
<1>15. PICK q \in Elements, n \in Int : q = Reciprocal(7) /\ 7 * q = 1 + FR_MODULUS * n
  <2>1. 7 \in Elements /\ 7 # 0
    BY ElementsOfState
  <2>2. Reciprocal(7) \in Elements /\ Same(7 * Reciprocal(7), 1, FR_MODULUS)
    BY <2>1, ReciprocalIs
  <2> QED BY <2>2 DEF Same
<1>16. PICK d \in Int : d = m[1] + m[2] + m[3] /\ d = 7 * z + FR_MODULUS * h
  <2>1. PICK d \in Int : d = 7 * z + FR_MODULUS * h
    BY <1>3
  <2> HIDE DEF m
  <2> QED BY <1>14, <2>1
<1>17. 2 * q * d = 2 * z + FR_MODULUS * (2 * z * n + 2 * q * h)
  <2>1. q \in Int
    BY <1>2
  <2>2. 2 * q * d = 2 * (z * (7 * q)) + FR_MODULUS * (2 * q * h)
    <3>1. 2 * q * (7 * z + FR_MODULUS * h) = 2 * (z * (7 * q)) + FR_MODULUS * (2 * q * h)
      BY <1>3, <2>1, Z3
    <3> QED BY <1>16, <3>1
  <2>3. z * (1 + FR_MODULUS * n) = z + FR_MODULUS * (z * n)
    BY <1>3, Z3
  <2>4. FR_MODULUS * (2 * z * n + 2 * q * h)
          = 2 * (FR_MODULUS * (z * n)) + FR_MODULUS * (2 * q * h)
    BY <1>3, <2>1, Z3
  <2>5. z * (7 * q) = z + FR_MODULUS * (z * n)
    BY <1>15, <2>3
  <2>6. PICK p1 \in Int, p2 \in Int, p3 \in Int :
           p1 = FR_MODULUS * (z * n) /\ p2 = FR_MODULUS * (2 * q * h) /\ p3 = z * (7 * q)
    BY <1>3, <2>1
  <2> QED BY <2>2, <2>4, <2>5, <2>6
<1>18. ASSUME NEW k \in 1..T PROVE (m[k] - 2 * q * d) % FR_MODULUS = s[k]
  <2>1. PICK j \in Int : m[k] = s[k] + 2 * z + FR_MODULUS * j
    BY <1>11
  <2>2. PICK v \in Elements : v = s[k]
    BY StateFacts
  <2>3. PICK e \in Int : e = 2 * z * n + 2 * q * h
    BY <1>2
  <2>4. PICK w \in Int : w = m[k] - 2 * q * d /\ w = v + FR_MODULUS * (j - e)
    <3>1. FR_MODULUS * (j - e) = FR_MODULUS * j - FR_MODULUS * e /\ j - e \in Int
      BY <1>3, Z3
    <3>2. PICK p1 \in Int, p2 \in Int : p1 = FR_MODULUS * j /\ p2 = FR_MODULUS * e
      BY <1>3
    <3>3. PICK mk \in Int, x1 \in Int : mk = m[k] /\ mk = v + 2 * z + p1
                                        /\ x1 = 2 * q * d /\ x1 = 2 * z + p2
      <4>1. PICK mk \in Int : mk = v + 2 * z + p1
        BY <1>2
      <4>2. PICK x1 \in Int : x1 = 2 * z + p2
        OBVIOUS
      <4> HIDE DEF m
      <4> QED BY <1>17, <2>1, <2>2, <2>3, <3>2, <4>1, <4>2
    <3>4. mk - x1 = v + (p1 - p2)
      BY <1>2, <3>3
    <3>5. PICK w \in Int : w = mk - x1
      OBVIOUS
    <3> HIDE DEF m
    <3> QED BY <1>2, <3>1, <3>2, <3>3, <3>4, <3>5
  <2>5. Same(v, w, FR_MODULUS)
    <3>1. Same(w, v, FR_MODULUS)
      BY <2>4 DEF Same
    <3> QED BY <1>2, <1>3, <2>4, <3>1, SameChain
  <2> HIDE DEF m
  <2> QED BY <2>2, <2>4, <2>5, ResidueOf
<1>19. UnMds(m) = [k \in 1..T |-> (m[k] - 2 * q * d) % FR_MODULUS]
  BY <1>15, <1>16 DEF UnMds
<1>20. s = [k \in 1..T |-> s[k]]
  BY DEF State
<1>21. UnMds(m) = s
  <2> HIDE DEF m
  <2> QED BY <1>18, <1>19, <1>20
<1> QED BY <1>10, <1>21

-----------------------------------------------------------------------------
(* Rounds of Poseidon2, undone one after the other.                         *)

IsFull(k) == k <= FULL_HALF \/ k > FULL_HALF + ROUNDS_P
RoundOf(s, k) == IF k <= FULL_HALF \/ k > FULL_HALF + ROUNDS_P
                 THEN FullRound(s, RC[k]) ELSE PartialRound(s, RC[k])
RoundBack(v, k) ==
    LET u == UnMds(v)
        full == k <= FULL_HALF \/ k > FULL_HALF + ROUNDS_P
    IN  [l \in 1..T |-> IF full \/ l = 1
                        THEN (FifthRoot[u[l]] - RC[k][l]) % FR_MODULUS ELSE u[l]]

LEMMA RowFacts ==
  /\ FULL_HALF \in Nat /\ ROUNDS_P \in Nat /\ Len(RC) \in Nat
  /\ \A k \in 1..Len(RC) : RC[k] \in State
  /\ RESCUE_ROUNDS \in Nat /\ \A k \in 1..RESCUE_ROUNDS : RoundKeys[k] \in State
<1>1. PICK n \in Nat : n = 2 * FULL_HALF + ROUNDS_P
  BY RCAssumption
<1>2. RC \in [1..n -> State]
  BY <1>1, RCAssumption
<1>3. Len(RC) = n
  BY <1>2, VectorLength
<1> QED BY <1>2, <1>3, RCAssumption

(* A key added is taken off again.                                          *)
LEMMA KeyBack ==
  ASSUME NEW v \in Elements, NEW c \in Elements
  PROVE  AddFr(v, c) \in Elements /\ (AddFr(v, c) - c) % FR_MODULUS = v
<1>1. v \in Int /\ c \in Int /\ FR_MODULUS \in Nat
  BY ElementsOfState
<1>2. PICK a \in Elements : a = AddFr(v, c) /\ Same(a, v + c, FR_MODULUS)
  BY StateArithmetic
<1>3. PICK k \in Int : a = v + c + FR_MODULUS * k
  BY <1>2 DEF Same
<1>4. PICK d \in Int : d = a - c /\ d = v + FR_MODULUS * k
  <2>1. PICK p \in Int : p = FR_MODULUS * k
    BY <1>1
  <2>2. PICK d \in Int : d = v + p
    BY <1>1
  <2> QED BY <1>1, <1>3, <2>1, <2>2
<1>5. Same(v, d, FR_MODULUS)
  <2>1. Same(d, v, FR_MODULUS)
    BY <1>4 DEF Same
  <2> QED BY <1>1, <2>1, SameChain
<1> QED BY <1>2, <1>4, <1>5, ResidueOf

(* A round of permute, and the way back.                                    *)
LEMMA RoundIsUndone ==
  ASSUME NEW k \in 1..Len(RC), NEW s \in State
  PROVE  RoundOf(s, k) \in State /\ RoundBack(RoundOf(s, k), k) = s
<1>1. PICK full \in BOOLEAN : full <=> IsFull(k)
  OBVIOUS
<1>2. PICK c \in State : c = RC[k]
  BY RowFacts
<1> DEFINE u == [l \in 1..T |-> IF full \/ l = 1 THEN Sbox(AddFr(s[l], c[l])) ELSE s[l]]
<1>3. 1 \in 1..T /\ State = [1..T -> Elements] /\ \A l \in 1..T : s[l] \in Elements /\ c[l] \in Elements
  BY StateFacts DEF State, T, Elements
<1>4. ASSUME NEW l \in 1..T
      PROVE  /\ u[l] \in Elements
             /\ full \/ l = 1 => (FifthRoot[u[l]] - c[l]) % FR_MODULUS = s[l]
             /\ ~ (full \/ l = 1) => u[l] = s[l]
  <2>1. CASE full \/ l = 1
    <3>1. PICK a \in Elements : a = AddFr(s[l], c[l]) /\ (a - c[l]) % FR_MODULUS = s[l]
      BY <1>3, KeyBack
    <3>2. u[l] = Sbox(a)
      BY <2>1, <3>1
    <3>3. Sbox(a) \in Elements /\ FifthRoot[Sbox(a)] = a
      BY SboxIs, FifthRootIs
    <3> HIDE DEF u
    <3> QED BY <2>1, <3>1, <3>2, <3>3
  <2>2. CASE ~ (full \/ l = 1)
    BY <1>3, <2>2
  <2> QED BY <2>1, <2>2
<1>5. u \in State
  <2>1. u = [l \in 1..T |-> u[l]]
    OBVIOUS
  <2> HIDE DEF u
  <2> QED BY <1>3, <1>4, <2>1
<1>6. RoundOf(s, k) = Mds(u)
  <2>1. CASE full
    <3>1. RoundOf(s, k) = FullRound(s, c)
      BY <1>1, <1>2, <2>1 DEF RoundOf, IsFull
    <3>2. [l \in 1..T |-> Sbox(AddFr(s[l], c[l]))] = u
      BY <2>1
    <3> HIDE DEF u
    <3> QED BY <3>1, <3>2 DEF FullRound
  <2>2. CASE ~ full
    <3>1. RoundOf(s, k) = PartialRound(s, c)
      BY <1>1, <1>2, <2>2 DEF RoundOf, IsFull
    <3>2. [s EXCEPT ![1] = Sbox(AddFr(@, c[1]))] = u
      BY <1>3, <2>2
    <3> HIDE DEF u
    <3> QED BY <3>1, <3>2 DEF PartialRound
  <2> QED BY <2>1, <2>2
<1>7. Mds(u) \in State /\ UnMds(Mds(u)) = u
  BY <1>5, MdsBack
<1>8. RoundBack(Mds(u), k) = s
  <2>1. RoundBack(Mds(u), k)
          = [l \in 1..T |-> IF full \/ l = 1 THEN (FifthRoot[u[l]] - c[l]) % FR_MODULUS ELSE u[l]]
    <3> HIDE DEF u
    <3> QED BY <1>1, <1>2, <1>7 DEF RoundBack, IsFull
  <2>2. s = [l \in 1..T |-> s[l]]
    BY <1>3
  <2> HIDE DEF u
  <2> QED BY <1>4, <2>1, <2>2
<1> QED BY <1>6, <1>7, <1>8

(* A way back that starts where a way ended, ends where it started.         *)
LEMMA WayBack ==
  ASSUME NEW n \in Nat, NEW a, NEW b, b[n + 1] = a[n],
         \A k \in 1..n : b[k + 1] = a[k] => b[k] = a[k - 1]
  PROVE  b[1] = a[0]
<1> DEFINE Q == {j \in Nat : j <= n => b[(n - j) + 1] = a[n - j]}
<1>1. 0 \in Q
  <2>1. n - 0 = n
    OBVIOUS
  <2> QED BY <2>1
<1>2. ASSUME NEW j \in Q PROVE j + 1 \in Q
  <2>1. SUFFICES ASSUME j + 1 <= n PROVE b[(n - (j + 1)) + 1] = a[n - (j + 1)]
    OBVIOUS
  <2>2. PICK k \in 1..n : k = n - j /\ n - (j + 1) = k - 1 /\ (n - (j + 1)) + 1 = k
    BY <2>1
  <2>3. b[k + 1] = a[k]
    BY <2>1, <2>2
  <2> QED BY <2>2, <2>3
<1>3. Q = Nat
  <2>1. Q \in SUBSET Nat
    OBVIOUS
  <2> HIDE DEF Q
  <2> QED BY <1>1, <1>2, <2>1, Inductive
<1>4. n - n = 0 /\ (n - n) + 1 = 1
  OBVIOUS
<1> QED BY <1>3, <1>4

(* permute of poseidon2.rs has an inverse.                                  *)
LEMMA PermuteBack ==
  ASSUME NEW s \in State
  PROVE  Permute(s) \in State /\ Unpermute(Permute(s)) = s
<1> DEFINE n == Len(RC)
           Step(f, k) == IF k = 0 THEN s
                         ELSE IF k <= FULL_HALF \/ k > FULL_HALF + ROUNDS_P
                              THEN FullRound(f[k - 1], RC[k]) ELSE PartialRound(f[k - 1], RC[k])
           G == [k \in 1..n |-> [v \in State |-> RoundOf(v, k)]]
           after == CHOOSE after : after = [k \in 0..n |-> Step(after, k)]
<1>1. n \in Nat
  BY RowFacts
<1>2. G \in [1..n -> [State -> State]]
  BY RoundIsUndone
<1>3. PICK f : Recurs(f, State, s, n, G)
  <2> HIDE DEF G, n
  <2> QED BY <1>1, <1>2, Recursion
<1>4. \A g, k : k # 0 => Step(g, k) = RoundOf(g[k - 1], k)
  BY DEF RoundOf
<1>5. \A g : Step(g, 0) = s
  OBVIOUS
<1>6. f = [k \in 0..n |-> Step(f, k)]
  <2>1. /\ f \in [0..n -> State]
        /\ f[0] = s /\ \A k \in 1..n : f[k] = G[k][f[k - 1]]
    <3> HIDE DEF G, n
    <3> QED BY <1>3 DEF Recurs
  <2>2. ASSUME NEW k \in 0..n PROVE f[k] = Step(f, k)
    <3>1. CASE k = 0
      <4> HIDE DEF Step, G, n
      <4> QED BY <1>5, <2>1, <3>1
    <3>2. CASE k # 0
      <4>1. k \in 1..n /\ k - 1 \in 0..n
        <5> HIDE DEF n
        <5> QED BY <1>1, <3>2
      <4>2. f[k - 1] \in State
        <5> HIDE DEF G, n, Step
        <5> QED BY <2>1, <4>1
      <4>3. G[k][f[k - 1]] = RoundOf(f[k - 1], k)
        <5> HIDE DEF n, Step
        <5> QED BY <4>1, <4>2
      <4> HIDE DEF G, n, Step
      <4> QED BY <1>4, <2>1, <3>2, <4>1, <4>3
    <3> QED BY <3>1, <3>2
  <2> HIDE DEF Step, G, n
  <2> QED BY <2>1, <2>2
<1>7. after = [k \in 0..n |-> Step(after, k)]
  <2> HIDE DEF Step, G, n
  <2> QED BY <1>6
<1>8. Permute(s) = after[n]
  BY DEF Permute
<1> HIDE DEF after
<1>9. after[0] = s /\ \A k \in 1..n : after[k] = RoundOf(after[k - 1], k)
  <2>1. \A k \in 0..n : after[k] = Step(after, k)
    <3> HIDE DEF Step, n
    <3> QED BY <1>7
  <2> HIDE DEF Step, n
  <2>2. 0 \in 0..n /\ \A k \in 1..n : k \in 0..n /\ k # 0
    BY <1>1
  <2> QED BY <1>4, <1>5, <2>1, <2>2
<1> HIDE DEF Step, G
<1>10. \A k \in 0..n : after[k] \in State
  <2> DEFINE Q == {k \in Nat : k <= n => after[k] \in State}
  <2> HIDE DEF n
  <2>1. 0 \in Q
    BY <1>9
  <2>2. ASSUME NEW k \in Q PROVE k + 1 \in Q
    <3>1. SUFFICES ASSUME k + 1 <= n PROVE after[k + 1] \in State
      OBVIOUS
    <3>2. k + 1 \in 1..n /\ (k + 1) - 1 = k /\ after[k] \in State
      BY <1>1, <3>1
    <3>3. after[k + 1] = RoundOf(after[k], k + 1)
      BY <1>9, <3>2
    <3> QED BY <3>2, <3>3, RoundIsUndone DEF n
  <2>3. Q = Nat
    <3>1. Q \in SUBSET Nat
      OBVIOUS
    <3> HIDE DEF Q
    <3> QED BY <2>1, <2>2, <3>1, Inductive
  <2> QED BY <1>1, <2>3
<1>11. ASSUME NEW k \in 1..n PROVE RoundBack(after[k], k) = after[k - 1]
  <2>1. k - 1 \in 0..n /\ after[k - 1] \in State
    <3> HIDE DEF n
    <3> QED BY <1>1, <1>10
  <2> QED BY <1>9, <1>11, <2>1, RoundIsUndone
<1>12. PICK z : z = Permute(s) /\ z = after[n]
  BY <1>8
<1> DEFINE Undo(h, k) == IF k = n + 1 THEN z ELSE RoundBack(h[k + 1], k)
           g == [k \in 1..(n + 1) |-> after[k - 1]]
           before == CHOOSE before : before = [k \in 1..(n + 1) |-> Undo(before, k)]
<1> HIDE DEF n
<1>13. g = [k \in 1..(n + 1) |-> Undo(g, k)]
  <2>1. ASSUME NEW k \in 1..(n + 1) PROVE after[k - 1] = Undo(g, k)
    <3>1. CASE k = n + 1
      <4>1. k - 1 = n
        BY <1>1, <3>1
      <4> QED BY <1>12, <3>1, <4>1
    <3>2. CASE k # n + 1
      <4>1. k \in 1..n /\ k + 1 \in 1..(n + 1) /\ (k + 1) - 1 = k
        BY <1>1, <3>2
      <4>2. g[k + 1] = after[k]
        BY <4>1
      <4> HIDE DEF g
      <4> QED BY <1>11, <3>2, <4>1, <4>2
    <3> QED BY <3>1, <3>2
  <2>2. \A k \in 1..(n + 1) : g[k] = after[k - 1]
    OBVIOUS
  <2> HIDE DEF Undo
  <2> QED BY <2>1, <2>2
<1>14. before = [k \in 1..(n + 1) |-> Undo(before, k)]
  <2> HIDE DEF Undo, g
  <2> QED BY <1>13
<1>15. Unpermute(z) = before[1]
  BY DEF Unpermute, RoundBack, n
<1> HIDE DEF before
<1>16. before[n + 1] = z /\ \A k \in 1..n : before[k] = RoundBack(before[k + 1], k)
  <2>1. \A k \in 1..(n + 1) : before[k] = Undo(before, k)
    <3> HIDE DEF Undo
    <3> QED BY <1>14
  <2>2. n + 1 \in 1..(n + 1) /\ \A k \in 1..n : k \in 1..(n + 1) /\ k # n + 1
    BY <1>1
  <2> QED BY <2>1, <2>2
<1>17. before[1] = after[0]
  <2>1. ASSUME NEW k \in 1..n, before[k + 1] = after[k] PROVE before[k] = after[k - 1]
    BY <1>11, <1>16, <2>1
  <2> QED BY <1>1, <1>12, <1>16, <2>1, WayBack
<1>18. Permute(s) \in State
  <2>1. n \in 0..n
    BY <1>1
  <2> QED BY <1>8, <1>10, <2>1
<1> QED BY <1>9, <1>12, <1>15, <1>17, <1>18

-----------------------------------------------------------------------------
(* The Cauchy matrix of Rescue-Prime and its inverse.                       *)

(* Sums of products of congruent numbers.                                   *)
LEMMA SameMinor ==
  ASSUME NEW m \in Nat,
         NEW a \in Int, NEW b \in Int, NEW c \in Int, NEW d \in Int,
         NEW e \in Int, NEW f \in Int, NEW g \in Int, NEW h \in Int,
         Same(a, e, m), Same(b, f, m), Same(c, g, m), Same(d, h, m)
  PROVE  Same(a * b - c * d, e * f - g * h, m)
<1>1. Same(a * b, e * f, m) /\ Same(c * d, g * h, m)
  BY SameProduct
<1>2. PICK p \in Int, q \in Int, r \in Int, s \in Int :
         p = a * b /\ q = e * f /\ r = c * d /\ s = g * h
  OBVIOUS
<1>3. PICK k \in Int, l \in Int : p = q + m * k /\ r = s + m * l
  BY <1>1, <1>2 DEF Same
<1>4. p - r = (q - s) + m * (k - l)
  <2>1. m * (k - l) = m * k - m * l
    BY Z3
  <2>2. PICK mk \in Int, ml \in Int : mk = m * k /\ ml = m * l
    OBVIOUS
  <2> QED BY <1>3, <2>1, <2>2
<1>5. k - l \in Int
  OBVIOUS
<1>6. Same(p - r, q - s, m)
  BY <1>4, <1>5 DEF Same
<1> QED BY <1>2, <1>6

LEMMA SameDot ==
  ASSUME NEW m \in Nat,
         NEW a \in Int, NEW b \in Int, NEW c \in Int, NEW u \in Int, NEW v \in Int, NEW w \in Int,
         NEW d \in Int, NEW e \in Int, NEW f \in Int, NEW p \in Int, NEW q \in Int, NEW r \in Int,
         Same(a, d, m), Same(b, e, m), Same(c, f, m), Same(u, p, m), Same(v, q, m), Same(w, r, m)
  PROVE  Same(a * u + b * v + c * w, d * p + e * q + f * r, m)
<1>1. Same(a * u, d * p, m) /\ Same(b * v, e * q, m) /\ Same(c * w, f * r, m)
  BY SameProduct
<1>2. PICK a1 \in Int, a2 \in Int, a3 \in Int, b1 \in Int, b2 \in Int, b3 \in Int :
         /\ a1 = a * u /\ a2 = b * v /\ a3 = c * w
         /\ b1 = d * p /\ b2 = e * q /\ b3 = f * r
  OBVIOUS
<1>3. Same(a1 + a2, b1 + b2, m)
  BY <1>1, <1>2, SameSum
<1>4. a1 + a2 \in Int /\ b1 + b2 \in Int
  OBVIOUS
<1>5. Same((a1 + a2) + a3, (b1 + b2) + b3, m)
  BY <1>1, <1>2, <1>3, <1>4, SameSum
<1> QED BY <1>2, <1>5

(* Two inverses of a number are congruent.                                  *)
LEMMA InverseIsUnique ==
  ASSUME NEW m \in Nat, NEW v \in Int, NEW u \in Int, NEW w \in Int,
         Same(v * u, 1, m), Same(v * w, 1, m)
  PROVE  Same(u, w, m)
<1>1. PICK p \in Int, q \in Int : p = v * u /\ q = v * w
  OBVIOUS
<1>2. 1 \in Int
  OBVIOUS
<1>3. Same(p * w, 1 * w, m) /\ Same(q * u, 1 * u, m)
  BY <1>1, <1>2, SameTimes
<1>4. PICK o \in Int : o = p * w
  OBVIOUS
<1>5. o = q * u
  <2>1. (v * u) * w = (v * w) * u
    BY Z3
  <2> QED BY <1>1, <1>4, <2>1
<1>6. Same(o, w, m) /\ Same(o, u, m)
  BY <1>3, <1>4, <1>5
<1> QED BY <1>6, SameChain

(* The entries of both matrices are inverses of the numbers from -1 to -5.  *)
LEMMA EntryIs ==
  ASSUME NEW k \in 1..T, NEW l \in 1..T
  PROVE  /\ CauchyMds[k][l] = Cauchy[k][l] /\ Cauchy[k][l] \in Elements
         /\ Same((k - l - 3) * Cauchy[k][l], 1, FR_MODULUS)
<1>1. /\ k \in Elements /\ T + l \in Elements /\ T = 3 /\ k \in Int /\ l \in Int
      /\ FR_MODULUS \in Nat /\ FR_MODULUS > 0
  BY ElementsOfState DEF T
<1>2. PICK d \in Int : d = k - l - 3
  BY <1>1
<1>3. PICK v \in Elements : v = SubFr(k, T + l) /\ Same(v, d, FR_MODULUS) /\ v \in Int
  <2>1. k - (T + l) = d
    BY <1>1, <1>2
  <2> QED BY <1>1, <2>1, StateArithmetic, ElementsOfState
<1>4. d % FR_MODULUS = v
  BY <1>3, ResidueOf
<1>5. v # 0
  <2>1. ASSUME v = 0 PROVE FALSE
    <3>1. PICK j \in Int : 0 = d + FR_MODULUS * j
      BY <1>3, <2>1 DEF Same
    <3>2. d \in {-1, -2, -3, -4, -5}
      BY <1>2 DEF T
    <3>3. j >= 1 => FR_MODULUS * j >= FR_MODULUS
      BY <1>1, Z3
    <3>4. j <= 0 => FR_MODULUS * j <= 0
      BY <1>1, Z3
    <3>5. FR_MODULUS > 7
      BY ElementsOfState
    <3>6. PICK p \in Int : p = FR_MODULUS * j
      BY <1>1
    <3> QED BY <1>1, <3>1, <3>2, <3>3, <3>4, <3>5, <3>6
  <2> QED BY <2>1
<1>6. PICK p \in Elements, q \in Elements :
         /\ p = Invert(v, FR_MODULUS) /\ q = Reciprocal(v)
         /\ Same(v * p, 1, FR_MODULUS) /\ Same(v * q, 1, FR_MODULUS)
  BY <1>3, <1>5, InverseIs, ReciprocalIs, ElementsOfState
<1>7. p \in Int /\ q \in Int
  BY <1>6, ElementsOfState
<1>8. p = q
  <2>1. Same(p, q, FR_MODULUS)
    BY <1>1, <1>3, <1>6, <1>7, InverseIsUnique
  <2> QED BY <1>6, <2>1, ElementsOfState
<1>9. CauchyMds[k][l] = p
  BY <1>3, <1>6 DEF CauchyMds
<1>10. Cauchy[k][l] = q
  BY <1>2, <1>4, <1>6 DEF Cauchy
<1>11. Same(d * q, 1, FR_MODULUS)
  <2>1. Same(d, v, FR_MODULUS)
    BY <1>1, <1>3, SameChain
  <2>2. Same(d * q, v * q, FR_MODULUS)
    BY <1>1, <1>3, <1>7, <2>1, SameTimes
  <2>3. PICK a \in Int, b \in Int : a = d * q /\ b = v * q
    BY <1>3, <1>7
  <2>4. 1 \in Int
    OBVIOUS
  <2>5. Same(a, b, FR_MODULUS) /\ Same(b, 1, FR_MODULUS)
    BY <1>6, <2>2, <2>3
  <2>6. Same(a, 1, FR_MODULUS)
    BY <1>1, <2>3, <2>4, <2>5, SameChain
  <2> QED BY <2>3, <2>6
<1> QED BY <1>2, <1>6, <1>8, <1>9, <1>10, <1>11

(* Cramer's rule.                                                           *)
LEMMA CramersRule ==
  ASSUME NEW a1 \in Int, NEW a2 \in Int, NEW a3 \in Int,
         NEW b1 \in Int, NEW b2 \in Int, NEW b3 \in Int,
         NEW c1 \in Int, NEW c2 \in Int, NEW c3 \in Int,
         NEW u1 \in Int, NEW u2 \in Int, NEW u3 \in Int,
         NEW v1 \in Int, NEW v2 \in Int, NEW v3 \in Int, NEW d \in Int,
         v1 = a1 * u1 + a2 * u2 + a3 * u3,
         v2 = b1 * u1 + b2 * u2 + b3 * u3,
         v3 = c1 * u1 + c2 * u2 + c3 * u3,
         d = a1 * (b2 * c3 - b3 * c2) + a2 * (b3 * c1 - b1 * c3) + a3 * (b1 * c2 - b2 * c1)
  PROVE  /\ (b2 * c3 - b3 * c2) * v1 + (c2 * a3 - c3 * a2) * v2 + (a2 * b3 - a3 * b2) * v3 = d * u1
         /\ (b3 * c1 - b1 * c3) * v1 + (c3 * a1 - c1 * a3) * v2 + (a3 * b1 - a1 * b3) * v3 = d * u2
         /\ (b1 * c2 - b2 * c1) * v1 + (c1 * a2 - c2 * a1) * v2 + (a1 * b2 - a2 * b1) * v3 = d * u3
<1>1. (b2 * c3 - b3 * c2) * v1 + (c2 * a3 - c3 * a2) * v2 + (a2 * b3 - a3 * b2) * v3 = d * u1
  BY Z3
<1>2. (b3 * c1 - b1 * c3) * v1 + (c3 * a1 - c1 * a3) * v2 + (a3 * b1 - a1 * b3) * v3 = d * u2
  BY Z3
<1>3. (b1 * c2 - b2 * c1) * v1 + (c1 * a2 - c2 * a1) * v2 + (a1 * b2 - a2 * b1) * v3 = d * u3
  BY Z3
<1> QED BY <1>1, <1>2, <1>3

(* The cofactors, one after the other.                                      *)
LEMMA CofactorIs ==
  /\ Cofactor(1, 1) = Cauchy[2][2] * Cauchy[3][3] - Cauchy[2][3] * Cauchy[3][2]
  /\ Cofactor(1, 2) = Cauchy[2][3] * Cauchy[3][1] - Cauchy[2][1] * Cauchy[3][3]
  /\ Cofactor(1, 3) = Cauchy[2][1] * Cauchy[3][2] - Cauchy[2][2] * Cauchy[3][1]
  /\ Cofactor(2, 1) = Cauchy[3][2] * Cauchy[1][3] - Cauchy[3][3] * Cauchy[1][2]
  /\ Cofactor(2, 2) = Cauchy[3][3] * Cauchy[1][1] - Cauchy[3][1] * Cauchy[1][3]
  /\ Cofactor(2, 3) = Cauchy[3][1] * Cauchy[1][2] - Cauchy[3][2] * Cauchy[1][1]
  /\ Cofactor(3, 1) = Cauchy[1][2] * Cauchy[2][3] - Cauchy[1][3] * Cauchy[2][2]
  /\ Cofactor(3, 2) = Cauchy[1][3] * Cauchy[2][1] - Cauchy[1][1] * Cauchy[2][3]
  /\ Cofactor(3, 3) = Cauchy[1][1] * Cauchy[2][2] - Cauchy[1][2] * Cauchy[2][1]
<1>1. (1 % 3) + 1 = 2 /\ (2 % 3) + 1 = 3 /\ (3 % 3) + 1 = 1
  OBVIOUS
<1> QED BY <1>1 DEF Cofactor

(* The congruent number to an entry, by an inverse of 60.                   *)
LEMMA EntryOf ==
  ASSUME NEW m \in Nat, NEW q \in Int, Same(60 * q, 1, m),
         NEW n \in {1, 2, 3, 4, 5}, NEW h \in Int, n * h = 60, NEW v \in Int, NEW d \in Int,
         d = -n, Same(d * v, 1, m)
  PROVE  Same(v, -(h * q), m)
<1>1. PICK w \in Int : w = -(h * q)
  OBVIOUS
<1>2. d * w = 60 * q
  <2>1. d * w = (n * h) * q
    <3>1. d * w = n * (h * q)
      <4>1. (-n) * (-(h * q)) = n * (h * q)
        BY Z3
      <4> QED BY <1>1, <4>1
    <3>2. n * (h * q) = (n * h) * q
      BY Z3
    <3> QED BY <3>1, <3>2
  <2> QED BY <2>1
<1>3. Same(d * w, 1, m)
  BY <1>2
<1>4. Same(v, w, m)
  BY <1>1, <1>3, InverseIsUnique
<1> QED BY <1>1, <1>4

(* The determinant has an inverse.                                          *)
LEMMA DeterminantIs ==
  /\ Determinant \in Int
  /\ Reciprocal(Determinant % FR_MODULUS) \in Elements
  /\ Same(Determinant * Reciprocal(Determinant % FR_MODULUS), 1, FR_MODULUS)
<1>1. FR_MODULUS \in Nat /\ FR_MODULUS > 0 /\ \A v \in Elements : v \in Int
  BY ElementsOfState
<1>2. PICK a1 \in Elements, a2 \in Elements, a3 \in Elements, b1 \in Elements, b2 \in Elements,
           b3 \in Elements, c1 \in Elements, c2 \in Elements, c3 \in Elements :
         /\ a1 = Cauchy[1][1] /\ a2 = Cauchy[1][2] /\ a3 = Cauchy[1][3]
         /\ b1 = Cauchy[2][1] /\ b2 = Cauchy[2][2] /\ b3 = Cauchy[2][3]
         /\ c1 = Cauchy[3][1] /\ c2 = Cauchy[3][2] /\ c3 = Cauchy[3][3]
  BY EntryIs DEF T
<1>3. /\ Same((-3) * a1, 1, FR_MODULUS) /\ Same((-4) * a2, 1, FR_MODULUS)
      /\ Same((-5) * a3, 1, FR_MODULUS) /\ Same((-2) * b1, 1, FR_MODULUS)
      /\ Same((-3) * b2, 1, FR_MODULUS) /\ Same((-4) * b3, 1, FR_MODULUS)
      /\ Same((-1) * c1, 1, FR_MODULUS) /\ Same((-2) * c2, 1, FR_MODULUS)
      /\ Same((-3) * c3, 1, FR_MODULUS)
  <2>1. \A k, l \in 1..T : Same((k - l - 3) * Cauchy[k][l], 1, FR_MODULUS)
    BY EntryIs
  <2>2. 1 \in 1..T /\ 2 \in 1..T /\ 3 \in 1..T
    BY DEF T
  <2>3. /\ 1 - 1 - 3 = -3 /\ 1 - 2 - 3 = -4 /\ 1 - 3 - 3 = -5
        /\ 2 - 1 - 3 = -2 /\ 2 - 2 - 3 = -3 /\ 2 - 3 - 3 = -4
        /\ 3 - 1 - 3 = -1 /\ 3 - 2 - 3 = -2 /\ 3 - 3 - 3 = -3
    OBVIOUS
  <2>4. /\ Same((1 - 1 - 3) * a1, 1, FR_MODULUS) /\ Same((1 - 2 - 3) * a2, 1, FR_MODULUS)
        /\ Same((1 - 3 - 3) * a3, 1, FR_MODULUS) /\ Same((2 - 1 - 3) * b1, 1, FR_MODULUS)
        /\ Same((2 - 2 - 3) * b2, 1, FR_MODULUS) /\ Same((2 - 3 - 3) * b3, 1, FR_MODULUS)
        /\ Same((3 - 1 - 3) * c1, 1, FR_MODULUS) /\ Same((3 - 2 - 3) * c2, 1, FR_MODULUS)
        /\ Same((3 - 3 - 3) * c3, 1, FR_MODULUS)
    BY <1>2, <2>1, <2>2
  <2> QED BY <2>3, <2>4
<1>4. PICK q \in Int : Same(60 * q, 1, FR_MODULUS)
  <2>1. PICK k1 \in Int, k2 \in Int, k3 \in Int :
           /\ (-3) * a1 = 1 + FR_MODULUS * k1 /\ (-4) * a2 = 1 + FR_MODULUS * k2
           /\ (-5) * a3 = 1 + FR_MODULUS * k3
    BY <1>3 DEF Same
  <2>2. PICK p \in Int, o \in Int, r \in Int : p = (-3) * a1 /\ o = (-4) * a2 /\ r = (-5) * a3
    BY <1>1
  <2>3. Same(p, 1, FR_MODULUS) /\ Same(o, 1, FR_MODULUS) /\ Same(r, 1, FR_MODULUS)
    BY <1>3, <2>2
  <2>4. 1 \in Int
    OBVIOUS
  <2>5. Same(p * o, 1 * 1, FR_MODULUS)
    BY <1>1, <2>3, <2>4, SameProduct
  <2>6. PICK po \in Int : po = p * o /\ Same(po, 1, FR_MODULUS)
    BY <2>5
  <2>7. Same(po * r, 1 * 1, FR_MODULUS)
    BY <1>1, <2>3, <2>4, <2>6, SameProduct
  <2>8. PICK q \in Int : q = -(a1 * a2 * a3)
    BY <1>1
  <2>9. 60 * q = po * r
    <3>1. ((-3) * a1) * ((-4) * a2) * ((-5) * a3) = 60 * (-(a1 * a2 * a3))
      BY <1>1, Z3
    <3> QED BY <2>2, <2>6, <2>8, <3>1
  <2>10. Same(60 * q, 1, FR_MODULUS)
    BY <2>7, <2>9
  <2> QED BY <2>10
<1>5. PICK e12 \in Int, e15 \in Int, e20 \in Int, e30 \in Int, e60 \in Int :
         /\ e12 = -(12 * q) /\ e15 = -(15 * q) /\ e20 = -(20 * q)
         /\ e30 = -(30 * q) /\ e60 = -(60 * q)
  OBVIOUS
<1>6. /\ Same(a1, e20, FR_MODULUS) /\ Same(a2, e15, FR_MODULUS) /\ Same(a3, e12, FR_MODULUS)
      /\ Same(b1, e30, FR_MODULUS) /\ Same(b2, e20, FR_MODULUS) /\ Same(b3, e15, FR_MODULUS)
      /\ Same(c1, e60, FR_MODULUS) /\ Same(c2, e30, FR_MODULUS) /\ Same(c3, e20, FR_MODULUS)
  <2>1. /\ 3 * 20 = 60 /\ 4 * 15 = 60 /\ 5 * 12 = 60 /\ 2 * 30 = 60 /\ 1 * 60 = 60
        /\ -1 \in Int /\ -2 \in Int /\ -3 \in Int /\ -4 \in Int /\ -5 \in Int
    OBVIOUS
  <2>2. \A v \in Elements : Same((-3) * v, 1, FR_MODULUS) => Same(v, -(20 * q), FR_MODULUS)
    BY <1>1, <1>4, <2>1, EntryOf
  <2>3. \A v \in Elements : Same((-4) * v, 1, FR_MODULUS) => Same(v, -(15 * q), FR_MODULUS)
    BY <1>1, <1>4, <2>1, EntryOf
  <2>4. \A v \in Elements : Same((-5) * v, 1, FR_MODULUS) => Same(v, -(12 * q), FR_MODULUS)
    BY <1>1, <1>4, <2>1, EntryOf
  <2>5. \A v \in Elements : Same((-2) * v, 1, FR_MODULUS) => Same(v, -(30 * q), FR_MODULUS)
    BY <1>1, <1>4, <2>1, EntryOf
  <2>6. \A v \in Elements : Same((-1) * v, 1, FR_MODULUS) => Same(v, -(60 * q), FR_MODULUS)
    BY <1>1, <1>4, <2>1, EntryOf
  <2> QED BY <1>3, <1>5, <2>2, <2>3, <2>4, <2>5, <2>6
<1>7. PICK m1 \in Int, m2 \in Int, m3 \in Int, w1 \in Int, w2 \in Int, w3 \in Int :
         /\ m1 = b2 * c3 - b3 * c2 /\ w1 = e20 * e20 - e15 * e30
         /\ m2 = b3 * c1 - b1 * c3 /\ w2 = e15 * e60 - e30 * e20
         /\ m3 = b1 * c2 - b2 * c1 /\ w3 = e30 * e30 - e20 * e60
  <2>1. /\ b2 * c3 - b3 * c2 \in Int /\ b3 * c1 - b1 * c3 \in Int /\ b1 * c2 - b2 * c1 \in Int
    BY <1>1
  <2>2. /\ e20 * e20 - e15 * e30 \in Int /\ e15 * e60 - e30 * e20 \in Int
        /\ e30 * e30 - e20 * e60 \in Int
    OBVIOUS
  <2> QED BY <2>1, <2>2
<1>8. Same(m1, w1, FR_MODULUS) /\ Same(m2, w2, FR_MODULUS) /\ Same(m3, w3, FR_MODULUS)
  <2>1. /\ a1 \in Int /\ a2 \in Int /\ a3 \in Int /\ b1 \in Int /\ b2 \in Int /\ b3 \in Int
        /\ c1 \in Int /\ c2 \in Int /\ c3 \in Int
    BY <1>1
  <2>2. Same(b2 * c3 - b3 * c2, e20 * e20 - e15 * e30, FR_MODULUS)
    BY <1>1, <1>6, <2>1, SameMinor
  <2>3. Same(b3 * c1 - b1 * c3, e15 * e60 - e30 * e20, FR_MODULUS)
    BY <1>1, <1>6, <2>1, SameMinor
  <2>4. Same(b1 * c2 - b2 * c1, e30 * e30 - e20 * e60, FR_MODULUS)
    BY <1>1, <1>6, <2>1, SameMinor
  <2> QED BY <1>7, <2>2, <2>3, <2>4
<1>9. PICK d \in Int, g \in Int :
         /\ d = a1 * m1 + a2 * m2 + a3 * m3 /\ g = e20 * w1 + e15 * w2 + e12 * w3
  <2>1. a1 * m1 + a2 * m2 + a3 * m3 \in Int /\ e20 * w1 + e15 * w2 + e12 * w3 \in Int
    BY <1>1
  <2> QED BY <2>1
<1>10. Determinant = d
  <2>1. /\ Cofactor(1, 1) = Cauchy[2][2] * Cauchy[3][3] - Cauchy[2][3] * Cauchy[3][2]
        /\ Cofactor(1, 2) = Cauchy[2][3] * Cauchy[3][1] - Cauchy[2][1] * Cauchy[3][3]
        /\ Cofactor(1, 3) = Cauchy[2][1] * Cauchy[3][2] - Cauchy[2][2] * Cauchy[3][1]
    BY CofactorIs
  <2>2. Cofactor(1, 1) = m1 /\ Cofactor(1, 2) = m2 /\ Cofactor(1, 3) = m3
    BY <1>2, <1>7, <2>1
  <2> QED BY <1>2, <1>9, <2>2 DEF Determinant
<1>11. Same(d, g, FR_MODULUS)
  <2>1. a1 \in Int /\ a2 \in Int /\ a3 \in Int
    BY <1>1
  <2> QED BY <1>1, <1>6, <1>8, <1>9, <2>1, SameDot
<1>12. 2160 * g = (60 * q) * (60 * q) * (60 * q)
  <2>1. PICK u1 \in Int, u2 \in Int, u3 \in Int : u1 = q * q /\ u2 = q * u1 /\ u3 = 100 * u2
    OBVIOUS
  <2>2. w1 = -(50 * u1)
    <3>1. (-(20 * q)) * (-(20 * q)) - (-(15 * q)) * (-(30 * q)) = -(50 * (q * q))
      BY Z3
    <3> QED BY <1>5, <1>7, <2>1, <3>1
  <2>3. w2 = 300 * u1
    <3>1. (-(15 * q)) * (-(60 * q)) - (-(30 * q)) * (-(20 * q)) = 300 * (q * q)
      BY Z3
    <3> QED BY <1>5, <1>7, <2>1, <3>1
  <2>4. w3 = -(300 * u1)
    <3>1. (-(30 * q)) * (-(30 * q)) - (-(20 * q)) * (-(60 * q)) = -(300 * (q * q))
      BY Z3
    <3> QED BY <1>5, <1>7, <2>1, <3>1
  <2>5. g = 100 * u2
    <3>1. (-(20 * q)) * (-(50 * u1)) + (-(15 * q)) * (300 * u1) + (-(12 * q)) * (-(300 * u1))
            = 100 * (q * u1)
      BY Z3
    <3> QED BY <1>5, <1>9, <2>1, <2>2, <2>3, <2>4, <3>1
  <2>6. (60 * q) * (60 * q) * (60 * q) = 216000 * (q * (q * q))
    BY Z3
  <2> QED BY <2>1, <2>5, <2>6
<1>13. Same(2160 * d, 1, FR_MODULUS)
  <2>1. PICK p \in Int, p2 \in Int, p3 \in Int : p = 60 * q /\ p2 = p * p /\ p3 = p2 * p
    OBVIOUS
  <2>2. 1 \in Int /\ 2160 \in Int /\ 1 * 1 = 1
    OBVIOUS
  <2>3. Same(p, 1, FR_MODULUS)
    BY <1>4, <2>1
  <2>4. Same(p2, 1, FR_MODULUS)
    BY <1>1, <2>1, <2>2, <2>3, SameProduct
  <2>5. Same(p3, 1, FR_MODULUS)
    BY <1>1, <2>1, <2>2, <2>3, <2>4, SameProduct
  <2>6. Same(2160 * d, 2160 * g, FR_MODULUS)
    <3>1. PICK c \in Int : c = 2160
      OBVIOUS
    <3>2. Same(c * d, c * g, FR_MODULUS)
      BY <1>1, <1>11, SameTimes
    <3> QED BY <3>1, <3>2
  <2>7. PICK z \in Int, f \in Int : z = 2160 * d /\ f = 2160 * g
    OBVIOUS
  <2>8. f = p3
    BY <1>12, <2>1, <2>7
  <2>9. Same(z, 1, FR_MODULUS)
    BY <1>1, <2>1, <2>2, <2>5, <2>6, <2>7, <2>8, SameChain
  <2> QED BY <2>7, <2>9
<1>14. PICK r : r = d % FR_MODULUS
  OBVIOUS
<1>15. r \in Elements /\ r \in Int /\ Same(r, d, FR_MODULUS)
  BY <1>1, <1>14, SameAsResidue DEF Elements
<1>16. r # 0
  <2>1. SUFFICES ASSUME r = 0 PROVE FALSE
    OBVIOUS
  <2>2. PICK k \in Int, l \in Int : 0 = d + FR_MODULUS * k /\ 2160 * d = 1 + FR_MODULUS * l
    BY <1>13, <1>15, <2>1 DEF Same
  <2>3. PICK z \in Int : z = 2160 * k + l
    OBVIOUS
  <2>4. FR_MODULUS * z = -1
    <3>1. FR_MODULUS * (2160 * k + l) = 2160 * (FR_MODULUS * k) + FR_MODULUS * l
      BY <1>1, Z3
    <3>2. PICK p1 \in Int, p2 \in Int : p1 = FR_MODULUS * k /\ p2 = FR_MODULUS * l
      BY <1>1
    <3> QED BY <2>2, <2>3, <3>1, <3>2
  <2>5. z >= 0 => FR_MODULUS * z >= 0
    BY <1>1, Z3
  <2>6. z <= -1 => FR_MODULUS * z <= -FR_MODULUS
    BY <1>1, Z3
  <2>7. FR_MODULUS > 7
    BY ElementsOfState
  <2> QED BY <1>1, <2>4, <2>5, <2>6, <2>7
<1>17. PICK h \in Elements : h = Reciprocal(r) /\ h \in Int /\ Same(r * h, 1, FR_MODULUS)
  BY <1>1, <1>15, <1>16, ReciprocalIs
<1>18. Same(d * h, 1, FR_MODULUS)
  <2>1. Same(d, r, FR_MODULUS)
    BY <1>1, <1>15, SameChain
  <2>2. Same(d * h, r * h, FR_MODULUS)
    BY <1>1, <1>15, <1>17, <2>1, SameTimes
  <2>3. PICK p \in Int, o \in Int : p = d * h /\ o = r * h
    BY <1>15, <1>17
  <2>4. 1 \in Int /\ Same(p, o, FR_MODULUS) /\ Same(o, 1, FR_MODULUS)
    BY <1>17, <2>2, <2>3
  <2>5. Same(p, 1, FR_MODULUS)
    BY <1>1, <2>3, <2>4, SameChain
  <2> QED BY <2>3, <2>5
<1> QED BY <1>10, <1>14, <1>17, <1>18

(* A row of the matrix times a state, as numbers; what mds_multiply makes   *)
(* of it; and a row of the inverse times what that gave.                    *)
RowSum(k, s) == Cauchy[k][1] * s[1] + Cauchy[k][2] * s[2] + Cauchy[k][3] * s[3]
Mixed(s) ==
    [k \in 1..T |-> AddFr(AddFr(MulFr(CauchyMds[k][1], s[1]), MulFr(CauchyMds[k][2], s[2])),
                          MulFr(CauchyMds[k][3], s[3]))]
UnRow(l, v) == UnCauchy[l][1] * v[1] + UnCauchy[l][2] * v[2] + UnCauchy[l][3] * v[3]

LEMMA MixedIs ==
  ASSUME NEW s \in State
  PROVE  Mixed(s) \in State /\ \A k \in 1..T : Same(Mixed(s)[k], RowSum(k, s), FR_MODULUS)
<1>1. FR_MODULUS \in Nat /\ \A v \in Elements : v \in Int
  BY ElementsOfState
<1>2. ASSUME NEW k \in 1..T
      PROVE  Mixed(s)[k] \in Elements /\ Same(Mixed(s)[k], RowSum(k, s), FR_MODULUS)
  <2>1. PICK a \in Elements, b \in Elements, c \in Elements :
           /\ a = Cauchy[k][1] /\ b = Cauchy[k][2] /\ c = Cauchy[k][3]
           /\ a = CauchyMds[k][1] /\ b = CauchyMds[k][2] /\ c = CauchyMds[k][3]
    BY EntryIs DEF T
  <2>2. PICK u \in Elements, v \in Elements, w \in Elements : u = s[1] /\ v = s[2] /\ w = s[3]
    BY StateFacts
  <2>3. PICK p \in Elements, q \in Elements, r \in Elements :
           /\ p = MulFr(a, u) /\ q = MulFr(b, v) /\ r = MulFr(c, w)
           /\ Same(p, a * u, FR_MODULUS) /\ Same(q, b * v, FR_MODULUS)
           /\ Same(r, c * w, FR_MODULUS)
    BY StateArithmetic
  <2>4. PICK e \in Elements, f \in Elements :
           /\ e = AddFr(p, q) /\ f = AddFr(e, r)
           /\ Same(e, p + q, FR_MODULUS) /\ Same(f, e + r, FR_MODULUS)
    BY StateArithmetic
  <2>5. PICK k1 \in Int, k2 \in Int, k3 \in Int, k4 \in Int, k5 \in Int :
           /\ p = a * u + FR_MODULUS * k1 /\ q = b * v + FR_MODULUS * k2
           /\ r = c * w + FR_MODULUS * k3 /\ e = p + q + FR_MODULUS * k4
           /\ f = e + r + FR_MODULUS * k5
    <3>1. PICK k1 \in Int : p = a * u + FR_MODULUS * k1
      BY <2>3 DEF Same
    <3>2. PICK k2 \in Int : q = b * v + FR_MODULUS * k2
      BY <2>3 DEF Same
    <3>3. PICK k3 \in Int : r = c * w + FR_MODULUS * k3
      BY <2>3 DEF Same
    <3>4. PICK k4 \in Int : e = p + q + FR_MODULUS * k4
      BY <2>4 DEF Same
    <3>5. PICK k5 \in Int : f = e + r + FR_MODULUS * k5
      BY <2>4 DEF Same
    <3> QED BY <3>1, <3>2, <3>3, <3>4, <3>5, Zenon
  <2>6. PICK z \in Int : z = a * u + b * v + c * w
    BY <1>1
  <2>7. f = z + FR_MODULUS * (k1 + k2 + k3 + k4 + k5)
    <3>1. FR_MODULUS * (k1 + k2 + k3 + k4 + k5)
            = FR_MODULUS * k1 + FR_MODULUS * k2 + FR_MODULUS * k3 + FR_MODULUS * k4 + FR_MODULUS * k5
      BY <1>1, Z3
    <3>2. PICK p1 \in Int, p2 \in Int, p3 \in Int, p4 \in Int, p5 \in Int :
             /\ p1 = FR_MODULUS * k1 /\ p2 = FR_MODULUS * k2 /\ p3 = FR_MODULUS * k3
             /\ p4 = FR_MODULUS * k4 /\ p5 = FR_MODULUS * k5
      BY <1>1
    <3>3. PICK g1 \in Int, g2 \in Int, g3 \in Int : g1 = a * u /\ g2 = b * v /\ g3 = c * w
      BY <1>1
    <3> QED BY <1>1, <2>5, <2>6, <3>1, <3>2, <3>3
  <2>8. k1 + k2 + k3 + k4 + k5 \in Int
    OBVIOUS
  <2>9. Same(f, z, FR_MODULUS)
    BY <2>7, <2>8 DEF Same
  <2>10. Mixed(s)[k] = f
    BY <2>1, <2>2, <2>3, <2>4 DEF Mixed
  <2>11. RowSum(k, s) = z
    BY <2>1, <2>2, <2>6 DEF RowSum
  <2> QED BY <2>4, <2>9, <2>10, <2>11
<1>3. State = [1..T -> Elements] /\ Mixed(s) = [k \in 1..T |-> Mixed(s)[k]]
  BY DEF State, Elements, Mixed
<1> QED BY <1>2, <1>3

(* The cofactors pick an element of the state out of the rows.              *)
LEMMA CofactorsPick ==
  ASSUME NEW s \in State, NEW l \in 1..T
  PROVE  /\ \A k \in 1..T : Cofactor(k, l) \in Int /\ RowSum(k, s) \in Int
         /\ Cofactor(1, l) * RowSum(1, s) + Cofactor(2, l) * RowSum(2, s)
              + Cofactor(3, l) * RowSum(3, s) = Determinant * s[l]
<1>1. \A v \in Elements : v \in Int
  BY ElementsOfState
<1>2. PICK a1 \in Int, a2 \in Int, a3 \in Int, b1 \in Int, b2 \in Int,
           b3 \in Int, c1 \in Int, c2 \in Int, c3 \in Int :
         /\ a1 = Cauchy[1][1] /\ a2 = Cauchy[1][2] /\ a3 = Cauchy[1][3]
         /\ b1 = Cauchy[2][1] /\ b2 = Cauchy[2][2] /\ b3 = Cauchy[2][3]
         /\ c1 = Cauchy[3][1] /\ c2 = Cauchy[3][2] /\ c3 = Cauchy[3][3]
  BY <1>1, EntryIs DEF T
<1>3. PICK u1 \in Int, u2 \in Int, u3 \in Int : u1 = s[1] /\ u2 = s[2] /\ u3 = s[3]
  BY <1>1, StateFacts
<1>4. PICK v1 \in Int, v2 \in Int, v3 \in Int :
         /\ v1 = a1 * u1 + a2 * u2 + a3 * u3
         /\ v2 = b1 * u1 + b2 * u2 + b3 * u3
         /\ v3 = c1 * u1 + c2 * u2 + c3 * u3
  OBVIOUS
<1>5. RowSum(1, s) = v1 /\ RowSum(2, s) = v2 /\ RowSum(3, s) = v3
  BY <1>2, <1>3, <1>4 DEF RowSum
<1>6. PICK d \in Int :
         d = a1 * (b2 * c3 - b3 * c2) + a2 * (b3 * c1 - b1 * c3) + a3 * (b1 * c2 - b2 * c1)
  OBVIOUS
<1>7. /\ Cofactor(1, 1) = b2 * c3 - b3 * c2 /\ Cofactor(1, 2) = b3 * c1 - b1 * c3
      /\ Cofactor(1, 3) = b1 * c2 - b2 * c1 /\ Cofactor(2, 1) = c2 * a3 - c3 * a2
      /\ Cofactor(2, 2) = c3 * a1 - c1 * a3 /\ Cofactor(2, 3) = c1 * a2 - c2 * a1
      /\ Cofactor(3, 1) = a2 * b3 - a3 * b2 /\ Cofactor(3, 2) = a3 * b1 - a1 * b3
      /\ Cofactor(3, 3) = a1 * b2 - a2 * b1
  BY <1>2, CofactorIs
<1>8. Determinant = d
  BY <1>2, <1>6, <1>7 DEF Determinant
<1>9. /\ (b2 * c3 - b3 * c2) * v1 + (c2 * a3 - c3 * a2) * v2 + (a2 * b3 - a3 * b2) * v3 = d * u1
      /\ (b3 * c1 - b1 * c3) * v1 + (c3 * a1 - c1 * a3) * v2 + (a3 * b1 - a1 * b3) * v3 = d * u2
      /\ (b1 * c2 - b2 * c1) * v1 + (c1 * a2 - c2 * a1) * v2 + (a1 * b2 - a2 * b1) * v3 = d * u3
  BY <1>4, <1>6, CramersRule
<1>10. l = 1 \/ l = 2 \/ l = 3
  BY DEF T
<1>11. /\ b2 * c3 - b3 * c2 \in Int /\ b3 * c1 - b1 * c3 \in Int /\ b1 * c2 - b2 * c1 \in Int
       /\ c2 * a3 - c3 * a2 \in Int /\ c3 * a1 - c1 * a3 \in Int /\ c1 * a2 - c2 * a1 \in Int
       /\ a2 * b3 - a3 * b2 \in Int /\ a3 * b1 - a1 * b3 \in Int /\ a1 * b2 - a2 * b1 \in Int
  OBVIOUS
<1>12. \A k \in 1..T : Cofactor(k, l) \in Int /\ RowSum(k, s) \in Int
  BY <1>5, <1>7, <1>10, <1>11 DEF T
<1>13. Cofactor(1, l) * RowSum(1, s) + Cofactor(2, l) * RowSum(2, s)
         + Cofactor(3, l) * RowSum(3, s) = Determinant * s[l]
  <2>1. CASE l = 1
    BY <1>3, <1>5, <1>7, <1>8, <1>9, <2>1
  <2>2. CASE l = 2
    BY <1>3, <1>5, <1>7, <1>8, <1>9, <2>2
  <2>3. CASE l = 3
    BY <1>3, <1>5, <1>7, <1>8, <1>9, <2>3
  <2> QED BY <1>10, <2>1, <2>2, <2>3
<1> QED BY <1>12, <1>13

(* The inverse matrix gives the state back.                                 *)
LEMMA UnRowIs ==
  ASSUME NEW s \in State, NEW l \in 1..T
  PROVE  /\ UnRow(l, Mixed(s)) \in Int /\ Same(UnRow(l, Mixed(s)), s[l], FR_MODULUS)
         /\ UnCauchy[l][1] \in Int /\ UnCauchy[l][2] \in Int /\ UnCauchy[l][3] \in Int
<1>1. FR_MODULUS \in Nat /\ FR_MODULUS > 0 /\ \A v \in Elements : v \in Int
  BY ElementsOfState
<1>2. PICK r \in Int, d \in Int, e \in Int :
         /\ r = Reciprocal(Determinant % FR_MODULUS) /\ d = Determinant /\ e = s[l]
         /\ Same(d * r, 1, FR_MODULUS)
  BY <1>1, DeterminantIs, StateFacts
<1>3. PICK f1 \in Int, f2 \in Int, f3 \in Int, w1 \in Int, w2 \in Int, w3 \in Int :
         /\ f1 = Cofactor(1, l) /\ f2 = Cofactor(2, l) /\ f3 = Cofactor(3, l)
         /\ w1 = RowSum(1, s) /\ w2 = RowSum(2, s) /\ w3 = RowSum(3, s)
         /\ f1 * w1 + f2 * w2 + f3 * w3 = d * e
  <2>1. 1 \in 1..T /\ 2 \in 1..T /\ 3 \in 1..T
    BY DEF T
  <2>2. \A k \in 1..T : Cofactor(k, l) \in Int /\ RowSum(k, s) \in Int
    BY CofactorsPick
  <2>3. Cofactor(1, l) * RowSum(1, s) + Cofactor(2, l) * RowSum(2, s)
          + Cofactor(3, l) * RowSum(3, s) = d * e
    BY <1>2, CofactorsPick
  <2> QED BY <2>1, <2>2, <2>3
<1>4. PICK v1 \in Int, v2 \in Int, v3 \in Int :
         /\ v1 = Mixed(s)[1] /\ v2 = Mixed(s)[2] /\ v3 = Mixed(s)[3]
         /\ Same(v1, w1, FR_MODULUS) /\ Same(v2, w2, FR_MODULUS) /\ Same(v3, w3, FR_MODULUS)
  <2>1. 1 \in 1..T /\ 2 \in 1..T /\ 3 \in 1..T
    BY DEF T
  <2>2. Mixed(s) \in State /\ \A k \in 1..T : Same(Mixed(s)[k], RowSum(k, s), FR_MODULUS)
    BY MixedIs
  <2>3. \A k \in 1..T : Mixed(s)[k] \in Int
    BY <1>1, <2>2, StateFacts
  <2> QED BY <1>3, <2>1, <2>2, <2>3
<1>5. PICK p1 \in Int, p2 \in Int, p3 \in Int : p1 = f1 * r /\ p2 = f2 * r /\ p3 = f3 * r
  OBVIOUS
<1>6. PICK g1, g2, g3 : g1 = p1 % FR_MODULUS /\ g2 = p2 % FR_MODULUS /\ g3 = p3 % FR_MODULUS
  OBVIOUS
<1>7. /\ g1 \in Int /\ Same(g1, p1, FR_MODULUS) /\ g2 \in Int /\ Same(g2, p2, FR_MODULUS)
      /\ g3 \in Int /\ Same(g3, p3, FR_MODULUS)
  BY <1>1, <1>6, SameAsResidue
<1>8. UnCauchy[l][1] = g1 /\ UnCauchy[l][2] = g2 /\ UnCauchy[l][3] = g3
  BY <1>2, <1>3, <1>5, <1>6 DEF UnCauchy, T
<1>9. PICK o \in Int, z \in Int :
         o = g1 * v1 + g2 * v2 + g3 * v3 /\ z = p1 * w1 + p2 * w2 + p3 * w3
  BY <1>7
<1>10. UnRow(l, Mixed(s)) = o
  BY <1>4, <1>8, <1>9 DEF UnRow
<1>11. Same(o, z, FR_MODULUS)
  BY <1>1, <1>4, <1>7, <1>9, SameDot
<1>12. z = (d * r) * e
  <2>1. (f1 * r) * w1 + (f2 * r) * w2 + (f3 * r) * w3 = r * (f1 * w1 + f2 * w2 + f3 * w3)
    BY Z3
  <2>2. r * (d * e) = (d * r) * e
    BY Z3
  <2> QED BY <1>3, <1>5, <1>9, <2>1, <2>2
<1>13. Same(z, e, FR_MODULUS)
  <2>1. PICK dr \in Int : dr = d * r
    OBVIOUS
  <2>2. 1 \in Int /\ 1 * e = e
    OBVIOUS
  <2>3. Same(dr * e, 1 * e, FR_MODULUS)
    BY <1>1, <1>2, <2>1, <2>2, SameTimes
  <2> QED BY <1>12, <2>1, <2>2, <2>3
<1>14. Same(o, e, FR_MODULUS)
  BY <1>1, <1>11, <1>13, SameChain
<1> QED BY <1>2, <1>7, <1>8, <1>10, <1>14

-----------------------------------------------------------------------------
(* Rounds of Rescue-Prime, undone one after the other.                      *)

RescueStep(s, k) == RescueRound(s, k, CauchyMds, Exponents.forward, Exponents.back)
RescueStepBack(v, k) ==
    LET u == [l \in 1..T |->
                (UnCauchy[l][1] * v[1] + UnCauchy[l][2] * v[2]
                   + UnCauchy[l][3] * v[3] - RoundKeys[k][l]) % FR_MODULUS]
    IN  [l \in 1..T |-> IF k % 2 = 1 THEN Root[u[l]] ELSE AlphaPower[u[l]]]

LEMMA RescueStepIsUndone ==
  ASSUME NEW k \in 1..RESCUE_ROUNDS, NEW s \in State
  PROVE  RescueStep(s, k) \in State /\ RescueStepBack(RescueStep(s, k), k) = s
<1>1. FR_MODULUS \in Nat /\ FR_MODULUS > 0 /\ \A v \in Elements : v \in Int
  BY ElementsOfState
<1>2. State = [1..T -> Elements] /\ \A l \in 1..T : s[l] \in Elements
  BY StateFacts DEF State, Elements
<1>3. PICK c \in State : c = RoundKeys[k]
  BY RowFacts
<1>4. \A l \in 1..T : c[l] \in Elements
  BY StateFacts
<1> DEFINE power == [l \in 1..T |->
                       PowMod(s[l], IF k % 2 = 1 THEN Exponents.forward ELSE Exponents.back, FR_MODULUS)]
           keyed == [l \in 1..T |-> AddFr(power[l], c[l])]
           out == Mixed(keyed)
<1>5. ASSUME NEW l \in 1..T
      PROVE  /\ power[l] \in Elements
             /\ (IF k % 2 = 1 THEN Root[power[l]] ELSE AlphaPower[power[l]]) = s[l]
  <2>1. PICK v \in Elements : v = s[l]
    BY <1>2
  <2>2. CASE k % 2 = 1
    <3>1. power[l] = Power(v, Exponents.forward)
      BY <2>1, <2>2, PowModIs, RescueExponents
    <3> HIDE DEF power
    <3> QED BY <2>1, <2>2, <3>1, RootsAre
  <2>3. CASE k % 2 # 1
    <3>1. power[l] = Power(v, Exponents.back)
      BY <2>1, <2>3, PowModIs, RescueExponents
    <3> HIDE DEF power
    <3> QED BY <2>1, <2>3, <3>1, RootsAre
  <2> QED BY <2>2, <2>3
<1>6. ASSUME NEW l \in 1..T
      PROVE  /\ keyed[l] \in Elements
             /\ Same(keyed[l], power[l] + c[l], FR_MODULUS)
  <2>1. keyed[l] = AddFr(power[l], c[l]) /\ power[l] \in Elements /\ c[l] \in Elements
    BY <1>4, <1>5
  <2> HIDE DEF power, keyed
  <2> QED BY <2>1, StateArithmetic
<1>7. keyed \in State
  <2>1. keyed = [l \in 1..T |-> keyed[l]]
    OBVIOUS
  <2> HIDE DEF keyed
  <2> QED BY <1>2, <1>6, <2>1
<1>8. RescueStep(s, k) = out
  <2>1. keyed = [l \in 1..T |->
                   AddFr(PowMod(s[l], IF k % 2 = 1 THEN Exponents.forward ELSE Exponents.back,
                                FR_MODULUS),
                         RoundKeys[k][l])]
    BY <1>3
  <2> HIDE DEF keyed
  <2> QED BY <2>1 DEF RescueStep, RescueRound, Mixed
<1>9. out \in State
  <2> HIDE DEF keyed
  <2> QED BY <1>7, MixedIs
<1> DEFINE u == [l \in 1..T |-> (UnRow(l, out) - c[l]) % FR_MODULUS]
<1>10. ASSUME NEW l \in 1..T PROVE u[l] = power[l]
  <2>1. u[l] = (UnRow(l, out) - c[l]) % FR_MODULUS
    OBVIOUS
  <2>2. UnRow(l, out) \in Int /\ Same(UnRow(l, out), keyed[l], FR_MODULUS)
    <3> HIDE DEF keyed
    <3> QED BY <1>7, UnRowIs
  <2>3. PICK o \in Int, e \in Int, g \in Int, p \in Elements :
           /\ o = UnRow(l, out) /\ e = keyed[l] /\ g = c[l] /\ p = power[l]
           /\ Same(o, e, FR_MODULUS) /\ Same(e, p + g, FR_MODULUS)
    <3> HIDE DEF power, keyed, out, u
    <3> QED BY <1>1, <1>4, <1>5, <1>6, <2>2
  <2> HIDE DEF power, keyed, out, u
  <2>4. PICK j \in Int, h \in Int : o = e + FR_MODULUS * j /\ e = p + g + FR_MODULUS * h
    BY <2>3 DEF Same
  <2>5. PICK w \in Int : w = o - g /\ w = p + FR_MODULUS * (j + h)
    <3>1. FR_MODULUS * (j + h) = FR_MODULUS * j + FR_MODULUS * h
      BY <1>1, Z3
    <3>2. PICK p1 \in Int, p2 \in Int : p1 = FR_MODULUS * j /\ p2 = FR_MODULUS * h
      BY <1>1
    <3>3. PICK w \in Int : w = o - g
      OBVIOUS
    <3> QED BY <1>1, <2>4, <3>1, <3>2, <3>3
  <2>6. Same(p, w, FR_MODULUS)
    <3>1. Same(w, p, FR_MODULUS)
      BY <2>5 DEF Same
    <3> QED BY <1>1, <2>5, <3>1, SameChain
  <2>7. w % FR_MODULUS = p
    BY <2>5, <2>6, ResidueOf
  <2> QED BY <2>1, <2>3, <2>5, <2>7
<1>11. RescueStepBack(out, k) = [l \in 1..T |-> IF k % 2 = 1 THEN Root[u[l]] ELSE AlphaPower[u[l]]]
  <2> HIDE DEF out
  <2> DEFINE row == [l \in 1..T |->
                       (UnCauchy[l][1] * out[1] + UnCauchy[l][2] * out[2]
                          + UnCauchy[l][3] * out[3] - RoundKeys[k][l]) % FR_MODULUS]
  <2>1. RescueStepBack(out, k) = [l \in 1..T |-> IF k % 2 = 1 THEN Root[row[l]] ELSE AlphaPower[row[l]]]
    BY DEF RescueStepBack
  <2>2. ASSUME NEW l \in 1..T PROVE row[l] = u[l]
    <3>1. PICK a1 \in Int, a2 \in Int, a3 \in Int, e \in Int :
             /\ a1 = UnCauchy[l][1] * out[1] /\ a2 = UnCauchy[l][2] * out[2]
             /\ a3 = UnCauchy[l][3] * out[3] /\ e = RoundKeys[k][l] /\ e = c[l]
      <4>1. out[1] \in Int /\ out[2] \in Int /\ out[3] \in Int
        <5> HIDE DEF out
        <5> QED BY <1>1, <1>9, StateFacts
      <4>2. UnCauchy[l][1] \in Int /\ UnCauchy[l][2] \in Int /\ UnCauchy[l][3] \in Int
        BY <1>2, UnRowIs
      <4>3. c[l] \in Int /\ c[l] = RoundKeys[k][l]
        BY <1>1, <1>3, <1>4
      <4> HIDE DEF row, u, out
      <4>4. PICK o1 \in Int, o2 \in Int, o3 \in Int, g1 \in Int, g2 \in Int, g3 \in Int :
               /\ o1 = out[1] /\ o2 = out[2] /\ o3 = out[3]
               /\ g1 = UnCauchy[l][1] /\ g2 = UnCauchy[l][2] /\ g3 = UnCauchy[l][3]
        BY <4>1, <4>2, Zenon
      <4>5. PICK a1 \in Int, a2 \in Int, a3 \in Int : a1 = g1 * o1 /\ a2 = g2 * o2 /\ a3 = g3 * o3
        OBVIOUS
      <4> QED BY <4>3, <4>4, <4>5
    <3>2. row[l] = ((a1 + a2 + a3) - e) % FR_MODULUS
      <4>1. row[l] = (UnCauchy[l][1] * out[1] + UnCauchy[l][2] * out[2]
                        + UnCauchy[l][3] * out[3] - RoundKeys[k][l]) % FR_MODULUS
        OBVIOUS
      <4>2. row[l] = (a1 + a2 + (a3 - e)) % FR_MODULUS
        <5> HIDE DEF row, u
        <5> QED BY <3>1, <4>1
      <4>3. a1 + a2 + (a3 - e) = (a1 + a2 + a3) - e
        OBVIOUS
      <4> HIDE DEF row, u
      <4> QED BY <4>2, <4>3
    <3>3. u[l] = ((a1 + a2 + a3) - e) % FR_MODULUS
      <4>1. u[l] = (UnRow(l, out) - c[l]) % FR_MODULUS
        OBVIOUS
      <4>2. UnRow(l, out) = a1 + a2 + a3
        BY <3>1 DEF UnRow
      <4> HIDE DEF row, u
      <4> QED BY <3>1, <4>1, <4>2
    <3> HIDE DEF row, u
    <3> QED BY <3>2, <3>3
  <2> HIDE DEF row, u
  <2> QED BY <2>1, <2>2
<1>12. RescueStepBack(out, k) = s
  <2>1. s = [l \in 1..T |-> s[l]]
    BY <1>2
  <2> HIDE DEF u, out, power
  <2> QED BY <1>5, <1>10, <1>11, <2>1
<1> HIDE DEF out
<1> QED BY <1>8, <1>9, <1>12

(* permute of rescue_prime.rs has an inverse.                               *)
LEMMA RescueBack ==
  ASSUME NEW s \in State
  PROVE  UnRescue(RescuePermute(s)) = s
<1> DEFINE n == RESCUE_ROUNDS
           Step(f, k) == IF k = 0 THEN s
                         ELSE RescueRound(f[k - 1], k, CauchyMds, Exponents.forward, Exponents.back)
           G == [k \in 1..n |-> [v \in State |-> RescueStep(v, k)]]
           after == CHOOSE after : after = [k \in 0..n |-> Step(after, k)]
<1>1. n \in Nat
  BY RowFacts
<1>2. G \in [1..n -> [State -> State]]
  BY RescueStepIsUndone
<1>3. PICK f : Recurs(f, State, s, n, G)
  <2> HIDE DEF G, n
  <2> QED BY <1>1, <1>2, Recursion
<1>4. \A g, k : k # 0 => Step(g, k) = RescueStep(g[k - 1], k)
  BY DEF RescueStep
<1>5. \A g : Step(g, 0) = s
  OBVIOUS
<1>6. f = [k \in 0..n |-> Step(f, k)]
  <2>1. /\ f \in [0..n -> State]
        /\ f[0] = s /\ \A k \in 1..n : f[k] = G[k][f[k - 1]]
    <3> HIDE DEF G, n
    <3> QED BY <1>3 DEF Recurs
  <2>2. ASSUME NEW k \in 0..n PROVE f[k] = Step(f, k)
    <3>1. CASE k = 0
      <4> HIDE DEF Step, G, n
      <4> QED BY <1>5, <2>1, <3>1
    <3>2. CASE k # 0
      <4>1. k \in 1..n /\ k - 1 \in 0..n
        <5> HIDE DEF n
        <5> QED BY <1>1, <3>2
      <4>2. f[k - 1] \in State
        <5> HIDE DEF G, n, Step
        <5> QED BY <2>1, <4>1
      <4>3. G[k][f[k - 1]] = RescueStep(f[k - 1], k)
        <5> HIDE DEF n, Step
        <5> QED BY <4>1, <4>2
      <4> HIDE DEF G, n, Step
      <4> QED BY <1>4, <2>1, <3>2, <4>1, <4>3
    <3> QED BY <3>1, <3>2
  <2> HIDE DEF Step, G, n
  <2> QED BY <2>1, <2>2
<1>7. after = [k \in 0..n |-> Step(after, k)]
  <2> HIDE DEF Step, G, n
  <2> QED BY <1>6
<1>8. RescuePermute(s) = after[n]
  BY DEF RescuePermute
<1> HIDE DEF after
<1>9. after[0] = s /\ \A k \in 1..n : after[k] = RescueStep(after[k - 1], k)
  <2>1. \A k \in 0..n : after[k] = Step(after, k)
    <3> HIDE DEF Step, n
    <3> QED BY <1>7
  <2> HIDE DEF Step, n
  <2>2. 0 \in 0..n /\ \A k \in 1..n : k \in 0..n /\ k # 0
    BY <1>1
  <2> QED BY <1>4, <1>5, <2>1, <2>2
<1> HIDE DEF Step, G
<1>10. \A k \in 0..n : after[k] \in State
  <2> DEFINE Q == {k \in Nat : k <= n => after[k] \in State}
  <2> HIDE DEF n
  <2>1. 0 \in Q
    BY <1>9
  <2>2. ASSUME NEW k \in Q PROVE k + 1 \in Q
    <3>1. SUFFICES ASSUME k + 1 <= n PROVE after[k + 1] \in State
      OBVIOUS
    <3>2. k + 1 \in 1..n /\ (k + 1) - 1 = k /\ after[k] \in State
      BY <1>1, <3>1
    <3>3. after[k + 1] = RescueStep(after[k], k + 1)
      BY <1>9, <3>2
    <3> QED BY <3>2, <3>3, RescueStepIsUndone DEF n
  <2>3. Q = Nat
    <3>1. Q \in SUBSET Nat
      OBVIOUS
    <3> HIDE DEF Q
    <3> QED BY <2>1, <2>2, <3>1, Inductive
  <2> QED BY <1>1, <2>3
<1>11. ASSUME NEW k \in 1..n PROVE RescueStepBack(after[k], k) = after[k - 1]
  <2>1. k - 1 \in 0..n /\ after[k - 1] \in State
    <3> HIDE DEF n
    <3> QED BY <1>1, <1>10
  <2> QED BY <1>9, <1>11, <2>1, RescueStepIsUndone
<1>12. PICK z : z = RescuePermute(s) /\ z = after[n]
  BY <1>8
<1> DEFINE Undo(h, k) == IF k = n + 1 THEN z ELSE RescueStepBack(h[k + 1], k)
           g == [k \in 1..(n + 1) |-> after[k - 1]]
           before == CHOOSE before : before = [k \in 1..(n + 1) |-> Undo(before, k)]
<1> HIDE DEF n
<1>13. g = [k \in 1..(n + 1) |-> Undo(g, k)]
  <2>1. ASSUME NEW k \in 1..(n + 1) PROVE after[k - 1] = Undo(g, k)
    <3>1. CASE k = n + 1
      <4>1. k - 1 = n
        BY <1>1, <3>1
      <4> QED BY <1>12, <3>1, <4>1
    <3>2. CASE k # n + 1
      <4>1. k \in 1..n /\ k + 1 \in 1..(n + 1) /\ (k + 1) - 1 = k
        BY <1>1, <3>2
      <4>2. g[k + 1] = after[k]
        BY <4>1
      <4> HIDE DEF g
      <4> QED BY <1>11, <3>2, <4>1, <4>2
    <3> QED BY <3>1, <3>2
  <2>2. \A k \in 1..(n + 1) : g[k] = after[k - 1]
    OBVIOUS
  <2> HIDE DEF Undo
  <2> QED BY <2>1, <2>2
<1>14. before = [k \in 1..(n + 1) |-> Undo(before, k)]
  <2> HIDE DEF Undo, g
  <2> QED BY <1>13
<1>15. UnRescue(z) = before[1]
  BY DEF UnRescue, RescueStepBack, n
<1> HIDE DEF before
<1>16. before[n + 1] = z /\ \A k \in 1..n : before[k] = RescueStepBack(before[k + 1], k)
  <2>1. \A k \in 1..(n + 1) : before[k] = Undo(before, k)
    <3> HIDE DEF Undo
    <3> QED BY <1>14
  <2>2. n + 1 \in 1..(n + 1) /\ \A k \in 1..n : k \in 1..(n + 1) /\ k # n + 1
    BY <1>1
  <2> QED BY <2>1, <2>2
<1>17. before[1] = after[0]
  <2>1. ASSUME NEW k \in 1..n, before[k + 1] = after[k] PROVE before[k] = after[k - 1]
    BY <1>11, <1>16, <2>1
  <2> QED BY <1>1, <1>12, <1>16, <2>1, WayBack
<1> QED BY <1>9, <1>12, <1>15, <1>17

(* What the last call of a permutation gave is undone: no two states have   *)
(* one image, and the exponent that the search finds has the inverse that   *)
(* mod_inv gives it (permute of poseidon2.rs and of rescue_prime.rs).       *)
THEOREM PermutationsInvertible == PermSpec => []PermutationsAreInvertible
<1>1. PermInit => PermutationsAreInvertible
  BY DEF PermInit, NothingPermuted, PermutationsAreInvertible
<1>2. PermutationsAreInvertible /\ [PermNext]_permuted => PermutationsAreInvertible'
  <2> SUFFICES ASSUME PermutationsAreInvertible, [PermNext]_permuted
               PROVE  PermutationsAreInvertible'
    OBVIOUS
  <2>1. ASSUME NEW s \in State,
               permuted' = [by |-> "poseidon2", input |-> s, output |-> Permute(s)]
        PROVE  PermutationsAreInvertible'
    <3>1. Unpermute(Permute(s)) = s
      BY PermuteBack
    <3> QED BY <2>1, <3>1 DEF PermutationsAreInvertible
  <2>2. ASSUME NEW s \in State,
               permuted' = [by |-> "rescue", input |-> s, output |-> RescuePermute(s)]
        PROVE  PermutationsAreInvertible'
    <3>1. UnRescue(RescuePermute(s)) = s
      BY RescueBack
    <3> QED BY <2>2, <3>1 DEF PermutationsAreInvertible
  <2>3. ASSUME NEW pm1 \in Totients,
               permuted' = [by |-> "exponents", input |-> <<pm1>>,
                            output |-> <<Alpha(pm1), AlphaInv(pm1)>>]
        PROVE  PermutationsAreInvertible'
    <3>1. pm1 \in Nat /\ pm1 > 2 /\ pm1 < Word
      BY RCAssumption, WordFacts
    <3>2. Alpha(pm1) = RefAlpha(pm1) /\ (Alpha(pm1) * AlphaInv(pm1)) % pm1 = 1
      BY <3>1, ExponentsInvert
    <3> QED BY <2>3, <3>2 DEF PermutationsAreInvertible
  <2>4. CASE permuted' = NothingPermuted
    BY <2>4 DEF NothingPermuted, PermutationsAreInvertible
  <2>5. CASE UNCHANGED permuted
    BY <2>5 DEF PermutationsAreInvertible
  <2> QED BY <2>1, <2>2, <2>3, <2>4, <2>5 DEF PermNext
<1> QED BY <1>1, <1>2, PTL DEF PermSpec
=============================================================================
