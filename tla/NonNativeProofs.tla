-------------------------- MODULE NonNativeProofs --------------------------
(***************************************************************************)
(* That the long division of nonnative.rs divides, for every limb base and *)
(* every modulus, whenever its first window is below the divisor: then     *)
(* mul and reduce return canonical elements.  For reduce the first window  *)
(* always is.                                                              *)
(***************************************************************************)
EXTENDS NonNative, WellFoundedInduction, TLAPS

-----------------------------------------------------------------------------
(* Natural numbers.                                                        *)

(* A set of natural numbers has a least element.                           *)
LEMMA LeastElement ==
  ASSUME NEW T \in SUBSET Nat, T # {}
  PROVE  \E x \in T : \A y \in T : x <= y
<1>1. PICK x \in T : \A y \in T : ~ (<<y, x>> \in OpToRel(<, Nat))
  BY NatLessThanWellFounded, WFMin
<1>2. ASSUME NEW y \in T PROVE x <= y
  <2>1. ~ (y < x)
    BY <1>1 DEF OpToRel
  <2> QED
    BY <2>1
<1> QED
  BY <1>2

LEMMA Monotone ==
  ASSUME NEW x \in Nat, NEW y \in Nat, NEW z \in Nat, x <= y
  PROVE  x * z <= y * z
BY Z3

LEMMA StrictlyMonotone ==
  ASSUME NEW x \in Nat, NEW y \in Nat, NEW z \in Nat, x < y, z > 0
  PROVE  x * z < y * z
<1>1. (x + 1) * z <= y * z
  BY Monotone
<1>2. (x + 1) * z = x * z + z
  BY Z3
<1>3. x * z \in Nat /\ y * z \in Nat
  OBVIOUS
<1> QED
  BY <1>1, <1>2, <1>3

LEMMA DivMod ==
  ASSUME NEW x \in Nat, NEW m \in Nat, m > 0
  PROVE  /\ x = m * (x \div m) + (x % m)
         /\ x \div m \in Nat /\ x % m \in Nat /\ x % m < m
<1>1. x = m * (x \div m) + (x % m)
  BY Z3
<1>2. x % m \in Nat /\ x % m < m
  BY SMT
<1>3. x \div m \in Nat
  BY SMT
<1> QED
  BY <1>1, <1>2, <1>3

(* Quotient and remainder are unique.                                      *)
LEMMA DivModIs ==
  ASSUME NEW x \in Nat, NEW m \in Nat, m > 0, NEW k \in Nat, NEW s \in Nat,
         s < m, x = m * k + s
  PROVE  x \div m = k /\ x % m = s
<1> DEFINE d == x \div m
           t == x % m
<1>1. x = m * d + t /\ d \in Nat /\ t \in Nat /\ t < m
  BY DivMod
<1> HIDE DEF d, t
<1>2. ~ (d < k)
  <2>1. d < k => m * (d + 1) <= m * k
    BY <1>1, Z3
  <2>2. m * (d + 1) = m * d + m
    BY <1>1, Z3
  <2> QED
    BY <1>1, <2>1, <2>2
<1>3. ~ (k < d)
  <2>1. k < d => m * (k + 1) <= m * d
    BY <1>1, Z3
  <2>2. m * (k + 1) = m * k + m
    BY Z3
  <2> QED
    BY <1>1, <2>1, <2>2
<1>4. d = k
  BY <1>1, <1>2, <1>3
<1>5. t = s
  BY <1>1, <1>4
<1> QED
  BY <1>4, <1>5 DEF d, t

(* A quotient is at least k when k divisors fit, and below k when not.     *)
LEMMA DivBounds ==
  ASSUME NEW x \in Nat, NEW m \in Nat, m > 0, NEW k \in Nat
  PROVE  /\ k * m <= x <=> k <= x \div m
         /\ x < k * m <=> x \div m < k
<1> DEFINE d == x \div m
           t == x % m
<1>1. x = m * d + t /\ d \in Nat /\ t \in Nat /\ t < m
  BY DivMod
<1> HIDE DEF d, t
<1>2. k <= d => k * m <= x
  <2>1. k <= d => k * m <= d * m
    BY <1>1, Monotone
  <2>2. d * m = m * d /\ d * m \in Nat /\ k * m \in Nat
    BY <1>1, Z3
  <2> QED
    BY <1>1, <2>1, <2>2
<1>3. d < k => x < k * m
  <2>1. d < k => (d + 1) * m <= k * m
    BY <1>1, Monotone
  <2>2. (d + 1) * m = m * d + m /\ k * m \in Nat
    BY <1>1, Z3
  <2> QED
    BY <1>1, <2>1, <2>2
<1>4. k * m \in Nat
  OBVIOUS
<1>5. (k <= d \/ d < k) /\ ~ (k <= d /\ d < k)
  BY <1>1
<1>6. ~ (k * m <= x /\ x < k * m) /\ (k * m <= x \/ x < k * m)
  BY <1>4
<1>7. (k * m <= x <=> k <= d) /\ (x < k * m <=> d < k)
  BY <1>2, <1>3, <1>5, <1>6
<1> QED
  BY <1>7 DEF d

-----------------------------------------------------------------------------
(* Limbs.                                                                  *)

LEMMA WeightFacts ==
  /\ MAX_LIMBS \in Nat /\ Base \in Nat /\ Base > 1 /\ Weight[0] = 1
  /\ \A i \in 0..MAX_LIMBS : Weight[i] \in Nat /\ Weight[i] > 0
  /\ \A i \in 0..(MAX_LIMBS - 1) : Weight[i + 1] = Base * Weight[i]
<1>0. MAX_LIMBS \in Nat /\ Weight \in [0..MAX_LIMBS -> Nat \ {0}]
  BY WeightAssumption
<1>1. \A i \in 0..MAX_LIMBS : Weight[i] \in Nat /\ Weight[i] > 0
  BY <1>0
<1>2. ASSUME NEW i \in 0..(MAX_LIMBS - 1) PROVE Weight[i + 1] = Base * Weight[i]
  <2>1. MAX_LIMBS > 0 /\ 1 \in 0..MAX_LIMBS /\ i \in 0..MAX_LIMBS /\ 1 + i <= MAX_LIMBS
    BY WeightAssumption
  <2>2. Weight[1 + i] = Weight[1] * Weight[i] /\ Weight[1] = Base
    BY <2>1, WeightAssumption
  <2>3. 1 + i = i + 1
    OBVIOUS
  <2> QED
    BY <2>2, <2>3
<1> QED
  BY <1>1, <1>2, WeightAssumption, BaseAssumption

LEMMA WeightsGrow ==
  ASSUME NEW i \in 0..MAX_LIMBS, NEW k \in 0..MAX_LIMBS, i <= k
  PROVE  Weight[i] <= Weight[k]
<1>1. k - i \in 0..MAX_LIMBS /\ i + (k - i) = k
  BY WeightFacts
<1>2. Weight[k] = Weight[i] * Weight[k - i]
  BY <1>1, WeightAssumption, WeightFacts
<1>3. Weight[i] \in Nat /\ Weight[k - i] \in Nat /\ 1 <= Weight[k - i]
  BY <1>1, WeightFacts
<1>4. 1 * Weight[i] <= Weight[k - i] * Weight[i]
  BY <1>3, Monotone
<1>5. Weight[k - i] * Weight[i] = Weight[i] * Weight[k - i] /\ 1 * Weight[i] = Weight[i]
  BY <1>3, Z3
<1> QED
  BY <1>2, <1>4, <1>5

(* LimbCount is what it says on every value that fits.                     *)
LEMMA LimbCountFacts ==
  ASSUME NEW v \in Nat, NEW k \in 1..MAX_LIMBS, v < Weight[k]
  PROVE  /\ LimbCount(v) \in 1..k
         /\ v < Weight[LimbCount(v)]
         /\ LimbCount(v) > 1 => v >= Weight[LimbCount(v) - 1]
<1> DEFINE T == {len \in 1..MAX_LIMBS : v < Weight[len]}
           len == LimbCount(v)
<1>1. T \in SUBSET Nat /\ T # {}
  BY WeightFacts
<1>2. PICK x \in T : \A y \in T : x <= y
  BY <1>1, LeastElement
<1>3. x \in 1..MAX_LIMBS /\ v < Weight[x]
  OBVIOUS
<1>4. x > 1 => v >= Weight[x - 1]
  <2> SUFFICES ASSUME x > 1 PROVE v >= Weight[x - 1]
    OBVIOUS
  <2>0. MAX_LIMBS \in Nat
    BY WeightFacts
  <2>1. x - 1 \in 1..MAX_LIMBS /\ x - 1 \notin T
    BY <1>2, <1>3, <2>0
  <2>2. Weight[x - 1] \in Nat
    BY <2>1, WeightFacts
  <2> QED
    BY <2>1, <2>2
<1>5. len \in 1..MAX_LIMBS /\ v < Weight[len] /\ (len > 1 => v >= Weight[len - 1])
  BY <1>3, <1>4 DEF LimbCount, HasLimbs
<1> HIDE DEF len, T
<1>6. len <= k
  <2> SUFFICES ASSUME k < len PROVE FALSE
    BY <1>5
  <2>0. MAX_LIMBS \in Nat
    BY WeightFacts
  <2>1. k \in 0..MAX_LIMBS /\ len - 1 \in 0..MAX_LIMBS /\ k <= len - 1 /\ len > 1
    BY <1>5, <2>0
  <2>2. Weight[k] <= Weight[len - 1] /\ Weight[k] \in Nat /\ Weight[len - 1] \in Nat
    BY <2>1, WeightsGrow, WeightFacts
  <2> QED
    BY <1>5, <2>1, <2>2
<1> QED
  BY <1>5, <1>6 DEF len

(* The top limb of a value of k limbs is what is left above the others.    *)
LEMMA TopLimb ==
  ASSUME NEW v \in Nat, NEW k \in 1..MAX_LIMBS, v < Weight[k]
  PROVE  /\ Limb(v, k - 1) = v \div Weight[k - 1]
         /\ Limb(v, k - 1) \in 0..(Base - 1)
         /\ Limb(v, k - 1) * Weight[k - 1] <= v
         /\ v < (Limb(v, k - 1) + 1) * Weight[k - 1]
         /\ v >= Weight[k - 1] => Limb(v, k - 1) >= 1
<1> DEFINE W == Weight[k - 1]
           t == v \div W
<1>1. W \in Nat /\ W > 0 /\ Weight[k] = Base * W /\ Base \in Nat /\ Base > 1
  <2>1. k - 1 \in 0..MAX_LIMBS /\ k - 1 \in 0..(MAX_LIMBS - 1) /\ (k - 1) + 1 = k
    BY WeightFacts
  <2> QED
    BY <2>1, WeightFacts
<1>a. Limb(v, k - 1) = t % Base
  BY DEF Limb
<1> HIDE DEF W
<1>2. t \in Nat
  BY <1>1, DivMod
<1>3. t < Base
  BY <1>1, DivBounds
<1>4. t * W <= v /\ v < (t + 1) * W /\ (v >= W => t >= 1)
  <2>1. t * W <= v
    BY <1>1, <1>2, DivBounds
  <2>2. v < (t + 1) * W
    BY <1>1, <1>2, DivBounds
  <2>3. v >= W => t >= 1
    <3>1. 1 * W <= v => 1 <= t
      BY <1>1, DivBounds
    <3> QED
      BY <1>1, <1>2, <3>1
  <2> QED
    BY <2>1, <2>2, <2>3
<1> HIDE DEF t
<1>5. t % Base = t
  BY <1>1, <1>2, <1>3
<1>6. Limb(v, k - 1) = t
  BY <1>a, <1>5
<1> QED
  BY <1>1, <1>2, <1>3, <1>4, <1>6 DEF t, W

-----------------------------------------------------------------------------
(* The scaled divisor.                                                     *)

LEMMA ModulusFacts ==
  ASSUME p \in ForeignModuli
  PROVE  /\ p \in Nat /\ p > 0
         /\ n \in 1..MAX_LIMBS /\ 2 * n + 2 <= MAX_LIMBS
         /\ Weight[n - 1] <= p /\ p < Weight[n]
<1>1. p \in Nat /\ p > 0
  BY ForeignModuliAssumption
<1>2. PICK len \in 1..MAX_LIMBS : p < Weight[len] /\ 2 * len + 2 <= MAX_LIMBS
  BY ForeignModuliAssumption
<1>3. /\ n \in 1..len /\ p < Weight[n]
      /\ n > 1 => p >= Weight[n - 1]
  BY <1>1, <1>2, LimbCountFacts DEF n
<1>4. MAX_LIMBS \in Nat /\ Weight[0] = 1
  BY WeightFacts
<1>5. n = 1 => Weight[n - 1] <= p
  BY <1>1, <1>4
<1>6. n \in 1..MAX_LIMBS /\ 2 * n + 2 <= MAX_LIMBS
  BY <1>2, <1>3, <1>4
<1>7. n - 1 \in 0..MAX_LIMBS /\ Weight[n - 1] \in Nat
  BY <1>4, <1>6, WeightFacts
<1> QED
  BY <1>1, <1>3, <1>5, <1>6, <1>7

LEMMA DivisorFacts ==
  ASSUME p \in ForeignModuli
  PROVE  /\ Scale \in Nat /\ Scale > 0 /\ Scale <= Base
         /\ Divisor \in Nat /\ Divisor > 0
         /\ Weight[n - 1] <= Divisor /\ Divisor < Weight[n]
<1> DEFINE t == Limb(p, n - 1)
           W == Weight[n - 1]
<1>1. /\ p \in Nat /\ p > 0
      /\ n \in 1..MAX_LIMBS /\ W <= p /\ p < Weight[n]
  BY ModulusFacts
<1>2. t \in 0..(Base - 1) /\ p < (t + 1) * W
  BY <1>1, TopLimb
<1>3. Base \in Nat /\ Base > 1 /\ W \in Nat /\ W > 0 /\ Weight[n] = Base * W
  <2>1. n - 1 \in 0..(MAX_LIMBS - 1) /\ n - 1 \in 0..MAX_LIMBS /\ (n - 1) + 1 = n
    BY <1>1, WeightFacts
  <2> QED
    BY <2>1, WeightFacts
<1>4. Scale = Base \div (t + 1) /\ Divisor = Scale * p
  BY DEF Scale, Divisor
<1> HIDE DEF t, W
<1>5. t + 1 \in Nat /\ t + 1 > 0 /\ t + 1 <= Base
  BY <1>2, <1>3
<1>6. Scale \in Nat /\ Scale > 0 /\ Scale * (t + 1) <= Base
  <2>1. Base = (t + 1) * Scale + (Base % (t + 1)) /\ Scale \in Nat /\ Base % (t + 1) \in Nat
    BY <1>3, <1>4, <1>5, DivMod
  <2>2. Scale * (t + 1) <= Base
    <3>1. (t + 1) * Scale = Scale * (t + 1) /\ Scale * (t + 1) \in Nat
      BY <1>5, <2>1, Z3
    <3> QED
      BY <1>3, <2>1, <3>1
  <2>3. 1 * (t + 1) <= Base
    BY <1>5
  <2>4. 1 <= Scale
    BY <1>3, <1>4, <1>5, <2>3, DivBounds
  <2> QED
    BY <2>1, <2>2, <2>4
<1>7. Scale <= Base
  <2>1. Scale * 1 <= Scale * (t + 1)
    BY <1>5, <1>6, Z3
  <2>2. Scale * (t + 1) \in Nat
    BY <1>5, <1>6
  <2> QED
    BY <1>3, <1>6, <2>1, <2>2
<1>8. Divisor \in Nat /\ p <= Divisor
  <2>1. 1 * p <= Scale * p
    BY <1>1, <1>6, Monotone
  <2> QED
    BY <1>1, <1>4, <1>6, <2>1
<1>9. Divisor < Weight[n]
  <2>1. p * Scale < ((t + 1) * W) * Scale
    BY <1>1, <1>2, <1>3, <1>5, <1>6, StrictlyMonotone
  <2>2. (Scale * (t + 1)) * W <= Base * W
    BY <1>3, <1>5, <1>6, Monotone
  <2>3. ((t + 1) * W) * Scale = (Scale * (t + 1)) * W
    BY <1>3, <1>5, <1>6, Z3
  <2>4. p * Scale = Divisor /\ Base * W \in Nat /\ (Scale * (t + 1)) * W \in Nat
    BY <1>1, <1>3, <1>4, <1>5, <1>6, Z3
  <2> QED
    BY <1>3, <1>8, <2>1, <2>2, <2>3, <2>4
<1> QED
  BY <1>1, <1>3, <1>6, <1>7, <1>8, <1>9 DEF W

(* A dividend that reduce scales is aligned.                               *)
LEMMA SmallIsAligned ==
  ASSUME p \in ForeignModuli, Dividend \in Nat, Dividend < Weight[n]
  PROVE  Aligned
<1> DEFINE scaled == Scale * Dividend
           W == Weight[n - 1]
           len == LimbCount(scaled)
<1>1. /\ p \in Nat /\ p > 0 /\ W <= p
      /\ n \in 1..MAX_LIMBS /\ 2 * n + 2 <= MAX_LIMBS
  BY ModulusFacts
<1>2. /\ Scale \in Nat /\ Scale > 0 /\ Scale <= Base
      /\ Divisor \in Nat /\ W <= Divisor
  BY DivisorFacts
<1>3. /\ Base \in Nat /\ Base > 1 /\ W \in Nat /\ W > 0 /\ MAX_LIMBS \in Nat
      /\ Weight[n] = Base * W /\ Weight[n + 1] = Base * Weight[n] /\ Weight[n] \in Nat
      /\ Weight[1] = Base
  <2>1. /\ MAX_LIMBS \in Nat /\ n - 1 \in 0..(MAX_LIMBS - 1) /\ n - 1 \in 0..MAX_LIMBS
        /\ (n - 1) + 1 = n /\ n \in 0..(MAX_LIMBS - 1) /\ n \in 0..MAX_LIMBS /\ MAX_LIMBS > 0
    BY <1>1, WeightFacts
  <2> QED
    BY <2>1, WeightFacts, WeightAssumption
<1>4. scaled \in Nat /\ scaled < Scale * Weight[n]
  <2>1. Dividend * Scale < Weight[n] * Scale
    BY <1>2, <1>3, StrictlyMonotone
  <2>2. Dividend * Scale = scaled /\ Weight[n] * Scale = Scale * Weight[n] /\ scaled \in Nat
    BY <1>2, <1>3, Z3
  <2> QED
    BY <2>1, <2>2
<1>5. scaled < Weight[n + 1]
  <2>1. Scale * Weight[n] <= Base * Weight[n]
    BY <1>2, <1>3, Monotone
  <2>2. Scale * Weight[n] \in Nat /\ Base * Weight[n] \in Nat
    BY <1>2, <1>3
  <2> QED
    BY <1>3, <1>4, <2>1, <2>2
<1> HIDE DEF scaled
<1>6. len \in 1..(n + 1) /\ scaled < Weight[len]
  <2>1. n + 1 \in 1..MAX_LIMBS
    BY <1>1, <1>3
  <2> QED
    BY <1>4, <1>5, <2>1, LimbCountFacts
<1>7. FirstPosition(scaled) = 0
  BY <1>1, <1>6 DEF FirstPosition
<1>8. scaled < Divisor * Base
  <2>1. Scale * Weight[n] <= Divisor * Base
    <3>1. (Scale * Base) * W <= (Scale * Base) * p
      BY <1>1, <1>2, <1>3, Z3
    <3>2. Scale * Weight[n] = (Scale * Base) * W /\ (Scale * Base) * p = Divisor * Base
      BY <1>1, <1>2, <1>3, Z3 DEF Divisor
    <3> QED
      BY <3>1, <3>2
  <2>2. Scale * Weight[n] \in Nat /\ Divisor * Base \in Nat
    BY <1>2, <1>3
  <2> QED
    BY <1>4, <2>1, <2>2
<1> QED
  BY <1>3, <1>7, <1>8 DEF Aligned, scaled

-----------------------------------------------------------------------------
(* One digit. The window w is to be divided by b. The limbs below the two  *)
(* that an estimate looks at weigh V; top and next are the two top limbs   *)
(* of b, num and low the two top limbs of w and the one below them.        *)

DigitSetting(w, b, V, top, next, num, low) ==
    /\ w \in Nat /\ b \in Nat /\ V \in Nat /\ top \in Nat /\ next \in Nat
    /\ num \in Nat /\ low \in Nat
    /\ V > 0 /\ top > 0 /\ next < Base /\ low < Base
    /\ (top * Base + next) * V <= b /\ b < (top * Base + next + 1) * V
    /\ (num * Base + low) * V <= w /\ w < (num * Base + low + 1) * V

LEMMA BaseFacts == Base \in Nat /\ Base > 1
BY BaseAssumption

(* The correction compares the estimate, times the two top limbs of the    *)
(* divisor, with the three top limbs of the window.                        *)
LEMMA CorrectionCompares ==
  ASSUME NEW top \in Nat, NEW next \in Nat, NEW low \in Nat,
         NEW qh \in Nat, NEW rh \in Nat
  PROVE  qh * next > rh * Base + low
            <=> qh * (top * Base + next) > (qh * top + rh) * Base + low
<1>1. /\ qh * (top * Base + next) = (qh * top) * Base + qh * next
      /\ (qh * top + rh) * Base = (qh * top) * Base + rh * Base
  BY BaseFacts, Z3
<1>2. /\ (qh * top) * Base \in Nat /\ qh * next \in Nat /\ rh * Base \in Nat
  BY BaseFacts
<1> QED
  BY <1>1, <1>2

(* The first estimate is not below the digit.                              *)
LEMMA EstimateIsAbove ==
  ASSUME NEW w \in Nat, NEW b \in Nat, NEW V1 \in Nat, V1 > 0,
         NEW top \in Nat, top > 0, top * V1 <= b
  PROVE  (w \div b) <= (w \div V1) \div top
<1> DEFINE t == w \div b
           num == w \div V1
<1>1. b \in Nat /\ b > 0
  BY Z3
<1>2. t \in Nat /\ num \in Nat
  BY <1>1, DivMod
<1>3. t * b <= w
  <2>1. t <= w \div b
    BY <1>2
  <2> QED
    BY <1>1, <1>2, <2>1, DivBounds
<1> HIDE DEF t, num
<1>4. (t * top) * V1 <= w
  <2>1. (top * V1) * t <= b * t
    BY <1>1, <1>2, Monotone
  <2>2. (top * V1) * t = (t * top) * V1 /\ b * t = t * b
    BY <1>1, <1>2, Z3
  <2>3. (t * top) * V1 \in Nat /\ t * b \in Nat
    BY <1>1, <1>2
  <2> QED
    BY <1>3, <2>1, <2>2, <2>3
<1>5. t * top <= num
  BY <1>2, <1>4, DivBounds DEF num
<1> QED
  BY <1>2, <1>5, DivBounds DEF t, num

(* The digit of an aligned window fits in a limb.                          *)
LEMMA DigitFits ==
  ASSUME NEW w \in Nat, NEW b \in Nat, b > 0, w < Base * b
  PROVE  w \div b < Base
BY BaseFacts, DivBounds

(* An estimate that is shown to be too large is above the digit.           *)
LEMMA TooLargeIsAbove ==
  ASSUME NEW w, NEW b, NEW V, NEW top, NEW next, NEW num, NEW low,
         DigitSetting(w, b, V, top, next, num, low), w < Base * b,
         NEW qh \in Nat, w \div b <= qh,
         qh >= Base \/ qh * (top * Base + next) > num * Base + low
  PROVE  w \div b <= qh - 1
<1> DEFINE t == w \div b
           v == top * Base + next
           N == num * Base + low
<1>1. /\ w \in Nat /\ b \in Nat /\ V \in Nat /\ V > 0 /\ v \in Nat /\ N \in Nat
      /\ v * V <= b /\ w < (N + 1) * V /\ v > 0
  BY BaseFacts, Z3 DEF DigitSetting
<1>2. b > 0
  BY <1>1, Z3
<1>3. t \in Nat /\ t < Base /\ t * b <= w
  <2>1. t \in Nat
    BY <1>1, <1>2, DivMod
  <2>2. t <= w \div b
    BY <2>1
  <2> QED
    BY <1>1, <1>2, <2>1, <2>2, DivBounds, DigitFits
<1>4. t <= qh /\ (qh >= Base \/ qh * v > N)
  OBVIOUS
<1> HIDE DEF t, v, N
<1>5. t * v <= N
  <2>1. (v * V) * t <= b * t
    BY <1>1, <1>3, Monotone
  <2>2. (v * V) * t = (t * v) * V /\ b * t = t * b
    BY <1>1, <1>3, Z3
  <2>3. (t * v) * V < (N + 1) * V
    <3>1. (t * v) * V \in Nat /\ t * b \in Nat /\ (N + 1) * V \in Nat
      BY <1>1, <1>3
    <3> QED
      BY <1>1, <1>3, <2>1, <2>2, <3>1
  <2>4. t * v \in Nat
    BY <1>1, <1>3
  <2>5. N + 1 <= t * v => (N + 1) * V <= (t * v) * V
    BY <1>1, <2>4, Monotone
  <2>6. (t * v) * V \in Nat /\ (N + 1) * V \in Nat
    BY <1>1, <2>4
  <2> QED
    BY <1>1, <2>3, <2>4, <2>5, <2>6
<1>6. t # qh
  BY <1>1, <1>3, <1>4, <1>5, BaseFacts
<1>7. t <= qh - 1
  BY <1>3, <1>4, <1>6
<1> QED
  BY <1>7 DEF t

(* When the correction stops, the estimate is too large by at most 1.      *)
LEMMA EstimateIsClose ==
  ASSUME NEW w, NEW b, NEW V, NEW top, NEW next, NEW num, NEW low,
         DigitSetting(w, b, V, top, next, num, low),
         NEW qh \in Nat, qh < Base,
         qh * (top * Base + next) <= num * Base + low
  PROVE  qh * b < w + b
<1> DEFINE v == top * Base + next
           N == num * Base + low
<1>1. /\ w \in Nat /\ b \in Nat /\ V \in Nat /\ V > 0 /\ v \in Nat /\ N \in Nat
      /\ v * V <= b /\ b < (v + 1) * V /\ N * V <= w
      /\ top * Base \in Nat /\ top * Base >= Base /\ next \in Nat
  BY BaseFacts, Z3 DEF DigitSetting
<1>2. Base <= v
  BY <1>1, BaseFacts
<1>3. qh * v <= N
  OBVIOUS
<1> HIDE DEF v, N
<1>4. qh * b <= (qh * v) * V + qh * V
  <2>1. b * qh <= ((v + 1) * V) * qh
    <3>1. b <= (v + 1) * V /\ (v + 1) * V \in Nat
      BY <1>1
    <3> QED
      BY <1>1, <3>1, Monotone
  <2>2. ((v + 1) * V) * qh = (qh * v) * V + qh * V /\ b * qh = qh * b
    BY <1>1, Z3
  <2> QED
    BY <2>1, <2>2
<1>5. (qh * v) * V <= N * V
  BY <1>1, <1>3, Monotone
<1>6. qh * V < Base * V /\ Base * V <= v * V
  BY <1>1, <1>2, BaseFacts, StrictlyMonotone, Monotone
<1>7. /\ qh * b \in Nat /\ (qh * v) * V \in Nat /\ N * V \in Nat /\ qh * V \in Nat
      /\ Base * V \in Nat /\ v * V \in Nat
  BY <1>1, BaseFacts
<1> QED
  BY <1>1, <1>4, <1>5, <1>6, <1>7

(* When the remainder of the estimate outgrows a limb, it is not too large. *)
LEMMA OutgrownIsClose ==
  ASSUME NEW w, NEW b, NEW V, NEW top, NEW next, NEW num, NEW low,
         DigitSetting(w, b, V, top, next, num, low), w < Base * b,
         NEW qh \in Nat, NEW rh \in Nat, rh >= Base, qh * top + rh = num
  PROVE  qh < Base /\ qh * (top * Base + next) <= num * Base + low
<1>1. /\ w \in Nat /\ b \in Nat /\ V \in Nat /\ V > 0 /\ top \in Nat /\ next \in Nat
      /\ num \in Nat /\ low \in Nat /\ top > 0 /\ next < Base
      /\ b < (top * Base + next + 1) * V /\ (num * Base + low) * V <= w
  BY DEF DigitSetting
<1>2. (num * Base) * V < Base * (((top + 1) * Base) * V)
  <2>1. b <= ((top + 1) * Base) * V
    <3>1. top * Base + next + 1 <= (top + 1) * Base
      BY <1>1, BaseFacts, Z3
    <3>2. (top * Base + next + 1) * V <= ((top + 1) * Base) * V
      <4>1. top * Base + next + 1 \in Nat /\ (top + 1) * Base \in Nat
        BY <1>1, BaseFacts
      <4> QED
        BY <1>1, <3>1, <4>1, Monotone
    <3>3. (top * Base + next + 1) * V \in Nat /\ ((top + 1) * Base) * V \in Nat
      BY <1>1, BaseFacts
    <3> QED
      BY <1>1, <3>2, <3>3
  <2>2. Base * b <= Base * (((top + 1) * Base) * V)
    <3>1. ((top + 1) * Base) * V \in Nat
      BY <1>1, BaseFacts
    <3>2. b * Base <= (((top + 1) * Base) * V) * Base
      BY <1>1, <2>1, <3>1, BaseFacts, Monotone
    <3> QED
      BY <1>1, <3>1, <3>2, BaseFacts, Z3
  <2>3. (num * Base) * V <= (num * Base + low) * V
    <3>1. num * Base \in Nat /\ num * Base <= num * Base + low
      BY <1>1, BaseFacts
    <3> QED
      BY <1>1, <3>1, Monotone
  <2>4. /\ (num * Base) * V \in Nat /\ (num * Base + low) * V \in Nat
        /\ Base * b \in Nat /\ Base * (((top + 1) * Base) * V) \in Nat
    BY <1>1, BaseFacts
  <2> QED
    BY <1>1, <2>2, <2>3, <2>4
<1>3. num < (top + 1) * Base
  <2> DEFINE X == Base * V
  <2>1. X \in Nat /\ X > 0
    BY <1>1, BaseFacts, Z3
  <2>2. num * X < ((top + 1) * Base) * X
    BY <1>1, <1>2, BaseFacts, Z3
  <2>3. (top + 1) * Base \in Nat
    BY <1>1, BaseFacts
  <2> HIDE DEF X
  <2>4. (top + 1) * Base <= num => ((top + 1) * Base) * X <= num * X
    BY <1>1, <2>1, <2>3, Monotone
  <2>5. num * X \in Nat /\ ((top + 1) * Base) * X \in Nat
    BY <1>1, <2>1, <2>3
  <2> QED
    BY <1>1, <2>2, <2>3, <2>4, <2>5
<1>4. qh < Base
  <2>1. Base <= qh => Base * top <= qh * top
    BY <1>1, BaseFacts, Monotone
  <2>2. (top + 1) * Base = Base * top + Base /\ Base * top \in Nat /\ qh * top \in Nat
    BY <1>1, BaseFacts, Z3
  <2> QED
    BY <1>1, <1>3, <2>1, <2>2, BaseFacts
<1>5. qh * next <= rh * Base + low
  <2>1. qh * next <= Base * next
    BY <1>1, <1>4, BaseFacts, Monotone
  <2>2. next * Base <= rh * Base
    BY <1>1, BaseFacts, Monotone
  <2>3. Base * next = next * Base /\ qh * next \in Nat /\ rh * Base \in Nat /\ next * Base \in Nat
    BY <1>1, BaseFacts, Z3
  <2> QED
    BY <1>1, <2>1, <2>2, <2>3
<1>6. ~ (qh * (top * Base + next) > num * Base + low)
  <2>1. ~ (qh * next > rh * Base + low)
    <3>1. qh * next \in Nat /\ rh * Base + low \in Nat
      BY <1>1, BaseFacts
    <3> QED
      BY <1>5, <3>1
  <2> QED
    BY <1>1, <2>1, CorrectionCompares
<1> QED
  <2>1. qh * (top * Base + next) \in Nat /\ num * Base + low \in Nat
    BY <1>1, BaseFacts
  <2> QED
    BY <1>4, <1>6, <2>1

(* So one addition of the divisor gives the digit and the remainder.       *)
LEMMA DigitIsExact ==
  ASSUME NEW w \in Nat, NEW b \in Nat, b > 0, NEW S \in Nat, NEW qh \in Nat,
         qh * b < S, b < S, w < S, w \div b <= qh, qh * b < w + b
  PROVE  LET product == (qh * b) % S
         IN  /\ (IF w < product THEN qh - 1 ELSE qh) = w \div b
             /\ (IF w < product THEN (w - product + S + b) % S ELSE w - product) = w % b
<1> DEFINE t == w \div b
           s == w % b
<1>1. w = b * t + s /\ t \in Nat /\ s \in Nat /\ s < b /\ t <= qh
  BY DivMod
<1>2. qh * b \in Nat /\ (qh * b) % S = qh * b
  BY Z3
<1> HIDE DEF t, s
<1>3. b * t = t * b /\ t * b \in Nat
  BY <1>1, Z3
<1>4. qh <= t + 1
  <2>1. t + 2 <= qh => (t + 2) * b <= qh * b
    BY <1>1, Monotone
  <2>2. (t + 2) * b = t * b + b + b
    BY <1>1, Z3
  <2> QED
    BY <1>1, <1>2, <1>3, <2>1, <2>2
<1>5. CASE qh = t
  <2>1. ~ (w < qh * b) /\ w - qh * b = s
    BY <1>1, <1>2, <1>3, <1>5
  <2> QED
    BY <1>2, <1>5, <2>1 DEF t, s
<1>6. CASE qh = t + 1
  <2>1. qh * b = t * b + b
    BY <1>1, <1>6, Z3
  <2>2. w < qh * b /\ w - qh * b + S + b = S + s
    BY <1>1, <1>2, <1>3, <2>1
  <2>3. (S + s) % S = s
    <3>1. S + s \in Nat /\ S > 0 /\ S + s = S * 1 + s /\ s < S
      BY <1>1
    <3> QED
      BY <1>1, <3>1, DivModIs
  <2>4. qh - 1 = t
    BY <1>1, <1>6
  <2> QED
    BY <1>2, <2>2, <2>3, <2>4 DEF t, s
<1> QED
  BY <1>1, <1>4, <1>5, <1>6

-----------------------------------------------------------------------------
(* The state.                                                              *)

LEMMA FieldUnchanged ==
  ASSUME p' = p
  PROVE  /\ n' = n /\ Scale' = Scale /\ Divisor' = Divisor /\ Fp' = Fp
         /\ \A e, f : Invalid(e, f)' = Invalid(e, f)
<1>1. n' = n
  BY DEF n
<1>2. Scale' = Scale
  BY <1>1 DEF Scale
<1>3. Divisor' = Divisor
  BY <1>2 DEF Divisor
<1>4. Fp' = Fp
  BY <1>1 DEF Fp
<1>5. \A e : AssertValid(e)' = AssertValid(e)
  BY <1>1 DEF AssertValid
<1>6. \A e, f : Invalid(e, f)' = Invalid(e, f)
  BY <1>5 DEF Invalid
<1> QED
  BY <1>1, <1>2, <1>3, <1>4, <1>6

LEMMA CallUnchanged ==
  ASSUME p' = p, call' = call
  PROVE  Dividend' = Dividend /\ Aligned' = Aligned
<1>1. Dividend' = Dividend
  BY DEF Dividend
<1> QED
  BY <1>1, FieldUnchanged DEF Aligned, FirstPosition

LEMMA WindowUnchanged ==
  ASSUME p' = p, a' = a, place' = place
  PROVE  Window' = Window
BY FieldUnchanged DEF Window

(* Weights that the division looks at.                                     *)
LEMMA FieldWeights ==
  ASSUME p \in ForeignModuli
  PROVE  /\ n \in Nat /\ n > 0 /\ MAX_LIMBS \in Nat /\ 2 * n + 2 <= MAX_LIMBS
         /\ Weight[n - 1] \in Nat /\ Weight[n - 1] > 0
         /\ Weight[n] \in Nat /\ Weight[n] = Base * Weight[n - 1] /\ Weight[n] > 0
         /\ Weight[n + 1] \in Nat /\ Weight[n + 1] = Base * Weight[n] /\ Weight[n + 1] > 0
         /\ n > 1 => /\ Weight[n - 2] \in Nat /\ Weight[n - 2] > 0
                     /\ Weight[n - 1] = Base * Weight[n - 2]
<1>1. n \in 1..MAX_LIMBS /\ 2 * n + 2 <= MAX_LIMBS /\ MAX_LIMBS \in Nat
  BY ModulusFacts, WeightFacts
<1>2. /\ n - 1 \in 0..(MAX_LIMBS - 1) /\ n - 1 \in 0..MAX_LIMBS /\ (n - 1) + 1 = n
      /\ n \in 0..(MAX_LIMBS - 1) /\ n \in 0..MAX_LIMBS /\ n + 1 \in 0..MAX_LIMBS
      /\ n > 1 => n - 2 \in 0..(MAX_LIMBS - 1) /\ n - 2 \in 0..MAX_LIMBS /\ (n - 2) + 1 = n - 1
  BY <1>1
<1> QED
  BY <1>1, <1>2, WeightFacts

(* The value of an element fits in its limbs.                              *)
LEMMA FpFacts ==
  ASSUME p \in ForeignModuli, NEW e \in Fp
  PROVE  e.value \in 0..(Weight[n] - 1)
<1>1. Weight[n] \in Nat /\ Weight[n] > 0
  BY FieldWeights
<1>2. 0 \in 0..(Weight[n] - 1)
  BY <1>1
<1>3. CASE e \in [len : {n}, wide : {FALSE}, value : 0..(Weight[n] - 1)]
  BY <1>3
<1>4. CASE e \in [len : {n}, wide : {TRUE}, value : {0}]
  BY <1>2, <1>4
<1>5. CASE e \in [len : {n + 1}, wide : BOOLEAN, value : {0}]
  BY <1>2, <1>5
<1> QED
  BY <1>3, <1>4, <1>5 DEF Fp

(* The operands of a call, and their product, are small enough.            *)
LEMMA DividendFacts ==
  ASSUME TypeOK, call.op \in {"mul", "reduce"}
  PROVE  /\ Dividend \in Nat /\ Dividend < Weight[n] * Weight[n]
         /\ call.op = "reduce" => Dividend = call.e.value /\ Dividend < Weight[n]
<1>1. p \in ForeignModuli /\ call \in [op : {"from_u256", "add", "mul", "reduce"}, e : Fp, f : Fp]
  BY DEF TypeOK, NoCall
<1>2. Weight[n] \in Nat /\ Weight[n] > 0
  BY <1>1, FieldWeights
<1>3. \A e \in Fp : e.value \in 0..(Weight[n] - 1)
  BY <1>1, FpFacts
<1> DEFINE x == call.e.value
           y == call.f.value
<1>4. x \in Nat /\ y \in Nat /\ x < Weight[n] /\ y < Weight[n]
  BY <1>1, <1>2, <1>3
<1>5. Dividend = IF call.op = "mul" THEN x * y ELSE x
  BY DEF Dividend
<1> HIDE DEF x, y
<1>6. x * y \in Nat /\ x * y < Weight[n] * Weight[n]
  <2>1. x * y <= Weight[n] * y
    BY <1>2, <1>4, Monotone
  <2>2. y * Weight[n] < Weight[n] * Weight[n]
    BY <1>2, <1>4, StrictlyMonotone
  <2>3. y * Weight[n] = Weight[n] * y /\ Weight[n] * y \in Nat /\ x * y \in Nat
        /\ Weight[n] * Weight[n] \in Nat
    BY <1>2, <1>4, Z3
  <2> QED
    BY <2>1, <2>2, <2>3
<1>7. x < Weight[n] * Weight[n]
  <2>1. 1 * Weight[n] <= Weight[n] * Weight[n]
    BY <1>2, Monotone
  <2>2. Weight[n] * Weight[n] \in Nat
    BY <1>2
  <2> QED
    BY <1>2, <1>4, <2>1, <2>2
<1> QED
  BY <1>4, <1>5, <1>6, <1>7 DEF x

(* The window is part of the dividend.                                     *)
LEMMA WindowFacts ==
  ASSUME TypeOK, PositionOK, pc \in {"digit", "correct", "subtract"}
  PROVE  /\ Weight[place] \in Nat /\ Weight[place] > 0
         /\ Window \in Nat /\ Window < Weight[n + 1]
         /\ Weight[place] * Window <= a
         /\ Aligned /\ DivisionIsExact =>
               /\ Window < Base * Divisor
               /\ Window = a \div Weight[place]
<1> DEFINE X == Weight[place]
           S == Weight[n + 1]
           d == a \div X
<1>1. a \in Nat /\ p \in ForeignModuli /\ place \in 0..(MAX_LIMBS - n - 1)
  BY DEF TypeOK, PositionOK
<1>2. n \in Nat /\ n > 0 /\ MAX_LIMBS \in Nat /\ S \in Nat /\ S > 0 /\ S = Base * Weight[n]
      /\ Weight[n] \in Nat
  BY <1>1, FieldWeights
<1>3. X \in Nat /\ X > 0 /\ Weight[place + 1] = Base * X
  <2>1. place \in 0..(MAX_LIMBS - 1) /\ place \in 0..MAX_LIMBS
    BY <1>1, <1>2
  <2> QED
    BY <2>1, WeightFacts
<1>4. Window = d % S
  BY DEF Window
<1>5. DivisionIsExact /\ Aligned => a < Divisor * Weight[place + 1]
  BY DEF DivisionIsExact, Dividing
<1> HIDE DEF S
<1>6. d \in Nat /\ X * d <= a
  <2>1. a = X * d + (a % X) /\ d \in Nat /\ a % X \in Nat
    BY <1>1, <1>3, DivMod
  <2>2. X * d \in Nat
    BY <1>3, <2>1
  <2> QED
    BY <1>1, <2>1, <2>2
<1> HIDE DEF X, d
<1>7. d % S \in Nat /\ d % S < S /\ d % S <= d
  <2>1. d = S * (d \div S) + (d % S) /\ d \div S \in Nat /\ d % S \in Nat /\ d % S < S
    BY <1>2, <1>6, DivMod
  <2>2. S * (d \div S) \in Nat
    BY <1>2, <2>1
  <2> QED
    BY <1>6, <2>1, <2>2
<1>8. X * (d % S) <= a
  <2>1. (d % S) * X <= d * X
    BY <1>3, <1>6, <1>7, Monotone
  <2>2. (d % S) * X = X * (d % S) /\ d * X = X * d /\ X * d \in Nat /\ X * (d % S) \in Nat
    BY <1>3, <1>6, <1>7, Z3
  <2> QED
    BY <1>1, <1>6, <2>1, <2>2
<1>9. ASSUME Aligned, DivisionIsExact
      PROVE  d < Base * Divisor /\ d % S = d
  <2>0. Divisor \in Nat /\ Divisor < Weight[n] /\ Divisor > 0
    BY <1>1, DivisorFacts
  <2>1. a < (Base * Divisor) * X
    BY <1>3, <1>5, <1>9, <2>0, BaseFacts, Z3
  <2>2. Base * Divisor \in Nat
    BY <2>0, BaseFacts
  <2>3. d < Base * Divisor
    BY <1>1, <1>3, <2>1, <2>2, DivBounds DEF d
  <2>4. Base * Divisor < S
    <3>1. Divisor * Base < Weight[n] * Base
      BY <1>2, <2>0, BaseFacts, StrictlyMonotone
    <3> QED
      BY <1>2, <2>0, <3>1, BaseFacts, Z3
  <2>5. d < S
    BY <1>2, <1>6, <2>2, <2>3, <2>4
  <2> QED
    BY <1>2, <1>6, <2>3, <2>5
<1> QED
  BY <1>3, <1>4, <1>6, <1>7, <1>8, <1>9 DEF X, S, d

(* Two limbs on top of the others.                                         *)
LEMMA TwoLimbs ==
  ASSUME NEW x \in Nat, NEW V \in Nat, V > 0
  PROVE  x \div V = (x \div (Base * V)) * Base + ((x \div V) % Base)
<1> DEFINE v == x \div V
           s == x % V
           u == v \div Base
           l == v % Base
<1>1. x = V * v + s /\ v \in Nat /\ s \in Nat /\ s < V
  BY DivMod
<1>2. v = Base * u + l /\ u \in Nat /\ l \in Nat /\ l < Base
  BY <1>1, BaseFacts, DivMod
<1> HIDE DEF v, s, u, l
<1>3. Base * V \in Nat /\ Base * V > 0
  BY BaseFacts, Z3
<1>4. x = (Base * V) * u + (V * l + s)
  <2>1. V * (Base * u + l) = (Base * V) * u + V * l
    BY <1>2, BaseFacts, Z3
  <2>2. V * l \in Nat /\ (Base * V) * u \in Nat
    BY <1>2, <1>3
  <2> QED
    BY <1>1, <1>2, <2>1, <2>2
<1>5. V * l + s \in Nat /\ V * l + s < Base * V
  <2>1. (l + 1) * V <= Base * V
    BY <1>2, BaseFacts, Monotone
  <2>2. (l + 1) * V = V * l + V /\ V * l \in Nat
    BY <1>2, Z3
  <2> QED
    BY <1>1, <1>3, <2>1, <2>2
<1>6. x \div (Base * V) = u
  BY <1>2, <1>3, <1>4, <1>5, DivModIs
<1>7. v = u * Base + l
  BY <1>1, <1>2, BaseFacts, Z3
<1> QED
  BY <1>6, <1>7 DEF v, l

LEMMA SettingHolds ==
  ASSUME TypeOK, PositionOK, pc \in {"digit", "correct", "subtract"}, n > 1
  PROVE  DigitSetting(Window, Divisor, Weight[n - 2], Limb(Divisor, n - 1),
                      Limb(Divisor, n - 2), Window \div Weight[n - 1], Limb(Window, n - 2))
<1> DEFINE V == Weight[n - 2]
           V1 == Weight[n - 1]
           top == Limb(Divisor, n - 1)
           next == Limb(Divisor, n - 2)
           num == Window \div V1
           low == Limb(Window, n - 2)
<1>1. p \in ForeignModuli /\ Window \in Nat
  BY WindowFacts DEF TypeOK
<1>2. V \in Nat /\ V > 0 /\ V1 = Base * V /\ V1 \in Nat /\ V1 > 0
  BY <1>1, FieldWeights
<1>3. Divisor \in Nat /\ V1 <= Divisor /\ Divisor < Weight[n] /\ n \in 1..MAX_LIMBS
  BY <1>1, DivisorFacts, ModulusFacts
<1>4. top = Divisor \div V1 /\ top \in Nat /\ top > 0
  BY <1>3, BaseFacts, TopLimb
<1>5. next = (Divisor \div V) % Base /\ low = (Window \div V) % Base
  BY DEF Limb
<1> HIDE DEF V, V1
<1>6. Divisor \div V = top * Base + next /\ Window \div V = num * Base + low
  BY <1>1, <1>2, <1>3, <1>4, <1>5, TwoLimbs
<1>7. num \in Nat /\ Window \div V \in Nat /\ Divisor \div V \in Nat
  BY <1>1, <1>2, <1>3, DivMod
<1>8. next \in Nat /\ next < Base /\ low \in Nat /\ low < Base
  BY <1>5, <1>7, BaseFacts, DivMod
<1> HIDE DEF top, next, num, low
<1>9. \A x \in Nat : (x \div V) * V <= x /\ x < ((x \div V) + 1) * V
  <2> SUFFICES ASSUME NEW x \in Nat PROVE (x \div V) * V <= x /\ x < ((x \div V) + 1) * V
    OBVIOUS
  <2> DEFINE d == x \div V
  <2>1. d \in Nat /\ d + 1 \in Nat /\ d <= x \div V /\ x \div V < d + 1
    BY <1>2, DivMod
  <2> HIDE DEF d
  <2>2. d * V <= x /\ x < (d + 1) * V
    BY <1>2, <2>1, DivBounds
  <2> QED
    BY <2>2 DEF d
<1>10. /\ (top * Base + next) * V <= Divisor /\ Divisor < (top * Base + next + 1) * V
       /\ (num * Base + low) * V <= Window /\ Window < (num * Base + low + 1) * V
  BY <1>1, <1>3, <1>6, <1>9
<1>11. DigitSetting(Window, Divisor, V, top, next, num, low)
  BY <1>1, <1>2, <1>3, <1>4, <1>7, <1>8, <1>10 DEF DigitSetting
<1> QED
  BY <1>11 DEF V, V1, top, next, num, low

-----------------------------------------------------------------------------
(* The steps of a division.                                                *)

Results == ReduceIsCanonical /\ AlignedMulIsCanonical /\ MulIsCongruent /\ AddIsExact

(* Nothing is said of an answer before there is one.                       *)
LEMMA NoResultYet ==
  ASSUME pc' # "answered"
  PROVE  Results'
BY DEF Results, Answered, ReduceIsCanonical, AlignedMulIsCanonical, MulIsCongruent, AddIsExact

LEMMA NextInvariant ==
  ASSUME TypeOK', OperandsAreValid', PositionOK',
         DivisionIsExact', EstimateIsEnough', RemainderIsExact', Results'
  PROVE  IInv'
BY DEF IInv, Results

(* Validated operands stay validated while their call runs.                *)
LEMMA OperandsStay ==
  ASSUME OperandsAreValid, pc \notin {"idle", "answered"}, p' = p, call' = call
  PROVE  OperandsAreValid'
BY FieldUnchanged DEF OperandsAreValid

LEMMA DivideSmallStep ==
  ASSUME IInv, DivideSmall
  PROVE  IInv'
<1>1. /\ TypeOK /\ OperandsAreValid /\ PositionOK /\ pc = "divide" /\ pc' = "check"
      /\ p' = p /\ call' = call /\ q' = q /\ r' = Dividend /\ Dividend < p
      /\ UNCHANGED <<a, place, qhat, rhat, returned>>
  BY DEF IInv, DivideSmall
<1>2. Dividend \in Nat /\ p \in ForeignModuli
  BY <1>1, DividendFacts DEF OperandsAreValid, TypeOK
<1>3. p \in Nat /\ p < Weight[n] /\ Weight[n] \in Nat
  BY <1>2, ModulusFacts, FieldWeights
<1>4. TypeOK'
  BY <1>1, <1>2, FieldUnchanged DEF TypeOK
<1>5. PositionOK' /\ DivisionIsExact' /\ EstimateIsEnough'
  BY <1>1 DEF PositionOK, DivisionIsExact, Dividing, EstimateIsEnough
<1>6. RemainderIsExact'
  <2>1. q = 0
    BY <1>1 DEF PositionOK
  <2>2. q * p + Dividend = Dividend
    BY <1>2, <1>3, <2>1
  <2>3. Dividend < Weight[n]
    BY <1>1, <1>2, <1>3
  <2> QED
    BY <1>1, <2>2, <2>3, FieldUnchanged, CallUnchanged DEF RemainderIsExact
<1> QED
  BY <1>1, <1>4, <1>5, <1>6, OperandsStay, NoResultYet, NextInvariant

LEMMA NormalizeStep ==
  ASSUME IInv, Normalize
  PROVE  IInv'
<1> DEFINE scaled == Scale * Dividend
<1>1. /\ TypeOK /\ OperandsAreValid /\ PositionOK /\ pc = "divide" /\ pc' = "digit"
      /\ p' = p /\ call' = call /\ q' = q /\ a' = scaled /\ place' = FirstPosition(scaled)
      /\ UNCHANGED <<qhat, rhat, r, returned>>
  BY DEF IInv, Normalize
<1>2. Dividend \in Nat /\ Dividend < Weight[n] * Weight[n] /\ p \in ForeignModuli
  BY <1>1, DividendFacts DEF OperandsAreValid, TypeOK
<1>3. Scale \in Nat /\ Scale > 0 /\ Scale <= Base /\ Divisor \in Nat
  BY <1>2, DivisorFacts
<1>4. /\ n \in Nat /\ n > 0 /\ MAX_LIMBS \in Nat /\ 2 * n + 2 <= MAX_LIMBS
      /\ Weight[n] \in Nat
  BY <1>2, FieldWeights
<1>5. Weight[2 * n + 1] = Base * (Weight[n] * Weight[n])
  <2>1. n \in 0..MAX_LIMBS /\ n + n <= MAX_LIMBS /\ n + n = 2 * n
        /\ 2 * n \in 0..(MAX_LIMBS - 1)
    BY <1>4
  <2>2. Weight[n + n] = Weight[n] * Weight[n]
    BY <2>1, WeightAssumption
  <2> QED
    BY <2>1, <2>2, WeightFacts
<1>6. scaled \in Nat
  BY <1>2, <1>3
<1>7. scaled < Weight[2 * n + 1]
  <2> DEFINE M == Weight[n] * Weight[n]
  <2>1. M \in Nat /\ Dividend < M
    BY <1>2, <1>4
  <2> HIDE DEF M
  <2>2. Dividend * Scale < M * Scale
    BY <1>2, <1>3, <2>1, StrictlyMonotone
  <2>3. Scale * M <= Base * M
    BY <1>3, <2>1, BaseFacts, Monotone
  <2>4. Dividend * Scale = scaled /\ M * Scale = Scale * M /\ Scale * M \in Nat /\ Base * M \in Nat
    BY <1>2, <1>3, <2>1, BaseFacts, Z3
  <2>5. scaled < Base * M
    BY <1>6, <2>2, <2>3, <2>4
  <2> QED
    BY <1>5, <2>5 DEF M
<1> HIDE DEF scaled
<1>8. LimbCount(scaled) \in 1..(2 * n + 1)
  <2>1. 2 * n + 1 \in 1..MAX_LIMBS
    BY <1>4
  <2> QED
    BY <1>6, <1>7, <2>1, LimbCountFacts
<1>9. place' \in 0..(MAX_LIMBS - n - 1)
  BY <1>1, <1>4, <1>8 DEF FirstPosition
<1>10. TypeOK'
  <2>1. place' \in -1..MAX_LIMBS
    BY <1>4, <1>9
  <2> QED
    BY <1>1, <1>6, <2>1, FieldUnchanged DEF TypeOK
<1>11. PositionOK'
  BY <1>1, <1>9, FieldUnchanged DEF PositionOK
<1>12. DivisionIsExact'
  <2>1. q = 0
    BY <1>1 DEF PositionOK
  <2>2. scaled - Divisor * 0 = scaled
    BY <1>3, <1>6
  <2>3. Aligned => scaled < Divisor * Weight[FirstPosition(scaled) + 1]
    BY DEF Aligned, scaled
  <2> QED
    BY <1>1, <2>1, <2>2, <2>3, FieldUnchanged, CallUnchanged DEF DivisionIsExact, scaled
<1>13. EstimateIsEnough' /\ RemainderIsExact'
  BY <1>1 DEF EstimateIsEnough, RemainderIsExact
<1> QED
  BY <1>1, <1>10, <1>11, <1>12, <1>13, OperandsStay, NoResultYet, NextInvariant

(* What stays while a digit is estimated and corrected.                    *)
LEMMA EstimatingKeeps ==
  ASSUME IInv, pc \in {"digit", "correct"}, pc' \in {"correct", "subtract"},
         UNCHANGED <<p, call, a, place, q, r, returned>>, qhat' \in Nat, rhat' \in Nat,
         EstimateIsEnough'
  PROVE  IInv'
<1>1. TypeOK /\ OperandsAreValid /\ PositionOK /\ DivisionIsExact
  BY DEF IInv
<1>2. TypeOK' /\ PositionOK'
  BY <1>1, FieldUnchanged DEF TypeOK, PositionOK
<1>3. DivisionIsExact'
  BY <1>1, FieldUnchanged, CallUnchanged DEF DivisionIsExact, Dividing
<1>4. RemainderIsExact'
  BY DEF RemainderIsExact
<1> QED
  BY <1>1, <1>2, <1>3, <1>4, OperandsStay, NoResultYet, NextInvariant

LEMMA EstimateStep ==
  ASSUME IInv, Estimate
  PROVE  IInv'
<1> DEFINE top == Limb(Divisor, n - 1)
           V1 == Weight[n - 1]
           num == Window \div V1
<1>1. /\ TypeOK /\ PositionOK /\ pc = "digit" /\ pc' = "correct"
      /\ qhat' = num \div top /\ rhat' = num % top
      /\ UNCHANGED <<p, call, a, place, q, r, returned>>
  BY DEF IInv, Estimate
<1>2. p \in ForeignModuli /\ Window \in Nat
  BY <1>1, WindowFacts DEF TypeOK
<1>3. V1 \in Nat /\ V1 > 0 /\ n \in 1..MAX_LIMBS
  BY <1>2, FieldWeights, ModulusFacts
<1>4. Divisor \in Nat /\ Divisor < Weight[n] /\ V1 <= Divisor
  BY <1>2, DivisorFacts
<1>5. top \in Nat /\ top > 0 /\ top * V1 <= Divisor /\ top = Divisor \div V1
  BY <1>3, <1>4, BaseFacts, TopLimb
<1>6. Window' = Window /\ Limb(Divisor, n - 1)' = top /\ Weight[n - 1]' = V1
  BY <1>1, WindowUnchanged, FieldUnchanged DEF Limb
<1> HIDE DEF top, V1
<1>7. num \in Nat
  BY <1>2, <1>3, DivMod
<1>8. Window \div Divisor <= num \div top
  BY <1>2, <1>3, <1>4, <1>5, EstimateIsAbove
<1>9. n = 1 => num \div top = Window \div Divisor
  <2> SUFFICES ASSUME n = 1 PROVE num \div top = Window \div Divisor
    OBVIOUS
  <2>1. V1 = 1
    BY WeightFacts DEF V1
  <2>2. num = Window /\ top = Divisor
    <3>1. \A x \in Nat : x \div 1 = x
      BY SMT
    <3> QED
      BY <1>2, <1>4, <1>5, <2>1, <3>1
  <2> QED
    BY <2>2
<1> HIDE DEF num
<1>10. qhat' \in Nat /\ rhat' \in Nat /\ qhat' * top + rhat' = num
  <2>1. num = top * (num \div top) + (num % top) /\ num \div top \in Nat /\ num % top \in Nat
    BY <1>5, <1>7, DivMod
  <2>2. top * (num \div top) = (num \div top) * top
    BY <1>5, <2>1, Z3
  <2> QED
    BY <1>1, <2>1, <2>2
<1>11. EstimateIsEnough'
  BY <1>1, <1>6, <1>8, <1>9, <1>10, FieldUnchanged DEF EstimateIsEnough, num
<1> QED
  BY <1>1, <1>10, <1>11, EstimatingKeeps

(* Too large or not, in terms of the three top limbs.                      *)
LEMMA TooLargeCompares ==
  ASSUME TypeOK, PositionOK, EstimateIsEnough, pc = "correct", n > 1
  PROVE  TooLarge <=>
           \/ qhat >= Base
           \/ qhat * (Limb(Divisor, n - 1) * Base + Limb(Divisor, n - 2))
                > (Window \div Weight[n - 1]) * Base + Limb(Window, n - 2)
<1> DEFINE top == Limb(Divisor, n - 1)
           next == Limb(Divisor, n - 2)
           num == Window \div Weight[n - 1]
           low == Limb(Window, n - 2)
<1>1. top \in Nat /\ next \in Nat /\ low \in Nat
  BY SettingHolds DEF DigitSetting
<1>2. qhat \in Nat /\ rhat \in Nat /\ qhat * top + rhat = num
  BY DEF TypeOK, EstimateIsEnough
<1>3. TooLarge <=> qhat >= Base \/ qhat * next > rhat * Base + low
  BY DEF TooLarge
<1> HIDE DEF top, next, num, low
<1>4. qhat * next > rhat * Base + low <=> qhat * (top * Base + next) > num * Base + low
  BY <1>1, <1>2, CorrectionCompares
<1> QED
  BY <1>3, <1>4 DEF top, next, num, low

LEMMA CorrectStep ==
  ASSUME IInv, Correct
  PROVE  IInv'
<1> DEFINE top == Limb(Divisor, n - 1)
           num == Window \div Weight[n - 1]
           t == Window \div Divisor
<1>1. /\ TypeOK /\ PositionOK /\ EstimateIsEnough /\ DivisionIsExact
      /\ pc = "correct" /\ TooLarge /\ qhat' = qhat - 1
      /\ rhat' = (IF n > 1 THEN rhat + top ELSE rhat)
      /\ pc' = (IF n > 1 /\ rhat' >= Base THEN "subtract" ELSE "correct")
      /\ UNCHANGED <<p, call, a, place, q, r, returned>>
  BY DEF IInv, Correct
<1>2. p \in ForeignModuli /\ Window \in Nat /\ qhat \in Nat /\ rhat \in Nat
  BY <1>1, WindowFacts DEF TypeOK
<1>3. n \in Nat /\ n > 0
  BY <1>2, FieldWeights
<1>4. n > 1 => DigitSetting(Window, Divisor, Weight[n - 2], top, Limb(Divisor, n - 2),
                            num, Limb(Window, n - 2))
  BY <1>1, SettingHolds
<1>5. n > 1 => top \in Nat /\ qhat * top + rhat = num
  BY <1>1, <1>4 DEF DigitSetting, EstimateIsEnough
<1>6. qhat > 0
  <2> SUFFICES ASSUME qhat = 0 PROVE FALSE
    BY <1>2
  <2>1. n > 1 /\ qhat * Limb(Divisor, n - 2) > rhat * Base + Limb(Window, n - 2)
    BY <1>1, BaseFacts DEF TooLarge
  <2>2. Limb(Divisor, n - 2) \in Nat /\ Limb(Window, n - 2) \in Nat
    BY <1>4, <2>1 DEF DigitSetting
  <2>3. qhat * Limb(Divisor, n - 2) = 0 /\ rhat * Base \in Nat
    BY <1>2, <2>2, BaseFacts
  <2> QED
    BY <2>1, <2>2, <2>3
<1>7. ASSUME Aligned
      PROVE  n > 1 /\ t <= qhat - 1
  <2>1. Window < Base * Divisor /\ Divisor \in Nat /\ Divisor > 0
    BY <1>1, <1>2, <1>7, WindowFacts, DivisorFacts
  <2>2. t <= qhat /\ (n = 1 => qhat = t)
    BY <1>1, <1>7 DEF EstimateIsEnough, t
  <2>3. n > 1
    <3>1. n = 1 => qhat < Base
      BY <1>2, <2>1, <2>2, DigitFits
    <3>2. n = 1 => qhat >= Base
      BY <1>1 DEF TooLarge
    <3> QED
      BY <1>2, <1>3, <3>1, <3>2, BaseFacts
  <2>4. \/ qhat >= Base
        \/ qhat * (top * Base + Limb(Divisor, n - 2)) > num * Base + Limb(Window, n - 2)
    BY <1>1, <2>3, TooLargeCompares
  <2>5. t <= qhat - 1
    BY <1>2, <1>4, <2>1, <2>2, <2>3, <2>4, TooLargeIsAbove
  <2> QED
    BY <2>3, <2>5
<1>8. qhat' \in Nat /\ rhat' \in Nat
  BY <1>1, <1>2, <1>5, <1>6
<1>9. n > 1 => qhat' * top + rhat' = num
  <2> SUFFICES ASSUME n > 1 PROVE qhat' * top + rhat' = num
    OBVIOUS
  <2>1. top \in Nat /\ qhat * top + rhat = num /\ rhat' = rhat + top /\ qhat' = qhat - 1
    BY <1>1, <1>5
  <2> HIDE DEF top, num
  <2>2. (qhat - 1) * top = qhat * top - top /\ qhat * top \in Nat
    BY <1>2, <2>1, Z3
  <2> QED
    BY <1>2, <2>1, <2>2
<1>10. Window' = Window /\ Limb(Divisor, n - 1)' = top /\ Weight[n - 1]' = Weight[n - 1]
  BY <1>1, WindowUnchanged, FieldUnchanged DEF Limb
<1>11. EstimateIsEnough'
  <2>1. pc' = "subtract" => n > 1 /\ rhat' >= Base
    BY <1>1
  <2>2. Aligned' = Aligned /\ Divisor' = Divisor /\ n' = n
    BY <1>1, FieldUnchanged, CallUnchanged
  <2>3. Aligned => qhat' >= t /\ n # 1
    <3>1. t \in Nat
      BY <1>2, DivisorFacts, DivMod
    <3> QED
      BY <1>1, <1>2, <1>7, <3>1
  <2> QED
    BY <1>9, <1>10, <2>1, <2>2, <2>3 DEF EstimateIsEnough
<1> QED
  BY <1>1, <1>8, <1>11, EstimatingKeeps

(* When the correction has stopped on an aligned dividend, DigitOf and     *)
(* RestOf are the digit and what it leaves.                                *)
LEMMA SubtractIsExact ==
  ASSUME IInv, Subtract, Aligned
  PROVE  /\ DigitOf = Window \div Divisor
         /\ RestOf = Window % Divisor
<1> DEFINE top == Limb(Divisor, n - 1)
           next == Limb(Divisor, n - 2)
           num == Window \div Weight[n - 1]
           low == Limb(Window, n - 2)
<1>1. /\ TypeOK /\ PositionOK /\ EstimateIsEnough /\ DivisionIsExact
      /\ pc \in {"correct", "subtract"} /\ (pc = "correct" => ~TooLarge)
  BY DEF IInv, Subtract
<1>2. /\ p \in ForeignModuli /\ qhat \in Nat /\ rhat \in Nat
      /\ Window \in Nat /\ Window < Size /\ Window < Base * Divisor
  BY <1>1, WindowFacts DEF TypeOK, Size
<1>3. /\ Divisor \in Nat /\ Divisor > 0 /\ Divisor < Weight[n] /\ Weight[n] \in Nat
      /\ Size \in Nat /\ Size = Base * Weight[n] /\ n \in Nat /\ n > 0
  BY <1>2, DivisorFacts, FieldWeights DEF Size
<1>4. /\ Window \div Divisor <= qhat
      /\ n = 1 => qhat = Window \div Divisor
  BY <1>1 DEF EstimateIsEnough
<1>5. ASSUME n > 1
      PROVE  qhat < Base /\ qhat * Divisor < Window + Divisor
  <2>1. DigitSetting(Window, Divisor, Weight[n - 2], top, next, num, low)
    BY <1>1, <1>5, SettingHolds
  <2>2. qhat * top + rhat = num /\ (pc = "subtract" => rhat >= Base)
    BY <1>1, <1>5 DEF EstimateIsEnough
  <2>3. pc = "correct" => ~ (qhat >= Base)
                          /\ ~ (qhat * (top * Base + next) > num * Base + low)
    BY <1>1, <1>5, TooLargeCompares
  <2>4. top \in Nat /\ next \in Nat /\ num \in Nat /\ low \in Nat
    BY <2>1 DEF DigitSetting
  <2> HIDE DEF top, next, num, low
  <2>5. qhat < Base /\ qhat * (top * Base + next) <= num * Base + low
    <3>1. CASE pc = "subtract"
      BY <1>2, <2>1, <2>2, <3>1, OutgrownIsClose
    <3>2. CASE pc = "correct"
      <4>1. qhat * (top * Base + next) \in Nat /\ num * Base + low \in Nat
        BY <1>2, <2>4, BaseFacts
      <4> QED
        BY <1>2, <2>3, <3>2, <4>1, BaseFacts
    <3> QED
      BY <1>1, <3>1, <3>2
  <2> QED
    BY <1>2, <2>1, <2>5, EstimateIsClose
<1>6. ASSUME n = 1
      PROVE  qhat < Base /\ qhat * Divisor < Window + Divisor
  <2>1. qhat = Window \div Divisor
    BY <1>4, <1>6
  <2>2. qhat < Base
    BY <1>2, <1>3, <2>1, DigitFits
  <2>3. qhat * Divisor <= Window
    <3>1. qhat <= Window \div Divisor
      BY <1>2, <2>1
    <3> QED
      BY <1>2, <1>3, <3>1, DivBounds
  <2>4. qhat * Divisor \in Nat
    BY <1>2, <1>3
  <2> QED
    BY <1>2, <1>3, <2>2, <2>3, <2>4
<1>7. qhat < Base /\ qhat * Divisor < Window + Divisor
  BY <1>3, <1>5, <1>6
<1>8. qhat * Divisor < Size
  <2>1. qhat * Divisor <= Base * Divisor
    BY <1>2, <1>3, <1>7, BaseFacts, Monotone
  <2>2. Divisor * Base < Weight[n] * Base
    BY <1>3, BaseFacts, StrictlyMonotone
  <2>3. /\ Divisor * Base = Base * Divisor /\ Weight[n] * Base = Base * Weight[n]
        /\ qhat * Divisor \in Nat /\ Base * Divisor \in Nat
    BY <1>2, <1>3, BaseFacts, Z3
  <2> QED
    BY <1>3, <2>1, <2>2, <2>3
<1>9. Divisor < Size
  <2>1. 1 * Weight[n] <= Base * Weight[n]
    BY <1>3, BaseFacts, Monotone
  <2> QED
    BY <1>3, <2>1
<1>10. /\ (IF Window < Product THEN qhat - 1 ELSE qhat) = Window \div Divisor
       /\ (IF Window < Product THEN (Window - Product + Size + Divisor) % Size
           ELSE Window - Product) = Window % Divisor
  BY <1>2, <1>3, <1>4, <1>7, <1>8, <1>9, DigitIsExact DEF Product
<1> QED
  BY <1>10 DEF DigitOf, RestOf, Borrows

LEMMA SubtractTypes ==
  ASSUME IInv, Subtract
  PROVE  DigitOf \in Nat /\ RestOf \in Nat
<1>1. TypeOK /\ PositionOK /\ pc \in {"correct", "subtract"}
  BY DEF IInv, Subtract
<1>2. /\ p \in ForeignModuli /\ qhat \in Nat /\ Window \in Nat
  BY <1>1, WindowFacts DEF TypeOK
<1>3. Divisor \in Nat /\ Size \in Nat /\ Size > 0
  BY <1>2, DivisorFacts, FieldWeights DEF Size
<1>4. qhat * Divisor \in Nat /\ (qhat = 0 => qhat * Divisor = 0)
  BY <1>2, <1>3
<1>5. Product \in Nat /\ Product < Size
  BY <1>3, <1>4, DivMod DEF Product
<1>6. qhat = 0 => Product = 0
  BY <1>3, <1>4 DEF Product
<1>7. DigitOf \in Nat
  BY <1>2, <1>5, <1>6 DEF DigitOf, Borrows
<1>8. RestOf \in Nat
  <2>1. CASE Borrows
    <3>1. Window - Product + Size + Divisor \in Nat
      BY <1>2, <1>3, <1>5
    <3> QED
      BY <1>3, <2>1, <3>1, DivMod DEF RestOf
  <2>2. CASE ~Borrows
    BY <1>2, <1>5, <2>2 DEF RestOf, Borrows
  <2> QED
    BY <2>1, <2>2
<1> QED
  BY <1>7, <1>8

LEMMA SubtractStep ==
  ASSUME IInv, Subtract
  PROVE  IInv'
<1> DEFINE X == Weight[place]
           w == Window
           b == Divisor
<1>1. /\ TypeOK /\ OperandsAreValid /\ PositionOK /\ DivisionIsExact
      /\ pc \in {"correct", "subtract"}
      /\ a' = a - X * (w - RestOf) /\ q' = q + X * DigitOf
      /\ qhat' = 0 /\ rhat' = 0 /\ place' = place - 1
      /\ pc' = (IF place = 0 THEN "remainder" ELSE "digit")
      /\ UNCHANGED <<p, call, r, returned>>
  BY DEF IInv, Subtract
<1>2. /\ p \in ForeignModuli /\ a \in Nat /\ q \in Nat /\ place \in 0..(MAX_LIMBS - n - 1)
      /\ MAX_LIMBS \in Nat /\ n \in Nat /\ n > 0
  BY <1>1, FieldWeights DEF TypeOK, PositionOK
<1>3. /\ X \in Nat /\ X > 0 /\ w \in Nat /\ X * w <= a
      /\ Aligned => w = a \div X
  BY <1>1, WindowFacts
<1>4. DigitOf \in Nat /\ RestOf \in Nat
  BY SubtractTypes
<1>5. b \in Nat /\ b > 0
  BY <1>2, DivisorFacts
<1> HIDE DEF w, b, X
<1>6. X * (w - RestOf) = X * w - X * RestOf
  BY <1>3, <1>4, Z3
<1>7. X * w \in Nat /\ X * RestOf \in Nat /\ X * DigitOf \in Nat
  BY <1>3, <1>4
<1>8. TypeOK'
  <2>1. a' \in Nat /\ q' \in Nat
    BY <1>1, <1>2, <1>3, <1>6, <1>7
  <2>2. place' \in -1..MAX_LIMBS
    BY <1>1, <1>2
  <2> QED
    BY <1>1, <2>1, <2>2, FieldUnchanged DEF TypeOK
<1>9. PositionOK'
  <2>1. n' = n
    BY <1>1, FieldUnchanged
  <2> QED
    BY <1>1, <1>2, <2>1 DEF PositionOK
<1>10. ASSUME Aligned
       PROVE  a' = Scale * Dividend - b * q' /\ a' < b * Weight[place' + 1]
  <2> DEFINE t == w \div b
             s == w % b
             l == a % X
             D == Scale * Dividend
  <2>1. DigitOf = t /\ RestOf = s
    BY <1>10, SubtractIsExact DEF w, b
  <2>2. w = b * t + s /\ t \in Nat /\ s \in Nat /\ s < b
    BY <1>3, <1>5, DivMod
  <2>3. a = X * w + l /\ l \in Nat /\ l < X
    BY <1>2, <1>3, <1>10, DivMod
  <2>4. a = D - b * q
    BY <1>1, <1>10 DEF DivisionIsExact, Dividing, b
  <2>5. D \in Nat
    <3>1. Dividend \in Nat /\ Scale \in Nat
      BY <1>1, <1>2, DividendFacts, DivisorFacts DEF OperandsAreValid
    <3> QED
      BY <3>1
  <2>6. place' + 1 = place
    BY <1>1, <1>2
  <2> HIDE DEF t, s, l, D
  <2>7. a' = X * s + l
    BY <1>1, <1>2, <1>6, <1>7, <2>1, <2>3
  <2>8. a' = D - b * q'
    <3>1. b * q' = b * q + b * (X * t)
      BY <1>1, <1>2, <1>3, <1>5, <2>1, <2>2, Z3
    <3>2. X * w = b * (X * t) + X * s
      BY <1>3, <1>5, <2>2, Z3
    <3>3. b * q \in Nat /\ b * (X * t) \in Nat /\ X * s \in Nat
      BY <1>2, <1>3, <1>5, <2>2
    <3> QED
      BY <1>7, <2>2, <2>3, <2>4, <2>5, <2>7, <3>1, <3>2, <3>3
  <2>9. a' < b * X
    <3>1. (s + 1) * X <= b * X
      BY <1>3, <1>5, <2>2, Monotone
    <3>2. (s + 1) * X = X * s + X /\ X * s \in Nat /\ b * X \in Nat
      BY <1>3, <1>5, <2>2, Z3
    <3> QED
      BY <1>3, <2>3, <2>7, <3>1, <3>2
  <2> QED
    BY <2>6, <2>8, <2>9 DEF D, X
<1>11. DivisionIsExact'
  <2>1. Aligned' = Aligned /\ Dividend' = Dividend /\ Scale' = Scale /\ Divisor' = Divisor
    BY <1>1, FieldUnchanged, CallUnchanged
  <2> QED
    BY <1>10, <2>1 DEF DivisionIsExact, b
<1>12. EstimateIsEnough' /\ RemainderIsExact'
  BY <1>1 DEF EstimateIsEnough, RemainderIsExact
<1>13. OperandsAreValid' /\ Results'
  BY <1>1, OperandsStay, NoResultYet
<1> QED
  BY <1>8, <1>9, <1>11, <1>12, <1>13, NextInvariant

LEMMA RemainderStep ==
  ASSUME IInv, Remainder
  PROVE  IInv'
<1>1. /\ TypeOK /\ OperandsAreValid /\ PositionOK /\ DivisionIsExact
      /\ pc = "remainder" /\ pc' = "check" /\ r' = (a % Weight[n]) \div Scale
      /\ UNCHANGED <<p, call, a, place, qhat, rhat, q, returned>>
  BY DEF IInv, Remainder
<1>2. p \in ForeignModuli /\ a \in Nat /\ q \in Nat /\ place = -1
  BY <1>1 DEF TypeOK, PositionOK
<1>3. /\ Scale \in Nat /\ Scale > 0 /\ Weight[n] \in Nat /\ Weight[n] > 0
      /\ Divisor \in Nat /\ Divisor = Scale * p /\ Divisor < Weight[n]
      /\ p \in Nat /\ p < Weight[n]
  BY <1>2, DivisorFacts, FieldWeights, ModulusFacts DEF Divisor
<1>4. /\ Dividend \in Nat
      /\ Dividend < p => Aligned
  <2>1. Dividend \in Nat
    BY <1>1, DividendFacts DEF OperandsAreValid
  <2> QED
    BY <1>2, <1>3, <2>1, SmallIsAligned
<1>5. r' \in Nat /\ r' < Weight[n]
  <2> DEFINE x == a % Weight[n]
             d == x \div Scale
  <2>1. x \in Nat /\ x < Weight[n]
    BY <1>2, <1>3, DivMod
  <2>2. x = Scale * d + (x % Scale) /\ d \in Nat /\ x % Scale \in Nat
    BY <1>3, <2>1, DivMod
  <2>3. r' = d
    BY <1>1
  <2> HIDE DEF x, d
  <2>4. 1 * d <= Scale * d
    BY <1>3, <2>2, Monotone
  <2>5. Scale * d \in Nat
    BY <1>3, <2>2
  <2> QED
    BY <1>3, <2>1, <2>2, <2>3, <2>4, <2>5
<1>6. TypeOK' /\ PositionOK'
  BY <1>1, <1>5, FieldUnchanged DEF TypeOK, PositionOK
<1>7. ASSUME Aligned
      PROVE  q * p + r' = Dividend /\ r' < p
  <2>1. a = Scale * Dividend - Divisor * q /\ a < Divisor
    <3>1. a < Divisor * Weight[0] /\ a = Scale * Dividend - Divisor * q
      <4>1. place + 1 = 0
        BY <1>2
      <4> QED
        BY <1>1, <1>7, <4>1 DEF DivisionIsExact, Dividing
    <3>2. Divisor * Weight[0] = Divisor
      BY <1>3, WeightFacts
    <3> QED
      BY <3>1, <3>2
  <2>2. a % Weight[n] = a
    <3>1. a < Weight[n]
      BY <1>2, <1>3, <2>1
    <3> QED
      BY <1>2, <1>3, <3>1
  <2> DEFINE d == Dividend - q * p
  <2>3. d \in Int /\ a = Scale * d
    <3>1. Scale * (Dividend - q * p) = Scale * Dividend - (Scale * p) * q
      BY <1>2, <1>3, <1>4, Z3
    <3> QED
      BY <1>2, <1>3, <1>4, <2>1, <3>1
  <2> HIDE DEF d
  <2>4. d >= 0
    <3>1. d <= -1 => Scale * d < 0
      BY <1>3, <2>3, Z3
    <3> QED
      BY <1>2, <2>3, <3>1
  <2>5. r' = d
    <3>1. Scale * d = Scale * d + 0 /\ d \in Nat
      BY <1>3, <2>3, <2>4
    <3>2. (Scale * d) \div Scale = d
      BY <1>2, <1>3, <2>3, <3>1, DivModIs
    <3> QED
      BY <1>1, <2>2, <2>3, <3>2
  <2>6. d < p
    <3>1. p <= d => p * Scale <= d * Scale
      BY <1>3, <2>3, <2>4, Monotone
    <3>2. p * Scale = Divisor /\ d * Scale = a
      BY <1>3, <2>3, Z3
    <3> QED
      BY <1>2, <1>3, <2>1, <2>3, <3>1, <3>2
  <2>7. q * p + d = Dividend
    <3>1. q * p \in Nat
      BY <1>2, <1>3
    <3> QED
      BY <1>4, <3>1 DEF d
  <2> QED
    BY <2>5, <2>6, <2>7
<1>8. RemainderIsExact'
  <2>1. Aligned' = Aligned /\ Dividend' = Dividend /\ n' = n
    BY <1>1, FieldUnchanged, CallUnchanged
  <2> QED
    BY <1>1, <1>4, <1>5, <1>7, <2>1 DEF RemainderIsExact
<1>9. DivisionIsExact' /\ EstimateIsEnough'
  BY <1>1 DEF DivisionIsExact, Dividing, EstimateIsEnough
<1>10. OperandsAreValid' /\ Results'
  BY <1>1, OperandsStay, NoResultYet
<1> QED
  BY <1>6, <1>8, <1>9, <1>10, NextInvariant

-----------------------------------------------------------------------------
(* The answers.                                                            *)

LEMMA OkFacts ==
  \A v, c : Ok(v, c).status = "Ok" /\ Ok(v, c).value = v /\ Ok(v, c).carry = c
BY DEF Ok

(* A quotient and a remainder that the check accepts are right: the sum    *)
(* that lost a carry is below the modulus, and so small a dividend is      *)
(* divided well.                                                           *)
LEMMA RecomputedIsRight ==
  ASSUME p \in ForeignModuli, q \in Nat, r \in Nat, r < Weight[n], Dividend \in Nat,
         Aligned \/ Dividend < p => q * p + r = Dividend,
         Recomputes(Dividend)
  PROVE  q * p + r = Dividend
<1>1. p \in Nat /\ p > 0 /\ Weight[n] \in Nat /\ q * p \in Nat
  BY ModulusFacts, FieldWeights
<1>2. PICK k \in 1..MAX_LIMBS, l \in 1..MAX_LIMBS :
        /\ HasLimbs(q * p, k) /\ HasLimbs(r, l)
        /\ Dividend = (q * p + r) % Weight[IF k > l THEN k ELSE l]
  BY DEF Recomputes
<1> DEFINE M == Weight[IF k > l THEN k ELSE l]
           s == q * p + r
<1>3. /\ M \in Nat /\ M > 0 /\ q * p < M /\ r < M /\ Dividend = s % M
      /\ s \in Nat
  <2>1. /\ MAX_LIMBS \in Nat /\ k \in 0..MAX_LIMBS /\ l \in 0..MAX_LIMBS
        /\ Weight[k] \in Nat /\ Weight[l] \in Nat /\ Weight[k] > 0 /\ Weight[l] > 0
        /\ q * p < Weight[k] /\ r < Weight[l]
    BY <1>2, WeightFacts DEF HasLimbs
  <2>2. k > l => Weight[l] <= Weight[k]
    BY <2>1, WeightsGrow
  <2>3. ~ (k > l) => Weight[k] <= Weight[l]
    BY <2>1, WeightsGrow
  <2> QED BY <1>1, <1>2, <2>1, <2>2, <2>3
<1> HIDE DEF M
<1>4. CASE s < M
  <2>1. s % M = s
    BY <1>3, <1>4
  <2> QED BY <1>3, <2>1
<1>5. CASE s >= M
  <2>1. s - M \in Nat /\ s - M < M /\ s - M < r /\ s = M * 1 + (s - M)
    BY <1>1, <1>3, <1>5
  <2> HIDE DEF s
  <2>2. s % M = s - M
    BY <1>3, <2>1, DivModIs
  <2>3. Dividend < Weight[n]
    BY <1>1, <1>3, <2>1, <2>2
  <2> QED BY <2>3, SmallIsAligned DEF s
<1> QED BY <1>3, <1>4, <1>5

(* A right quotient and remainder are accepted unless the dividend outgrows *)
(* them.                                                                   *)
LEMMA RightIsRecomputed ==
  ASSUME p \in ForeignModuli, q \in Nat, r \in Nat, r < p, Dividend \in Nat,
         Dividend < Weight[n] * Weight[n],
         q * p + r = Dividend, r = Dividend % p, ~Outgrows
  PROVE  Recomputes(Dividend)
<1>1. /\ p \in Nat /\ p > 0 /\ q * p \in Nat /\ n \in 1..MAX_LIMBS
      /\ 2 * n + 2 <= MAX_LIMBS /\ p < Weight[n]
  BY ModulusFacts
<1>2. 2 * n \in 1..MAX_LIMBS /\ Dividend < Weight[2 * n]
  <2>1. n \in 0..MAX_LIMBS /\ n + n <= MAX_LIMBS /\ n + n = 2 * n
    BY <1>1, WeightFacts
  <2>2. Weight[n + n] = Weight[n] * Weight[n]
    BY <2>1, WeightAssumption
  <2> QED BY <1>1, <2>1, <2>2, WeightFacts
<1>3. Weight[2 * n] \in Nat /\ q * p < Weight[2 * n] /\ r < Weight[2 * n]
  BY <1>1, <1>2, WeightFacts
<1> DEFINE k == LimbCount(q * p)
           l == LimbCount(r)
           K == IF k > l THEN k ELSE l
<1>4. k \in 1..MAX_LIMBS /\ HasLimbs(q * p, k)
  BY <1>1, <1>2, <1>3, LimbCountFacts, WeightFacts DEF HasLimbs
<1>5. l \in 1..MAX_LIMBS /\ HasLimbs(r, l)
  BY <1>1, <1>2, <1>3, LimbCountFacts, WeightFacts DEF HasLimbs
<1> HIDE DEF k, l
<1>6. K \in 1..MAX_LIMBS /\ Weight[K] \in Nat /\ q * p < Weight[K] /\ r < Weight[K]
  <2>1. /\ MAX_LIMBS \in Nat /\ k \in 0..MAX_LIMBS /\ l \in 0..MAX_LIMBS
        /\ Weight[k] \in Nat /\ Weight[l] \in Nat
        /\ q * p < Weight[k] /\ r < Weight[l]
    BY <1>4, <1>5, WeightFacts DEF HasLimbs
  <2>2. k > l => Weight[l] <= Weight[k]
    BY <2>1, WeightsGrow
  <2>3. ~ (k > l) => Weight[k] <= Weight[l]
    BY <2>1, WeightsGrow
  <2> QED BY <1>1, <1>4, <1>5, <2>1, <2>2, <2>3
<1>7. Dividend - (Dividend % p) = q * p
  BY <1>1
<1>8. Dividend < Weight[K]
  <2> HIDE DEF K
  <2> QED BY <1>6, <1>7 DEF Outgrows
<1>9. Dividend % Weight[K] = Dividend
  <2> HIDE DEF K
  <2> QED BY <1>6, <1>8
<1> QED BY <1>4, <1>5, <1>9 DEF Recomputes

(* A dividend of no more limbs than the modulus does not outgrow.          *)
LEMMA SmallDoesNotOutgrow ==
  ASSUME p \in ForeignModuli, Dividend \in Nat, Dividend < Weight[n]
  PROVE  ~Outgrows
<1> SUFFICES ASSUME NEW k \in 1..MAX_LIMBS, Dividend % p < Weight[k],
                    Dividend - (Dividend % p) < Weight[k], Dividend >= Weight[k]
             PROVE  FALSE
  BY DEF Outgrows
<1> DEFINE d == Dividend \div p
           s == Dividend % p
<1>1. /\ p \in Nat /\ p > 0 /\ n \in 1..MAX_LIMBS
      /\ Weight[n - 1] <= p /\ p < Weight[n] /\ MAX_LIMBS \in Nat
  BY ModulusFacts, WeightFacts
<1>2. k \in 0..MAX_LIMBS /\ n \in 0..MAX_LIMBS /\ n - 1 \in 0..MAX_LIMBS
  BY <1>1
<1>3. Weight[k] \in Nat /\ Weight[n] \in Nat /\ Weight[n - 1] \in Nat
  BY <1>2, WeightFacts
<1>4. k <= n - 1
  <2>1. n <= k => Weight[n] <= Weight[k]
    BY <1>2, WeightsGrow
  <2> QED BY <1>1, <1>2, <1>3, <2>1
<1>5. Weight[k] <= p
  <2>1. Weight[k] <= Weight[n - 1]
    BY <1>2, <1>4, WeightsGrow
  <2> QED BY <1>1, <1>3, <2>1
<1>6. Dividend = p * d + s /\ d \in Nat /\ s \in Nat
  BY <1>1, DivMod
<1> HIDE DEF d, s
<1>7. Dividend - s = p * d /\ p * d \in Nat
  BY <1>1, <1>6
<1>8. p * d < p /\ d # 0
  <2>1. p * d < p
    BY <1>1, <1>3, <1>5, <1>7 DEF s
  <2>2. d # 0
    <3>1. d = 0 => p * d = 0
      BY <1>1
    <3>2. s < Weight[k] /\ Weight[k] <= Dividend
      BY <1>1 DEF s
    <3> QED BY <1>3, <1>6, <3>1, <3>2
  <2> QED BY <2>1, <2>2
<1>9. p * 1 <= p * d
  BY <1>1, <1>6, <1>8, Z3
<1> QED BY <1>1, <1>7, <1>8, <1>9

(* A verified division is answered by its remainder.                       *)
LEMMA CheckStep ==
  ASSUME IInv, Check
  PROVE  IInv'
<1> DEFINE verified == Recomputes(Dividend)
           value == r % Weight[n]
<1>1. /\ TypeOK /\ OperandsAreValid /\ RemainderIsExact /\ pc = "check" /\ pc' = "answered"
      /\ returned' = (IF verified THEN Ok(value, 0) ELSE Err("ConstraintUnsatisfied"))
      /\ a' = 0 /\ place' = -1 /\ qhat' = 0 /\ rhat' = 0 /\ q' = 0 /\ r' = 0
      /\ UNCHANGED <<p, call>>
  BY DEF IInv, Check, Return
<1>2. /\ p \in ForeignModuli /\ q \in Nat /\ r \in Nat /\ r < Weight[n]
      /\ call.op \in {"mul", "reduce"}
  BY <1>1 DEF TypeOK, RemainderIsExact, OperandsAreValid
<1>3. /\ p \in Nat /\ p > 0 /\ Weight[n] \in Nat /\ p < Weight[n]
      /\ Dividend \in Nat /\ Dividend' = Dividend /\ Aligned' = Aligned
      /\ call.op = "reduce" => Dividend = call.e.value /\ Aligned
  <2>1. /\ p \in Nat /\ p > 0 /\ Weight[n] \in Nat /\ p < Weight[n] /\ Dividend \in Nat
        /\ Dividend' = Dividend /\ Aligned' = Aligned
    BY <1>1, <1>2, ModulusFacts, FieldWeights, DividendFacts, CallUnchanged
  <2>2. call.op = "reduce" => Dividend = call.e.value /\ Dividend < Weight[n]
    BY <1>1, <1>2, DividendFacts
  <2> QED
    BY <1>2, <2>1, <2>2, SmallIsAligned
<1>4. value = r /\ value \in Nat
  BY <1>2, <1>3
<1> HIDE DEF value
<1>5. q * p + r = Dividend => r % p = Dividend % p
  <2> SUFFICES ASSUME q * p + r = Dividend PROVE r % p = Dividend % p
    OBVIOUS
  <2> DEFINE k == r \div p
             s == r % p
  <2>1. r = p * k + s /\ k \in Nat /\ s \in Nat /\ s < p
    BY <1>2, <1>3, DivMod
  <2> HIDE DEF k, s
  <2>2. Dividend = p * (q + k) + s
    <3>1. p * (q + k) = q * p + p * k
      BY <1>2, <1>3, <2>1, Z3
    <3>2. q * p \in Nat /\ p * k \in Nat
      BY <1>2, <1>3, <2>1
    <3> QED
      BY <1>3, <2>1, <3>1, <3>2
  <2>3. Dividend % p = s
    <3>1. q + k \in Nat
      BY <1>2, <2>1
    <3> QED
      BY <1>3, <2>1, <2>2, <3>1, DivModIs
  <2>4. s = r % p
    BY DEF s
  <2> QED
    BY <2>3, <2>4, Zenon
<1>6. (Aligned \/ Dividend < p) /\ ~Outgrows => verified /\ r = Dividend % p
  <2> SUFFICES ASSUME Aligned \/ Dividend < p, ~Outgrows PROVE verified /\ r = Dividend % p
    OBVIOUS
  <2>1. q * p + r = Dividend /\ r < p
    BY <1>1 DEF RemainderIsExact
  <2>2. r % p = r
    BY <1>2, <1>3, <2>1
  <2>3. r = Dividend % p
    BY <1>5, <2>1, <2>2
  <2>4. Dividend < Weight[n] * Weight[n]
    BY <1>1, <1>2, DividendFacts
  <2> QED
    BY <1>2, <1>3, <2>1, <2>3, <2>4, RightIsRecomputed
<1>a. verified => r % p = Dividend % p
  <2>1. Aligned \/ Dividend < p => q * p + r = Dividend
    BY <1>1 DEF RemainderIsExact
  <2> QED
    BY <1>2, <1>3, <1>5, <2>1, RecomputedIsRight
<1>b. call.op = "reduce" => ~Outgrows
  BY <1>1, <1>2, <1>3, DividendFacts, SmallDoesNotOutgrow
<1>c. Outgrows' = Outgrows
  BY <1>1, <1>3 DEF Outgrows
<1>7. TypeOK'
  <2>1. returned' \in [status : Statuses, value : Nat, carry : Nat]
    <3>1. Ok(value, 0) \in [status : Statuses, value : Nat, carry : Nat]
      BY <1>4 DEF Ok, Statuses
    <3>2. Err("ConstraintUnsatisfied") \in [status : Statuses, value : Nat, carry : Nat]
      BY DEF Err, Statuses
    <3> QED
      BY <1>1, <3>1, <3>2
  <2>2. /\ p' \in ForeignModuli /\ pc' = "answered" /\ Fp' = Fp /\ call' = call
        /\ a' = 0 /\ place' = -1 /\ qhat' = 0 /\ rhat' = 0 /\ q' = 0 /\ r' = 0
    BY <1>1, <1>2, FieldUnchanged
  <2>3. /\ call \in [op : {"from_u256", "add", "mul", "reduce"}, e : Fp, f : Fp] \cup {NoCall}
        /\ MAX_LIMBS \in Nat
    BY <1>1, WeightFacts DEF TypeOK
  <2> QED
    BY <2>1, <2>2, <2>3 DEF TypeOK
<1>8. /\ OperandsAreValid' /\ PositionOK' /\ DivisionIsExact'
      /\ EstimateIsEnough' /\ RemainderIsExact'
  BY <1>1 DEF OperandsAreValid, PositionOK, DivisionIsExact, Dividing, EstimateIsEnough,
              RemainderIsExact
<1>9. Results'
  <2>1. (Aligned \/ Dividend < p) /\ ~Outgrows => returned' = Ok(Dividend % p, 0)
    BY <1>1, <1>4, <1>6
  <2>2. returned'.status = "Ok" => returned'.value % p = Dividend % p
    <3>1. ~verified => returned'.status # "Ok"
      BY <1>1 DEF Err
    <3>2. verified => returned'.value = r
      BY <1>1, <1>4 DEF Ok
    <3> QED
      BY <1>a, <3>1, <3>2
  <2>3. call' = call /\ call.op # "add" /\ p' = p
    BY <1>1, <1>2
  <2>4. ReduceIsCanonical'
    BY <1>3, <1>b, <2>1, <2>3 DEF ReduceIsCanonical, Answered
  <2>5. AlignedMulIsCanonical' /\ MulIsCongruent' /\ AddIsExact'
    BY <1>3, <1>c, <2>1, <2>2, <2>3 DEF AlignedMulIsCanonical, MulIsCongruent, AddIsExact, Answered
  <2> QED
    BY <2>4, <2>5 DEF Results
<1> QED
  BY <1>7, <1>8, <1>9, NextInvariant

(* The carries of two sums of n limbs hold, and the last is the carry.     *)
LEMMA QuotientOfSum ==
  ASSUME NEW x \in Nat, NEW y \in Nat, NEW W \in Nat, W > 0
  PROVE  (x + y) \div W = (x \div W) + (y \div W) + (((x % W) + (y % W)) \div W)
<1> DEFINE u == x \div W
           v == y \div W
           k == (x % W) + (y % W)
           c == k \div W
           s == k % W
<1>1. /\ x = W * u + (x % W) /\ u \in Nat /\ x % W \in Nat
      /\ y = W * v + (y % W) /\ v \in Nat /\ y % W \in Nat
  BY DivMod
<1>2. k \in Nat
  BY <1>1
<1>3. x + y = W * u + W * v + k
  <2>1. W * u \in Nat /\ W * v \in Nat
    BY <1>1
  <2> QED
    BY <1>1, <2>1
<1> HIDE DEF u, v, k
<1>4. k = W * c + s /\ c \in Nat /\ s \in Nat /\ s < W
  BY <1>2, DivMod
<1> HIDE DEF c, s
<1>5. x + y = W * (u + v + c) + s
  <2>1. W * (u + v + c) = W * u + W * v + W * c
    BY <1>1, <1>4, Z3
  <2>2. W * u \in Nat /\ W * v \in Nat /\ W * c \in Nat
    BY <1>1, <1>4
  <2> QED
    BY <1>3, <1>4, <2>1, <2>2
<1>6. (x + y) \div W = u + v + c
  BY <1>1, <1>4, <1>5, DivModIs
<1> QED
  BY <1>6 DEF u, v, k, c

LEMMA LimbsOfSum ==
  ASSUME NEW u \in Nat, NEW v \in Nat, NEW c \in Nat
  PROVE  (u + v + c) % Base = ((u % Base) + (v % Base) + c) % Base
<1> DEFINE k == (u % Base) + (v % Base) + c
           s == k % Base
<1>1. /\ u = Base * (u \div Base) + (u % Base) /\ u \div Base \in Nat /\ u % Base \in Nat
      /\ v = Base * (v \div Base) + (v % Base) /\ v \div Base \in Nat /\ v % Base \in Nat
  BY BaseFacts, DivMod
<1>2. k \in Nat
  BY <1>1
<1> DEFINE m == (u \div Base) + (v \div Base)
<1>3. u + v + c = Base * m + k /\ m \in Nat
  <2>1. Base * m = Base * (u \div Base) + Base * (v \div Base)
    BY <1>1, BaseFacts, Z3
  <2>2. Base * (u \div Base) \in Nat /\ Base * (v \div Base) \in Nat
    BY <1>1, BaseFacts
  <2> QED
    BY <1>1, <2>1, <2>2
<1> HIDE DEF k, m
<1>4. k = Base * (k \div Base) + s /\ k \div Base \in Nat /\ s \in Nat /\ s < Base
  BY <1>2, BaseFacts, DivMod
<1> HIDE DEF s
<1>5. u + v + c = Base * (m + (k \div Base)) + s
  <2>1. Base * (m + (k \div Base)) = Base * m + Base * (k \div Base)
    BY <1>3, <1>4, BaseFacts, Z3
  <2>2. Base * m \in Nat /\ Base * (k \div Base) \in Nat
    BY <1>3, <1>4, BaseFacts
  <2> QED
    BY <1>3, <1>4, <2>1, <2>2
<1>6. (u + v + c) % Base = s
  <2>1. u + v + c \in Nat /\ m + (k \div Base) \in Nat
    BY <1>3, <1>4
  <2> QED
    BY <1>4, <1>5, <2>1, BaseFacts, DivModIs
<1>7. s = k % Base
  BY DEF s
<1>8. k = (u % Base) + (v % Base) + c
  BY DEF k
<1> QED
  BY <1>6, <1>7, <1>8, Zenon

LEMMA SumFacts ==
  ASSUME p \in ForeignModuli, NEW e \in Nat, NEW f \in Nat, e < Weight[n], f < Weight[n]
  PROVE  /\ CarriesHold(e, f)
         /\ Sum(e, f) = Ok((e + f) % Weight[n], (e + f) \div Weight[n])
         /\ (e + f) % Weight[n] \in Nat /\ (e + f) \div Weight[n] \in Nat
         /\ ((e + f) % Weight[n]) + (Weight[n] * ((e + f) \div Weight[n])) = e + f
<1>1. /\ n \in Nat /\ n > 0 /\ MAX_LIMBS \in Nat /\ 2 * n + 2 <= MAX_LIMBS
      /\ Weight[n] \in Nat /\ Weight[n] > 0
  BY FieldWeights
<1>2. \A i \in 0..n : Weight[i] \in Nat /\ Weight[i] > 0
  BY <1>1, WeightFacts
<1>3. ASSUME NEW i \in 0..n
      PROVE  /\ CarryInto(e, f, i) \in Nat
             /\ (e + f) \div Weight[i]
                   = (e \div Weight[i]) + (f \div Weight[i]) + CarryInto(e, f, i)
             /\ e \div Weight[i] \in Nat /\ f \div Weight[i] \in Nat
  <2>1. Weight[i] \in Nat /\ Weight[i] > 0
    BY <1>2
  <2>2. /\ e % Weight[i] \in Nat /\ f % Weight[i] \in Nat
        /\ e \div Weight[i] \in Nat /\ f \div Weight[i] \in Nat
    BY <2>1, DivMod
  <2>3. CarryInto(e, f, i) \in Nat
    <3>1. (e % Weight[i]) + (f % Weight[i]) \in Nat
      BY <2>2
    <3> QED
      BY <2>1, <3>1, DivMod DEF CarryInto
  <2>4. (e + f) \div Weight[i] = (e \div Weight[i]) + (f \div Weight[i])
                                 + (((e % Weight[i]) + (f % Weight[i])) \div Weight[i])
    BY <2>1, QuotientOfSum, Zenon
  <2>5. CarryInto(e, f, i) = ((e % Weight[i]) + (f % Weight[i])) \div Weight[i]
    BY DEF CarryInto
  <2> QED
    BY <2>2, <2>3, <2>4, <2>5, Zenon
<1>4. \A i \in 0..n :
         Limb(e + f, i) = (Limb(e, i) + Limb(f, i) + CarryInto(e, f, i)) % Base
  BY <1>3, LimbsOfSum DEF Limb
<1>5. e \div Weight[n] = 0 /\ f \div Weight[n] = 0
  BY <1>1
<1>6. (e + f) \div Weight[n] = CarryInto(e, f, n)
  BY <1>1, <1>3, <1>5
<1>7. Limb(e + f, n) = CarryInto(e, f, n)
  <2>1. e + f < 2 * Weight[n] /\ e + f \in Nat /\ 2 \in Nat
    BY <1>1
  <2>2. (e + f) \div Weight[n] < 2
    BY <1>1, <2>1, DivBounds
  <2>3. CarryInto(e, f, n) \in 0..1
    <3>1. n \in 0..n
      BY <1>1
    <3>2. CarryInto(e, f, n) \in Nat
      BY <1>3, <3>1
    <3> QED
      BY <1>6, <2>2, <3>2
  <2>4. CarryInto(e, f, n) % Base = CarryInto(e, f, n)
    BY <2>3, BaseFacts
  <2> QED
    BY <1>6, <2>4 DEF Limb
<1>8. CarriesHold(e, f)
  <2>1. \A i \in 0..(n - 1) : i \in 0..n
    BY <1>1
  <2> QED
    BY <1>4, <1>7, <2>1 DEF CarriesHold
<1> DEFINE x == (e + f) \div Weight[n]
           y == (e + f) % Weight[n]
<1>9. e + f = (Weight[n] * x) + y /\ x \in Nat /\ y \in Nat
  <2>1. e + f \in Nat
    OBVIOUS
  <2> QED
    BY <1>1, <2>1, DivMod
<1>10. y + (Weight[n] * x) = e + f
  <2> HIDE DEF x, y
  <2>1. Weight[n] * x \in Nat
    BY <1>1, <1>9
  <2> QED
    BY <1>9, <2>1
<1>11. Sum(e, f) = Ok(y, x)
  BY <1>6, <1>8, Zenon DEF Sum
<1> QED
  BY <1>8, <1>9, <1>10, <1>11, Zenon

-----------------------------------------------------------------------------
(* The calls.                                                              *)

LEMMA AnswerTypes ==
  /\ \A v, c \in Nat : Ok(v, c) \in [status : Statuses, value : Nat, carry : Nat]
  /\ \A e \in Statuses : Err(e) \in [status : Statuses, value : Nat, carry : Nat]
  /\ NoReturn \in [status : Statuses, value : Nat, carry : Nat]
  /\ \A e, f \in Fp : Rejection(e, f) \in [status : Statuses, value : Nat, carry : Nat]
<1>1. \A v, c \in Nat : Ok(v, c) \in [status : Statuses, value : Nat, carry : Nat]
  BY DEF Ok, Statuses
<1>2. \A e \in Statuses : Err(e) \in [status : Statuses, value : Nat, carry : Nat]
  BY DEF Err
<1>3. "none" \in Statuses /\ \A e : AssertValid(e) \in Statuses
  BY DEF Statuses, AssertValid
<1> QED
  BY <1>1, <1>2, <1>3 DEF NoReturn, Rejection

(* A call that answers at once leaves no division behind.                  *)
LEMMA AnsweredAtOnce ==
  ASSUME IInv, NEW op \in {"from_u256", "add", "mul", "reduce"}, NEW e \in Fp, NEW f \in Fp,
         NEW value \in [status : Statuses, value : Nat, carry : Nat],
         Begin(op, e, f), Return(value)
  PROVE  /\ TypeOK' /\ OperandsAreValid' /\ PositionOK' /\ DivisionIsExact'
         /\ EstimateIsEnough' /\ RemainderIsExact'
<1>1. /\ p \in ForeignModuli /\ p' = p /\ pc' = "answered" /\ returned' = value
      /\ a' = 0 /\ place' = -1 /\ qhat' = 0 /\ rhat' = 0 /\ q' = 0 /\ r' = 0
      /\ call' = [op |-> op, e |-> e, f |-> f]
  BY DEF IInv, TypeOK, Begin, Return
<1>2. TypeOK'
  <2>1. call' \in [op : {"from_u256", "add", "mul", "reduce"}, e : Fp', f : Fp']
    BY <1>1, FieldUnchanged
  <2>2. MAX_LIMBS \in Nat
    BY WeightFacts
  <2> QED
    BY <1>1, <2>1, <2>2 DEF TypeOK
<1> QED
  BY <1>1, <1>2 DEF OperandsAreValid, PositionOK, DivisionIsExact, Dividing,
                    EstimateIsEnough, RemainderIsExact

LEMMA FromU256Step ==
  ASSUME IInv, NEW e \in Fp, FromU256(e)
  PROVE  IInv'
<1> DEFINE value == IF e.value >= p THEN Err("InvalidFieldElement") ELSE Ok(e.value, 0)
<1>1. Begin("from_u256", e, e) /\ Return(value) /\ p \in ForeignModuli
  BY DEF FromU256, IInv, TypeOK
<1>2. value \in [status : Statuses, value : Nat, carry : Nat]
  <2>1. e.value \in 0..(Weight[n] - 1) /\ Weight[n] \in Nat
    BY <1>1, FpFacts, FieldWeights
  <2>2. e.value \in Nat /\ "InvalidFieldElement" \in Statuses
    BY <2>1 DEF Statuses
  <2> QED
    BY <2>2, AnswerTypes
<1> HIDE DEF value
<1>3. Results'
  BY <1>1 DEF Begin, Results, Answered, ReduceIsCanonical, AlignedMulIsCanonical,
              MulIsCongruent, AddIsExact
<1> QED
  BY <1>1, <1>2, <1>3, AnsweredAtOnce, NextInvariant

LEMMA AddStep ==
  ASSUME IInv, NEW e \in Fp, NEW f \in Fp, Add(e, f)
  PROVE  IInv'
<1> DEFINE value == IF Invalid(e, f) THEN Rejection(e, f) ELSE Sum(e.value, f.value)
<1>1. Begin("add", e, f) /\ Return(value) /\ p \in ForeignModuli
  BY DEF Add, IInv, TypeOK
<1>2. /\ Weight[n] \in Nat
      /\ e.value \in Nat /\ e.value < Weight[n] /\ f.value \in Nat /\ f.value < Weight[n]
  <2>1. e.value \in 0..(Weight[n] - 1) /\ f.value \in 0..(Weight[n] - 1) /\ Weight[n] \in Nat
    BY <1>1, FpFacts, FieldWeights
  <2> QED
    BY <2>1
<1>3. PICK x \in Nat, y \in Nat :
          /\ Sum(e.value, f.value) = Ok(y, x)
          /\ y + (Weight[n] * x) = e.value + f.value
  <2> DEFINE x == (e.value + f.value) \div Weight[n]
             y == (e.value + f.value) % Weight[n]
  <2>1. /\ Sum(e.value, f.value) = Ok(y, x) /\ x \in Nat /\ y \in Nat
        /\ y + (Weight[n] * x) = e.value + f.value
    BY <1>1, <1>2, SumFacts
  <2> QED
    BY <2>1
<1>4. value \in [status : Statuses, value : Nat, carry : Nat]
  BY <1>3, AnswerTypes
<1>5. /\ p' = p /\ call' = [op |-> "add", e |-> e, f |-> f] /\ returned' = value
  BY <1>1 DEF Begin, Return
<1>6. AddIsExact'
  <2>1. CASE Invalid(e, f)
    <3>1. ~ Answered("add")'
      BY <1>5, <2>1, FieldUnchanged DEF Answered
    <3> QED
      BY <3>1 DEF AddIsExact
  <2>2. CASE ~ Invalid(e, f)
    <3>1. returned' = Ok(y, x)
      BY <1>3, <1>5, <2>2
    <3>2. /\ returned'.status = "Ok" /\ returned'.value = y /\ returned'.carry = x
          /\ n' = n /\ call'.e = e /\ call'.f = f
      BY <1>5, <3>1, OkFacts, FieldUnchanged
    <3> QED
      BY <1>3, <3>2 DEF AddIsExact
  <2> QED
    BY <2>1, <2>2
<1>7. Results'
  BY <1>5, <1>6 DEF Results, Answered, ReduceIsCanonical, AlignedMulIsCanonical, MulIsCongruent
<1> HIDE DEF value
<1> QED
  BY <1>1, <1>4, <1>7, AnsweredAtOnce, NextInvariant

(* Only valid operands start a division.                                   *)
LEMMA DivideStep ==
  ASSUME IInv, NEW op \in {"mul", "reduce"}, NEW e \in Fp, NEW f \in Fp, Divide(op, e, f)
  PROVE  IInv'
<1>1. /\ TypeOK /\ PositionOK /\ p \in ForeignModuli /\ pc = "idle"
      /\ call' = [op |-> op, e |-> e, f |-> f] /\ Begin(op, e, f)
  BY DEF IInv, TypeOK, Divide, Begin
<1>2. CASE Invalid(e, f) /\ Return(Rejection(e, f))
  <2>1. Rejection(e, f) \in [status : Statuses, value : Nat, carry : Nat]
    BY AnswerTypes
  <2>2. p' = p
    BY <1>2 DEF Return
  <2>3. Results'
    <3>1. Invalid(call.e, call.f)'
      BY <1>1, <1>2, <2>2 DEF Invalid, AssertValid, n
    <3> QED
      BY <3>1 DEF Results, Answered, ReduceIsCanonical, AlignedMulIsCanonical,
                  MulIsCongruent, AddIsExact
  <2> QED
    BY <1>1, <1>2, <2>1, <2>3, AnsweredAtOnce, NextInvariant
<1>3. CASE ~Invalid(e, f) /\ pc' = "divide" /\ UNCHANGED <<p, locals, returned>>
  <2>1. UNCHANGED <<p, a, place, qhat, rhat, q, r, returned>> /\ pc' = "divide"
    BY <1>3 DEF locals
  <2>2. TypeOK'
    <3>1. call' \in [op : {"from_u256", "add", "mul", "reduce"}, e : Fp', f : Fp']
      BY <1>1, <2>1, FieldUnchanged
    <3>2. /\ a \in Nat /\ qhat \in Nat /\ rhat \in Nat /\ q \in Nat /\ r \in Nat
          /\ place \in -1..MAX_LIMBS /\ returned \in [status : Statuses, value : Nat, carry : Nat]
      BY <1>1 DEF TypeOK
    <3> QED
      BY <1>1, <2>1, <3>1, <3>2 DEF TypeOK
  <2>3. OperandsAreValid'
    <3>1. ~ Invalid(e, f)'
      BY <1>3, <2>1, FieldUnchanged
    <3>2. call'.op = op /\ call'.e = e /\ call'.f = f
      BY <1>1
    <3> QED
      BY <3>1, <3>2 DEF OperandsAreValid
  <2>4. PositionOK' /\ DivisionIsExact' /\ EstimateIsEnough' /\ RemainderIsExact'
    BY <1>1, <2>1 DEF PositionOK, DivisionIsExact, Dividing, EstimateIsEnough, RemainderIsExact
  <2> QED
    BY <2>1, <2>2, <2>3, <2>4, NoResultYet, NextInvariant
<1> QED
  BY <1>2, <1>3 DEF Divide

LEMMA TakeStep ==
  ASSUME IInv, Take
  PROVE  IInv'
<1>1. /\ TypeOK /\ PositionOK /\ pc = "answered" /\ pc' = "idle"
      /\ call' = NoCall /\ returned' = NoReturn /\ UNCHANGED <<p, a, place, qhat, rhat, q, r>>
  BY DEF IInv, Take, locals
<1>2. TypeOK'
  BY <1>1, AnswerTypes, FieldUnchanged DEF TypeOK
<1>3. /\ OperandsAreValid' /\ PositionOK' /\ DivisionIsExact'
      /\ EstimateIsEnough' /\ RemainderIsExact'
  BY <1>1 DEF OperandsAreValid, PositionOK, DivisionIsExact, Dividing, EstimateIsEnough,
              RemainderIsExact
<1> QED
  BY <1>1, <1>2, <1>3, NoResultYet, NextInvariant

LEMMA Initially ==
  ASSUME NonNativeInit
  PROVE  IInv
<1>1. TypeOK
  <2>1. MAX_LIMBS \in Nat
    BY WeightFacts
  <2> QED
    BY <2>1, AnswerTypes DEF NonNativeInit, TypeOK
<1> QED
  BY <1>1 DEF NonNativeInit, IInv, OperandsAreValid, PositionOK, DivisionIsExact, Dividing,
              EstimateIsEnough, RemainderIsExact, ReduceIsCanonical, AlignedMulIsCanonical,
              MulIsCongruent, AddIsExact, Answered

LEMMA Stuttering ==
  ASSUME IInv, UNCHANGED nonNativeVars
  PROVE  IInv'
<1>1. p' = p /\ call' = call /\ UNCHANGED <<pc, a, place, qhat, rhat, q, r, returned>>
  BY DEF nonNativeVars, locals
<1>2. /\ n' = n /\ Scale' = Scale /\ Divisor' = Divisor /\ Fp' = Fp /\ Window' = Window
      /\ Dividend' = Dividend /\ Aligned' = Aligned /\ Dividing' = Dividing
      /\ \A e, f : Invalid(e, f)' = Invalid(e, f)
  BY <1>1, FieldUnchanged, CallUnchanged, WindowUnchanged DEF Dividing
<1>3. TypeOK'
  BY <1>1, <1>2 DEF IInv, TypeOK
<1>4. OperandsAreValid' /\ PositionOK' /\ DivisionIsExact' /\ RemainderIsExact'
  BY <1>1, <1>2 DEF IInv, OperandsAreValid, PositionOK, DivisionIsExact, RemainderIsExact
<1>5. EstimateIsEnough'
  BY <1>1, <1>2 DEF IInv, EstimateIsEnough
<1>6. Results'
  <2>1. Outgrows' = Outgrows
    BY <1>1, <1>2 DEF Outgrows
  <2> QED
    BY <1>1, <1>2, <2>1 DEF IInv, Results, Answered, ReduceIsCanonical, AlignedMulIsCanonical,
                            MulIsCongruent, AddIsExact
<1> QED
  BY <1>3, <1>4, <1>5, <1>6, NextInvariant

-----------------------------------------------------------------------------

(* Every state of every field satisfies the invariant of its division: as  *)
(* long as the first window is below the divisor, each digit is exact after *)
(* at most one addition of the divisor (Bignum::div_rem).                  *)
THEOREM Invariance == NonNativeSpec => []IInv
<1>1. NonNativeInit => IInv
  BY Initially
<1>2. IInv /\ [NonNativeNext]_nonNativeVars => IInv'
  <2> SUFFICES ASSUME IInv, [NonNativeNext]_nonNativeVars PROVE IInv'
    OBVIOUS
  <2>1. ASSUME NEW e \in Fp, FromU256(e) PROVE IInv'
    BY <2>1, FromU256Step
  <2>2. ASSUME NEW e \in Fp, Divide("reduce", e, e) PROVE IInv'
    BY <2>2, DivideStep
  <2>3. ASSUME NEW e \in Fp, NEW f \in Fp, Add(e, f) PROVE IInv'
    BY <2>3, AddStep
  <2>4. ASSUME NEW e \in Fp, NEW f \in Fp, Divide("mul", e, f) PROVE IInv'
    BY <2>4, DivideStep
  <2>5. CASE DivideSmall
    BY <2>5, DivideSmallStep
  <2>6. CASE Normalize
    BY <2>6, NormalizeStep
  <2>7. CASE Estimate
    BY <2>7, EstimateStep
  <2>8. CASE Correct
    BY <2>8, CorrectStep
  <2>9. CASE Subtract
    BY <2>9, SubtractStep
  <2>10. CASE Remainder
    BY <2>10, RemainderStep
  <2>11. CASE Check
    BY <2>11, CheckStep
  <2>12. CASE Take
    BY <2>12, TakeStep
  <2>13. CASE UNCHANGED nonNativeVars
    BY <2>13, Stuttering
  <2> QED
    BY <2>1, <2>2, <2>3, <2>4, <2>5, <2>6, <2>7, <2>8, <2>9, <2>10, <2>11, <2>12, <2>13
    DEF NonNativeNext
<1> QED
  BY <1>1, <1>2, PTL DEF NonNativeSpec

(* reduce never refuses a valid element and returns its canonical          *)
(* representative, whatever the modulus and the base (reduce).             *)
THEOREM ReduceCanonical == NonNativeSpec => []ReduceIsCanonical
<1>1. IInv => ReduceIsCanonical
  BY DEF IInv
<1> QED
  BY <1>1, Invariance, PTL

(* mul returns the canonical product whenever the first window of the      *)
(* scaled product is below the scaled modulus and the product does not     *)
(* outgrow the numbers it is compared with the sum of (mul, add, cmp).     *)
THEOREM MulCanonical == NonNativeSpec => []AlignedMulIsCanonical
<1>1. IInv => AlignedMulIsCanonical
  BY DEF IInv
<1> QED
  BY <1>1, Invariance, PTL

(* mul never returns an element of another residue class, also when its    *)
(* division went wrong (mul, the relation it asserts).                     *)
THEOREM MulCongruent == NonNativeSpec => []MulIsCongruent
<1>1. IInv => MulIsCongruent
  BY DEF IInv
<1> QED
  BY <1>1, Invariance, PTL

(* add never refuses valid elements; sum and carry together are exact (add). *)
THEOREM AddExact == NonNativeSpec => []AddIsExact
<1>1. IInv => AddIsExact
  BY DEF IInv
<1> QED
  BY <1>1, Invariance, PTL

=============================================================================
