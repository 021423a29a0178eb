------------------------- MODULE ProofSystemProofs -------------------------
(***************************************************************************)
(* What the verifiers of Halo2 and of range proofs decide, and that the    *)
(* folds of FRI follow a polynomial, on the exact field arithmetic of      *)
(* ArithmeticProofs.                                                       *)
(*                                                                         *)
(* Halo2: the accumulator holds sums because they are reduced; verdicts    *)
(* follow from the gates and the grand product; and that product is one    *)
(* for honest cells, since the numerators are the denominators in the      *)
(* order of the permutation.                                               *)
(*                                                                         *)
(* The range proof: points are compared place by place, each a sum of      *)
(* products up to a multiple of the prime; a round of the inner product    *)
(* keeps such sums, the commitments add up to the polynomials evaluated,   *)
(* and a last scalar changed leaves the residual of one generator alone.   *)
(*                                                                         *)
(* FRI: a layer holds the values of its polynomial but for one at most.    *)
(* Twice the point times the fold of two opposite values is known, so the  *)
(* fold of true values is the value of the folded polynomial, and that of  *)
(* a wrong one differs from it unless the challenge is minus its point.    *)
(***************************************************************************)
EXTENDS ArithmeticProofs, ProofSystems

-----------------------------------------------------------------------------
(* The accumulator of Halo2.                                               *)

(* What is folded into an accumulator.                                      *)
Folds == ({"commitment"} \X FoldedPoints) \cup ({"value"} \X FoldedWords)

(* The words folded as values that are not elements of the field.           *)
UnreducedOf(list) == {n \in DOMAIN list : list[n][1] = "value" /\ list[n][2] >= FR_MODULUS}

(* AccumulatorIsSum, of any accumulator and any folds.                      *)
SumsHold(a, list) ==
    /\ a.count = Len(list)
    /\ a.commitment = FoldTotal("commitment", list) % FR_MODULUS
    /\ UnreducedOf(list) = {} => a.value = FoldTotal("value", list) % FR_MODULUS
    /\ Cardinality(UnreducedOf(list)) <= 1 =>
          a.value % FR_MODULUS = FoldTotal("value", list) % FR_MODULUS

(* The sums stay sums because the value stays a word as long as at most one *)
(* word was not an element.                                                 *)
AccumulatorInv(a, list) ==
    /\ list \in Seq(Folds)
    /\ a \in [commitment : 0..(FR_MODULUS - 1), value : Int, count : Nat]
    /\ SumsHold(a, list)
    /\ Cardinality(UnreducedOf(list)) <= 1 => a.value \in U256

(* The total of a list is a sum of numbers.                                 *)
LEMMA TotalUnfolds ==
  ASSUME NEW kind, NEW list \in Seq(Folds)
  PROVE  \E f : /\ f = [k \in 0..Len(list) |->
                          IF k = 0 THEN 0
                          ELSE f[k - 1] + (IF list[k][1] = kind THEN list[k][2] ELSE 0)]
                /\ FoldTotal(kind, list) = f[Len(list)]
<1> DEFINE Step(f, k) == IF k = 0 THEN 0 ELSE f[k - 1] + (IF list[k][1] = kind THEN list[k][2] ELSE 0)
           P(n) == \E f : f = [k \in 0..n |-> Step(f, k)]
           Q == {n \in Nat : P(n)}
<1>1. 0 \in Q
  <2> DEFINE f == [k \in 0..0 |-> 0]
  <2>1. f = [k \in 0..0 |-> Step(f, k)]
    OBVIOUS
  <2> QED BY <2>1
<1>2. ASSUME NEW n \in Q PROVE n + 1 \in Q
  <2> HIDE DEF Step
  <2>1. PICK f : f = [k \in 0..n |-> Step(f, k)]
    OBVIOUS
  <2> DEFINE f1 == [k \in 0..(n + 1) |-> Step(f, k)]
  <2>2. \A k \in 0..n : f1[k] = f[k]
    BY <2>1
  <2>3. ASSUME NEW k \in 0..(n + 1) PROVE Step(f, k) = Step(f1, k)
    <3>1. k # 0 => k - 1 \in 0..n
      OBVIOUS
    <3> HIDE DEF f1
    <3>2. k # 0 => f1[k - 1] = f[k - 1]
      BY <2>2, <3>1
    <3> QED BY <3>2 DEF Step
  <2>4. f1 = [k \in 0..(n + 1) |-> Step(f1, k)]
    BY <2>3
  <2> HIDE DEF f1
  <2>5. n + 1 \in Nat /\ P(n + 1)
    BY <2>4
  <2> HIDE DEF P
  <2> QED BY <2>5
<1>3. P(Len(list))
  <2>1. Q \in SUBSET Nat
    OBVIOUS
  <2>2. Q = Nat
    <3> HIDE DEF Q
    <3> QED BY <1>1, <1>2, <2>1, Inductive
  <2> HIDE DEF P
  <2> QED BY <2>2
<1> DEFINE f == CHOOSE f : f = [k \in 0..Len(list) |-> Step(f, k)]
<1>4. f = [k \in 0..Len(list) |-> Step(f, k)]
  BY <1>3
<1>5. FoldTotal(kind, list) = f[Len(list)]
  BY DEF FoldTotal
<1> HIDE DEF f
<1> QED BY <1>4, <1>5

(* What is folded is a number, of one of two kinds.                         *)
LEMMA FoldsAre ==
  /\ FR_MODULUS \in Moduli /\ FR_MODULUS \in Nat /\ FR_MODULUS > 2 /\ 2 * FR_MODULUS < Word
  /\ Word \in Nat
  /\ \A p \in FoldedPoints : p \in 0..(FR_MODULUS - 1)
  /\ \A v \in FoldedWords : v \in U256 /\ v \in Nat
  /\ \A e \in Folds : e[2] \in Nat
<1>1. /\ FR_MODULUS \in Moduli /\ FR_MODULUS \in Nat /\ FR_MODULUS > 2 /\ 2 * FR_MODULUS < Word
      /\ Word \in Nat
  BY WordFacts DEF Moduli
<1>2. \A p \in FoldedPoints : p \in 0..(FR_MODULUS - 1)
  BY Halo2Assumption
<1>3. \A v \in FoldedWords : v \in U256 /\ v \in Nat
  BY Halo2Assumption, <1>1 DEF U256
<1>4. \A e \in Folds : e[2] \in Nat
  BY <1>1, <1>2, <1>3 DEF Folds
<1> QED BY <1>1, <1>2, <1>3, <1>4

(* A total is a number, and that of a longer list has one more summand.     *)
LEMMA TotalAppends ==
  ASSUME NEW kind, NEW list \in Seq(Folds), NEW e \in Folds
  PROVE  /\ FoldTotal(kind, list) \in Nat
         /\ FoldTotal(kind, Append(list, e))
              = FoldTotal(kind, list) + (IF e[1] = kind THEN e[2] ELSE 0)
<1> DEFINE longer == Append(list, e)
           len == Len(list)
<1>1. len \in Nat /\ longer \in Seq(Folds) /\ Len(longer) = len + 1 /\ longer[len + 1] = e
      /\ (\A k \in 1..len : longer[k] = list[k] /\ list[k] \in Folds)
  OBVIOUS
<1>2. PICK f : /\ f = [k \in 0..len |->
                          IF k = 0 THEN 0
                          ELSE f[k - 1] + (IF list[k][1] = kind THEN list[k][2] ELSE 0)]
               /\ FoldTotal(kind, list) = f[len]
  BY TotalUnfolds
<1>3. PICK g : /\ g = [k \in 0..(len + 1) |->
                          IF k = 0 THEN 0
                          ELSE g[k - 1] + (IF longer[k][1] = kind THEN longer[k][2] ELSE 0)]
               /\ FoldTotal(kind, longer) = g[len + 1]
  <2> HIDE DEF longer, len
  <2>1. PICK list2 \in Seq(Folds) : list2 = longer /\ Len(list2) = len + 1
    BY <1>1
  <2>2. PICK g : /\ g = [k \in 0..Len(list2) |->
                          IF k = 0 THEN 0
                          ELSE g[k - 1] + (IF list2[k][1] = kind THEN list2[k][2] ELSE 0)]
                 /\ FoldTotal(kind, list2) = g[Len(list2)]
    BY TotalUnfolds
  <2> QED BY <2>1, <2>2
<1> HIDE DEF longer, len
<1>4. f[0] = 0 /\ \A k \in 1..len : f[k] = f[k - 1] + (IF list[k][1] = kind THEN list[k][2] ELSE 0)
  BY <1>1, <1>2
<1>5. g[0] = 0 /\ \A k \in 1..(len + 1) : g[k] = g[k - 1] + (IF longer[k][1] = kind THEN longer[k][2] ELSE 0)
  BY <1>1, <1>3
<1> DEFINE Q == {n \in Nat : n <= len => f[n] \in Nat /\ f[n] = g[n]}
<1>6. 0 \in Q
  BY <1>4, <1>5
<1>7. ASSUME NEW n \in Q PROVE n + 1 \in Q
  <2>1. CASE n + 1 <= len
    <3>1. n + 1 \in 1..len /\ n + 1 \in 1..(len + 1) /\ (n + 1) - 1 = n /\ n <= len
      BY <1>1, <2>1
    <3>2. list[n + 1][2] \in Nat /\ longer[n + 1] = list[n + 1]
      BY <1>1, <3>1, FoldsAre
    <3>3. f[n + 1] = f[n] + (IF list[n + 1][1] = kind THEN list[n + 1][2] ELSE 0)
      BY <1>4, <3>1
    <3>4. g[n + 1] = g[n] + (IF list[n + 1][1] = kind THEN list[n + 1][2] ELSE 0)
      BY <1>5, <3>1, <3>2
    <3>5. f[n] \in Nat /\ f[n] = g[n]
      BY <3>1
    <3> QED BY <3>2, <3>3, <3>4, <3>5
  <2> QED BY <2>1
<1>8. Q = Nat
  <2>1. Q \in SUBSET Nat
    OBVIOUS
  <2> HIDE DEF Q
  <2> QED BY <1>6, <1>7, <2>1, Inductive
<1>9. f[len] \in Nat /\ g[len] = f[len]
  BY <1>1, <1>8
<1>10. g[len + 1] = g[len] + (IF e[1] = kind THEN e[2] ELSE 0)
  <2>1. len + 1 \in 1..(len + 1) /\ (len + 1) - 1 = len
    BY <1>1
  <2> QED BY <1>1, <1>5, <2>1
<1> QED BY <1>2, <1>3, <1>9, <1>10 DEF longer

(* Nothing folded, nothing summed.                                          *)
LEMMA EmptyTotal == \A kind : FoldTotal(kind, <<>>) = 0
<1>1. <<>> \in Seq(Folds) /\ Len(<<>>) = 0
  OBVIOUS
<1>2. ASSUME NEW kind PROVE FoldTotal(kind, <<>>) = 0
  <2> DEFINE list == <<>>
  <2>0. list \in Seq(Folds) /\ Len(list) = 0
    BY <1>1
  <2> HIDE DEF list
  <2>1. PICK f : /\ f = [k \in 0..Len(list) |->
                        IF k = 0 THEN 0
                        ELSE f[k - 1] + (IF list[k][1] = kind THEN list[k][2] ELSE 0)]
                 /\ FoldTotal(kind, list) = f[Len(list)]
    BY <2>0, TotalUnfolds
  <2>2. f[0] = 0
    BY <2>0, <2>1
  <2> QED BY <2>0, <2>1, <2>2 DEF list
<1> QED BY <1>2

(* Nothing is folded into a new accumulator.                                *)
LEMMA EmptyAccumulator == AccumulatorInv(NewAccumulator, <<>>)
<1>1. <<>> \in Seq(Folds) /\ Len(<<>>) = 0
  OBVIOUS
<1>2. 0 % FR_MODULUS = 0 /\ 0 \in U256 /\ 0 \in 0..(FR_MODULUS - 1) /\ 0 \in Int
  BY FoldsAre, ResidueIsIdempotent DEF U256
<1>3. SumsHold(NewAccumulator, <<>>)
  BY <1>1, <1>2, EmptyTotal DEF SumsHold, NewAccumulator
<1> QED BY <1>1, <1>2, <1>3 DEF AccumulatorInv, NewAccumulator

(* The words that are not elements, of a longer list.                       *)
LEMMA UnreducedGrows ==
  ASSUME NEW list \in Seq(Folds), NEW e \in Folds
  PROVE  /\ UnreducedOf(Append(list, e))
              = IF e[1] = "value" /\ e[2] >= FR_MODULUS
                THEN UnreducedOf(list) \cup {Len(list) + 1} ELSE UnreducedOf(list)
         /\ IsFiniteSet(UnreducedOf(list)) /\ Len(list) + 1 \notin UnreducedOf(list)
<1>1. /\ Len(list) \in Nat /\ DOMAIN list = 1..Len(list)
      /\ DOMAIN Append(list, e) = 1..(Len(list) + 1) /\ Append(list, e)[Len(list) + 1] = e
      /\ \A k \in 1..Len(list) : Append(list, e)[k] = list[k]
  OBVIOUS
<1>2. 1..(Len(list) + 1) = (1..Len(list)) \cup {Len(list) + 1} /\ Len(list) + 1 \notin 1..Len(list)
  BY <1>1
<1>3. UnreducedOf(list) \subseteq 1..Len(list) /\ IsFiniteSet(1..Len(list))
  BY <1>1, FS_Interval DEF UnreducedOf
<1>4. IsFiniteSet(UnreducedOf(list))
  BY <1>3, FS_Subset
<1> QED BY <1>1, <1>2, <1>3, <1>4 DEF UnreducedOf

(* What folding makes of an accumulator.                                     *)
LEMMA FoldsMake ==
  ASSUME NEW S, NEW a, a \in [commitment : S, value : Int, count : Nat], NEW p
  PROVE  /\ FoldCommitment(a, p)
              = [commitment |-> IF a.count = 0 THEN p ELSE HAdd(a.commitment, p),
                 value |-> a.value, count |-> a.count + 1]
         /\ FoldScalar(a, p)
              = [commitment |-> a.commitment, value |-> HAdd(a.value, p), count |-> a.count + 1]
<1>1. PICK c, v, n : a \in [commitment : {c}, value : {v}, count : {n}]
  OBVIOUS
<1>2. a.commitment = c /\ a.value = v /\ a.count = n
  BY <1>1
<1>3. ASSUME NEW h, NEW g
      PROVE  /\ [a EXCEPT !.value = h, !.count = g] = [commitment |-> c, value |-> h, count |-> g]
             /\ [a EXCEPT !.commitment = h, !.count = g] = [commitment |-> h, value |-> v, count |-> g]
  <2>1. [a EXCEPT !.value = h, !.count = g] \in [commitment : {c}, value : {h}, count : {g}]
    BY <1>1
  <2>2. [a EXCEPT !.commitment = h, !.count = g] \in [commitment : {h}, value : {v}, count : {g}]
    BY <1>1
  <2>3. \A c1, v1, n1, f : f \in [commitment : {c1}, value : {v1}, count : {n1}] =>
                              f = [commitment |-> c1, value |-> v1, count |-> n1]
    OBVIOUS
  <2> QED BY <2>1, <2>2, <2>3, Zenon
<1>4. FoldScalar(a, p) = [a EXCEPT !.value = HAdd(v, p), !.count = n + 1]
  BY <1>2 DEF FoldScalar
<1>5. FoldCommitment(a, p)
        = [a EXCEPT !.commitment = (IF n = 0 THEN p ELSE HAdd(c, p)), !.count = n + 1]
  BY <1>2 DEF FoldCommitment
<1> QED BY <1>2, <1>3, <1>4, <1>5

(* A commitment is added, and the first one overwrites the zero.            *)
LEMMA CommitmentKeeps ==
  ASSUME NEW a, NEW list, AccumulatorInv(a, list), NEW p \in FoldedPoints
  PROVE  AccumulatorInv(FoldCommitment(a, p), Append(list, <<"commitment", p>>))
<1> DEFINE m == FR_MODULUS
           e == <<"commitment", p>>
<1>1. m \in Moduli /\ m \in Nat /\ m > 2 /\ 2 * m < Word /\ Word \in Nat /\ m > 0
  BY FoldsAre
<1>2. e \in Folds /\ e[1] = "commitment" /\ e[2] = p /\ p \in 0..(m - 1) /\ p \in Nat
  BY FoldsAre DEF Folds
<1>3. /\ list \in Seq(Folds) /\ a \in [commitment : 0..(m - 1), value : Int, count : Nat]
      /\ SumsHold(a, list) /\ (Cardinality(UnreducedOf(list)) <= 1 => a.value \in U256)
  BY DEF AccumulatorInv
<1> DEFINE longer == Append(list, e)
<1>4. longer \in Seq(Folds) /\ Len(longer) = Len(list) + 1 /\ Len(list) \in Nat
  BY <1>2, <1>3
<1>5. PICK c \in Nat : /\ c = FoldTotal("commitment", list) /\ FoldTotal("commitment", longer) = c + p
                      /\ FoldTotal("value", longer) = FoldTotal("value", list)
  <2>1. /\ FoldTotal("commitment", list) \in Nat /\ FoldTotal("value", list) \in Nat
        /\ FoldTotal("commitment", longer) = FoldTotal("commitment", list) + p
        /\ FoldTotal("value", longer) = FoldTotal("value", list) + 0
    BY <1>2, <1>3, TotalAppends
  <2> HIDE DEF longer, e
  <2> QED BY <2>1
<1>6. UnreducedOf(longer) = UnreducedOf(list)
  BY <1>2, <1>3, UnreducedGrows
<1>7. a.commitment = c % m /\ a.count = Len(list) /\ a.commitment \in 0..(m - 1)
  BY <1>3, <1>5 DEF SumsHold
<1> DEFINE b == FoldCommitment(a, p)
<1>8. PICK sum : /\ sum = (IF a.count = 0 THEN p ELSE HAdd(a.commitment, p))
                 /\ b = [commitment |-> sum, value |-> a.value, count |-> a.count + 1]
  BY <1>3, FoldsMake
<1>9. b.commitment = (c + p) % m
  <2>1. CASE a.count = 0
    <3>1. list = <<>>
      <4>1. Len(list) = 0
        BY <1>7, <2>1
      <4> HIDE DEF m, e, longer, b
      <4> QED BY <1>3, <4>1, EmptySeq
    <3>2. c = 0
      BY <1>5, <3>1, EmptyTotal
    <3>3. (c + p) % m = p
      BY <1>1, <1>2, <3>2, ResidueIsIdempotent
    <3> HIDE DEF b, m, e
    <3> QED BY <1>8, <2>1, <3>3
  <2>2. CASE a.count # 0
    <3>1. p % m = p
      BY <1>1, <1>2, ResidueIsIdempotent
    <3>2. AddMod(c % m, p % m, m) = (c + p) % m
      BY <1>1, <1>2, SumOfResidues
    <3>3. HAdd(a.commitment, p) = AddMod(a.commitment, p, m)
      BY DEF HAdd
    <3>4. b.commitment = HAdd(a.commitment, p)
      <4> HIDE DEF b, e, m
      <4> QED BY <1>8, <2>2
    <3> HIDE DEF b, e, m
    <3> QED BY <1>7, <3>1, <3>2, <3>3, <3>4
  <2> QED BY <2>1, <2>2
<1>10. b \in [commitment : 0..(m - 1), value : Int, count : Nat]
  <2>1. PICK cp \in Nat : cp = c + p
    BY <1>2
  <2>2. cp % m \in 0..(m - 1)
    BY <1>1, DivMod
  <2>3. a.value \in Int /\ a.count + 1 \in Nat
    BY <1>3
  <2> HIDE DEF b, m, e
  <2>4. sum \in 0..(m - 1)
    BY <1>8, <1>9, <2>1, <2>2
  <2> QED BY <1>8, <2>3, <2>4
<1>11. SumsHold(b, longer)
  <2> HIDE DEF b, e, longer
  <2> QED BY <1>3, <1>4, <1>5, <1>6, <1>7, <1>8, <1>9 DEF SumsHold
<1> HIDE DEF b, longer
<1>12. AccumulatorInv(b, longer)
  BY <1>3, <1>4, <1>6, <1>8, <1>10, <1>11 DEF AccumulatorInv
<1> QED BY <1>12 DEF b, longer

(* A value is added; one that is not an element makes the sum a word, not a *)
(* residue, and the next one must be an element for it to stay one.         *)
LEMMA ValueKeeps ==
  ASSUME NEW a, NEW list, AccumulatorInv(a, list), NEW v \in FoldedWords
  PROVE  AccumulatorInv(FoldScalar(a, v), Append(list, <<"value", v>>))
<1> DEFINE m == FR_MODULUS
           e == <<"value", v>>
<1>1. m \in Moduli /\ m \in Nat /\ m > 2 /\ 2 * m < Word /\ Word \in Nat /\ m > 0
  BY FoldsAre
<1>2. e \in Folds /\ e[1] = "value" /\ e[2] = v /\ v \in U256 /\ v \in Nat /\ v < Word
  BY <1>1, FoldsAre DEF Folds, U256
<1>3. /\ list \in Seq(Folds) /\ a \in [commitment : 0..(m - 1), value : Int, count : Nat]
      /\ SumsHold(a, list) /\ (Cardinality(UnreducedOf(list)) <= 1 => a.value \in U256)
  BY DEF AccumulatorInv
<1> DEFINE longer == Append(list, e)
<1>4. longer \in Seq(Folds) /\ Len(longer) = Len(list) + 1 /\ Len(list) \in Nat
  BY <1>2, <1>3
<1>5. PICK s \in Nat : /\ s = FoldTotal("value", list) /\ FoldTotal("value", longer) = s + v
                      /\ FoldTotal("commitment", longer) = FoldTotal("commitment", list)
  <2>1. /\ FoldTotal("commitment", list) \in Nat /\ FoldTotal("value", list) \in Nat
        /\ FoldTotal("commitment", longer) = FoldTotal("commitment", list) + 0
        /\ FoldTotal("value", longer) = FoldTotal("value", list) + v
    BY <1>2, <1>3, TotalAppends
  <2> HIDE DEF longer, e
  <2> QED BY <2>1
<1> DEFINE few == UnreducedOf(list)
           more == UnreducedOf(longer)
<1>6. /\ IsFiniteSet(few) /\ more = IF v >= m THEN few \cup {Len(list) + 1} ELSE few
      /\ Len(list) + 1 \notin few
  BY <1>2, <1>3, UnreducedGrows
<1> DEFINE b == FoldScalar(a, v)
<1>7. b = [commitment |-> a.commitment, value |-> AddMod(a.value, v, m), count |-> a.count + 1]
  <2>1. HAdd(a.value, v) = AddMod(a.value, v, m)
    BY DEF HAdd
  <2> HIDE DEF m, e, longer
  <2> QED BY <1>3, <2>1, FoldsMake
<1>8. /\ a.count = Len(list) /\ a.commitment = FoldTotal("commitment", list) % m
      /\ (few = {} => a.value = s % m) /\ (Cardinality(few) <= 1 => a.value % m = s % m)
  BY <1>3, <1>5 DEF SumsHold
<1> HIDE DEF b, e, longer, few, more
<1>9. Cardinality(few) \in Nat /\ (Cardinality(few) = 0 <=> few = {})
      /\ Cardinality(more) = Cardinality(few) + (IF v >= m THEN 1 ELSE 0)
  <2>1. Cardinality(few) \in Nat
    BY <1>6, FS_CardinalityType
  <2>2. Cardinality(few) = 0 <=> few = {}
    BY <1>6, FS_EmptySet
  <2>3. CASE v >= m
    <3>1. Cardinality(few \cup {Len(list) + 1}) = Cardinality(few) + 1
      BY <1>6, FS_AddElement
    <3> QED BY <1>6, <2>1, <2>2, <2>3, <3>1
  <2>4. CASE ~ (v >= m)
    BY <1>6, <2>1, <2>2, <2>4
  <2> QED BY <2>3, <2>4
<1>10. AddMod(a.value, v, m) \in Int
  <2>1. PICK w \in Int : w = a.value
    BY <1>3
  <2>2. PICK big \in Nat, sum \in Int : big = Word /\ sum = w + v /\ big > 0
    BY <1>1, <1>2
  <2>3. PICK low \in Int, back \in Int : low = sum % big /\ back = low - m
    <3>1. PICK low \in Int : low = sum % big
      BY <2>2, DivMod
    <3> QED BY <1>1, <3>1
  <2>4. back % big \in Int
    BY <2>2, DivMod
  <2> QED BY <2>1, <2>2, <2>3, <2>4 DEF AddMod
<1>11. ASSUME Cardinality(more) <= 1
       PROVE  b.value \in U256 /\ b.value % m = (s + v) % m
  <2>1. PICK w \in U256 : w = a.value /\ w % m = s % m
    BY <1>3, <1>8, <1>9, <1>11 DEF few
  <2>2. w \in Nat /\ w < Word
    BY <1>1, <2>1 DEF U256
  <2>3. w + v < Word + m
    <3>1. CASE v >= m
      <4>1. few = {}
        BY <1>9, <1>11, <3>1
      <4>2. w < m
        <5>1. PICK res \in 0..(m - 1) : res = s % m
          BY <1>1, DivMod
        <5> QED BY <1>1, <1>8, <2>1, <4>1, <5>1
      <4> QED BY <1>1, <1>2, <2>2, <4>2
    <3>2. CASE ~ (v >= m)
      BY <1>1, <1>2, <2>2, <3>2
    <3> QED BY <3>1, <3>2
  <2>4. PICK out \in U256 : out = AddMod(w, v, m) /\ Same(out, w + v, m)
    BY <1>1, <1>2, <2>3, SumIsExact
  <2>5. PICK wv \in Int, sv \in Int : wv = w + v /\ sv = s + v
    BY <1>2, <2>2
  <2>6. Same(w, s, m) /\ w \in Int /\ s \in Int /\ v \in Int
    <3>1. w \in Int /\ s \in Int /\ v \in Int
      BY <1>2, <2>2
    <3> QED BY <1>1, <2>1, <3>1, SameIsResidue
  <2>7. Same(wv, sv, m)
    <3>1. Same(v, v, m)
      BY <1>1, <2>6, SameIsEquivalence
    <3> QED BY <1>1, <2>5, <2>6, <3>1, SameSum
  <2>8. out \in Int
    BY <1>1, <2>4 DEF U256
  <2>9. Same(out, sv, m)
    BY <1>1, <2>4, <2>5, <2>7, <2>8, SameIsEquivalence
  <2>10. out % m = sv % m
    BY <1>1, <2>5, <2>8, <2>9, SameIsResidue
  <2> QED BY <1>7, <2>1, <2>4, <2>5, <2>10
<1>12. ASSUME more = {} PROVE b.value = (s + v) % m
  <2>1. few = {} /\ v < m
    BY <1>1, <1>2, <1>6, <1>12
  <2>2. v % m = v
    <3>1. v \in 0..(m - 1) /\ v \in Int
      BY <1>1, <1>2, <2>1
    <3> QED BY <1>1, <3>1, ResidueIsIdempotent
  <2>3. AddMod(s % m, v % m, m) = (s + v) % m
    BY <1>1, <1>2, SumOfResidues
  <2> QED BY <1>7, <1>8, <2>1, <2>2, <2>3
<1>13. SumsHold(b, longer)
  BY <1>4, <1>5, <1>7, <1>8, <1>11, <1>12 DEF SumsHold, more
<1>14. AccumulatorInv(b, longer)
  <2>1. b \in [commitment : 0..(m - 1), value : Int, count : Nat]
    BY <1>3, <1>7, <1>10
  <2> QED BY <1>4, <1>11, <1>13, <2>1 DEF AccumulatorInv, more
<1> QED BY <1>14 DEF b, longer, e

(* In whatever order commitments and values are folded, the accumulator     *)
(* holds their sums, as long as at most one value is not an element.        *)
THEOREM AccumulatorSums == Halo2Spec => []AccumulatorIsSum
<1> DEFINE Kept == AccumulatorInv(acc, folds)
<1>1. Halo2Init => Kept
  BY EmptyAccumulator DEF Halo2Init
<1>2. ASSUME Kept, [Halo2Next]_halo2Vars PROVE Kept'
  <2>1. CASE TakeKey
    BY <1>2, <2>1 DEF TakeKey
  <2>2. CASE Verify
    BY <1>2, <2>2 DEF Verify
  <2>3. CASE FoldIn
    BY <1>2, <2>3, CommitmentKeeps, ValueKeeps DEF FoldIn
  <2>4. CASE DropAll
    BY <2>4, EmptyAccumulator DEF DropAll
  <2>5. CASE UNCHANGED halo2Vars
    BY <1>2, <2>5 DEF halo2Vars
  <2> QED BY <1>2, <2>1, <2>2, <2>3, <2>4, <2>5 DEF Halo2Next
<1>3. Kept => AccumulatorIsSum
  <2>1. {n \in Folded("value") : folds[n][2] >= FR_MODULUS} = UnreducedOf(folds)
    BY DEF Folded, UnreducedOf
  <2> QED BY <2>1 DEF AccumulatorInv, SumsHold, AccumulatorIsSum, FoldedSum
<1> QED BY <1>1, <1>2, <1>3, PTL DEF Halo2Spec

-----------------------------------------------------------------------------
(* The verification of cells.                                               *)

(* The fields of a key that validate accepts.                               *)
LEMMA ValidKey ==
  ASSUME NEW key \in KeysGiven, Validate(key)
  PROVE  /\ ROWS \in Nat \ {0} /\ COLS \in Nat \ {0} /\ Cells(key) = ROWS * COLS
         /\ key.numGates \in Nat /\ key.numGates <= MAX_GATES /\ MAX_GATES \in Nat
         /\ key.sigma \in Seq(Nat) /\ \A g \in 1..key.numGates : ~ GatePanics(key.gates[g])
<1>1. key \in AnyKey
  BY Halo2Assumption
<1>2. key.numGates \in Nat /\ key.sigma \in Seq(Nat) /\ key.gates \in [1..MAX_GATES -> Gates]
  BY <1>1 DEF AnyKey
<1>3. ROWS \in Nat /\ COLS \in Nat /\ MAX_GATES \in Nat /\ MAX_GATE_TERMS \in Nat /\ MAX_FACTORS \in Nat
  BY Halo2Assumption
<1>4. ROWS # 0 /\ COLS # 0 /\ Cells(key) = ROWS * COLS /\ key.numGates <= MAX_GATES
  BY DEF Validate
<1>5. ASSUME NEW g \in 1..key.numGates PROVE ~ GatePanics(key.gates[g])
  <2>1. key.gates[g] \in Gates
    BY <1>2, <1>3, <1>4
  <2>2. PICK gate \in Gates : gate = key.gates[g]
    BY <2>1
  <2>3. gate.numTerms <= MAX_GATE_TERMS /\ gate.numTerms \in Nat
    BY <2>2 DEF Validate, Gates
  <2>4. ASSUME NEW n \in 1..gate.numTerms
        PROVE  /\ ~ (n > MAX_GATE_TERMS)
               /\ ~ \E f \in 1..gate.terms[n].degree :
                       f > MAX_FACTORS \/ gate.terms[n].factors[f][1] >= COLS
    <3>1. n \in 1..MAX_GATE_TERMS
      BY <1>3, <2>3
    <3>2. gate.terms[n] \in Terms
      BY <2>2, <3>1 DEF Gates
    <3>3. PICK term \in Terms : term = gate.terms[n]
      BY <3>2
    <3>4. term.degree \in Nat /\ term.factors \in [1..MAX_FACTORS -> Nat \X Int]
      BY DEF Terms
    <3>5. term.degree <= MAX_FACTORS /\ \A f \in 1..term.degree : term.factors[f][1] < COLS
      BY <2>2, <3>3 DEF Validate
    <3>6. ASSUME NEW f \in 1..term.degree PROVE ~ (f > MAX_FACTORS \/ term.factors[f][1] >= COLS)
      <4>1. f \in 1..MAX_FACTORS
        BY <1>3, <3>4, <3>5
      <4>2. term.factors[f][1] \in Nat
        BY <3>4, <4>1
      <4> QED BY <1>3, <3>5, <4>1, <4>2
    <3> QED BY <1>3, <3>1, <3>3, <3>6
  <2> QED BY <2>2, <2>4 DEF GatePanics
<1> QED BY <1>2, <1>3, <1>4, <1>5

(* The gates decide between acceptance and rejection.                       *)
LEMMA GatesDecide ==
  ASSUME NEW key \in KeysGiven, Validate(key), NEW cells
  PROVE  EvaluateGates(key, cells) = IF GatesHold(key, cells) THEN "ok" ELSE "InvalidInput"
<1> DEFINE G == key.numGates
           Gate(n) == (n % G) + 1
           Row(n) == n \div G
           Outcome(n) == IF Gate(n) > MAX_GATES THEN "panic"
                         ELSE IF GatePanics(key.gates[Gate(n)]) THEN "panic"
                         ELSE IF GateSum(key.gates[Gate(n)], cells, Row(n)) # 0 THEN "InvalidInput"
                         ELSE "ok"
           Stops == {n \in 0..(ROWS * G - 1) : Outcome(n) # "ok"}
           Vanishes(g, row) == GateSum(key.gates[g], cells, row) = 0
<1>1. EvaluateGates(key, cells)
        = IF Stops = {} THEN "ok" ELSE Outcome(CHOOSE n \in Stops : \A o \in Stops : n <= o)
  BY DEF EvaluateGates
<1>2. /\ ROWS \in Nat \ {0} /\ G \in Nat /\ G <= MAX_GATES /\ MAX_GATES \in Nat
      /\ \A g \in 1..G : ~ GatePanics(key.gates[g])
  BY ValidKey
<1>3. GatesHold(key, cells) <=> \A g \in 1..G, row \in 0..(ROWS - 1) : Vanishes(g, row)
  BY DEF GatesHold
<1> HIDE DEF Vanishes
<1>4. ASSUME NEW n \in 0..(ROWS * G - 1)
      PROVE  /\ Gate(n) \in 1..G /\ Row(n) \in 0..(ROWS - 1)
             /\ Outcome(n) = IF Vanishes(Gate(n), Row(n)) THEN "ok" ELSE "InvalidInput"
  <2>1. G > 0
    <3>1. G = 0 => ROWS * G = 0
      BY <1>2
    <3> QED BY <1>2, <3>1
  <2>2. PICK q \in Int, rest \in 0..(G - 1) : q = Row(n) /\ rest = n % G /\ n = G * q + rest
    <3>1. n \in Int
      BY <1>2
    <3> HIDE DEF G
    <3> QED BY <1>2, <2>1, <3>1, DivMod
  <2>3. Gate(n) \in 1..G
    <3> HIDE DEF G
    <3> QED BY <1>2, <2>2
  <2>4. q \in 0..(ROWS - 1)
    <3> HIDE DEF G
    <3>1. ~ (q < 0)
      <4>1. q <= -1 => G * q <= G * (-1)
        BY <1>2, <2>1
      <4> QED BY <1>2, <2>1, <2>2, <4>1
    <3>2. ~ (q >= ROWS)
      <4>1. q >= ROWS => G * q >= G * ROWS
        BY <1>2, <2>1
      <4>2. G * ROWS = ROWS * G /\ n < ROWS * G /\ ROWS * G \in Int
        BY <1>2
      <4> QED BY <1>2, <2>1, <2>2, <4>1, <4>2
    <3> QED BY <1>2, <3>1, <3>2
  <2>5. ~ (Gate(n) > MAX_GATES) /\ ~ GatePanics(key.gates[Gate(n)])
    <3>1. PICK g \in 1..G : g = Gate(n)
      BY <2>3
    <3> HIDE DEF G
    <3> QED BY <1>2, <3>1
  <2> QED BY <2>2, <2>3, <2>4, <2>5 DEF Vanishes
<1>5. CASE GatesHold(key, cells)
  <2>1. \A n \in 0..(ROWS * G - 1) : Outcome(n) = "ok"
    BY <1>3, <1>4, <1>5
  <2>2. Stops = {}
    BY <2>1
  <2> QED BY <1>1, <1>5, <2>2
<1>6. CASE ~ GatesHold(key, cells)
  <2>1. PICK g \in 1..G, row \in 0..(ROWS - 1) : ~ Vanishes(g, row)
    BY <1>3, <1>6
  <2>2. PICK n \in 0..(ROWS * G - 1) : Gate(n) = g /\ Row(n) = row
    <3> HIDE DEF G
    <3>1. PICK low \in 0..(G - 1), n \in Int : low = g - 1 /\ n = G * row + low
      BY <1>2
    <3>2. n \div G = row /\ n % G = low
      <4>1. row \in Int /\ G > 0
        BY <1>2
      <4> QED BY <1>2, <3>1, <4>1, DivModIs
    <3>3. n \in 0..(ROWS * G - 1)
      <4>1. G * row <= G * (ROWS - 1) /\ G * row >= 0
        BY <1>2
      <4>2. G * (ROWS - 1) = ROWS * G - G /\ ROWS * G \in Int /\ G * row \in Int
        BY <1>2
      <4> QED BY <1>2, <3>1, <4>1, <4>2
    <3> QED BY <1>2, <3>1, <3>2, <3>3
  <2>3. Outcome(n) = "InvalidInput"
    BY <1>4, <2>1, <2>2
  <2>4. n \in Stops
    BY <2>3
  <2>5. Stops \in SUBSET Nat
    OBVIOUS
  <2> DEFINE first == CHOOSE n2 \in Stops : \A o \in Stops : n2 <= o
  <2>6. first \in Stops
    <3> HIDE DEF Stops
    <3>1. \E n2 \in Stops : \A o \in Stops : n2 <= o
      BY <2>4, <2>5, LeastElement
    <3> QED BY <3>1
  <2>7. first \in 0..(ROWS * G - 1) /\ Outcome(first) # "ok"
    <3> HIDE DEF first, Outcome
    <3> QED BY <2>6
  <2>8. Outcome(first) = "InvalidInput"
    <3> HIDE DEF first, Outcome
    <3> QED BY <1>4, <2>7
  <2>9. EvaluateGates(key, cells) = Outcome(first)
    <3>1. Stops # {}
      BY <2>4
    <3> HIDE DEF Stops, Outcome
    <3> QED BY <1>1, <3>1
  <2> QED BY <1>6, <2>8, <2>9
<1> QED BY <1>5, <1>6

(* What numerators and denominators are.                                    *)
LEMMA ShiftedIs ==
  ASSUME NEW v \in 0..(FR_MODULUS - 1), NEW gamma \in 0..(FR_MODULUS - 1),
         NEW beta \in 0..(FR_MODULUS - 1), NEW pos \in Nat
  PROVE  /\ Shifted(v, pos, beta, gamma) = (v + beta * pos + gamma) % FR_MODULUS
         /\ Shifted(v, pos, beta, gamma) \in 0..(FR_MODULUS - 1)
<1>1. PICK m \in Moduli : m = FR_MODULUS /\ m \in Nat /\ m > 0
  BY FoldsAre
<1>2. v \in Nat /\ gamma \in Nat /\ beta \in Nat /\ v % m = v /\ gamma % m = gamma
  <2>1. v \in Nat /\ gamma \in Nat /\ beta \in Nat /\ v \in 0..(m - 1) /\ gamma \in 0..(m - 1)
    BY <1>1
  <2> QED BY <1>1, <2>1, ResidueIsIdempotent
<1>3. PICK bp \in Nat, bpg \in Nat, all \in Nat :
        bp = beta * pos /\ bpg = bp + gamma /\ all = v + bpg
  BY <1>2
<1>4. AddMod(bp % m, gamma, m) = bpg % m
  <2>1. AddMod(bp % m, gamma % m, m) = (bp + gamma) % m
    BY <1>1, <1>2, SumOfResidues
  <2> QED BY <1>2, <1>3, <2>1
<1>5. AddMod(v, bpg % m, m) = all % m
  <2>1. AddMod(v % m, bpg % m, m) = (v + bpg) % m
    BY <1>1, <1>2, SumOfResidues
  <2> QED BY <1>2, <1>3, <2>1
<1>6. Shifted(v, pos, beta, gamma) = all % m
  BY <1>1, <1>3, <1>4, <1>5 DEF Shifted, HAdd, HMul, MulMod
<1>7. all % m \in 0..(m - 1)
  BY <1>1, DivMod
<1>8. v + beta * pos + gamma = all
  BY <1>2, <1>3
<1> QED BY <1>1, <1>6, <1>7, <1>8

(* With a beta of zero they do not depend on the position.                   *)
LEMMA ShiftedByZero ==
  ASSUME NEW v \in 0..(FR_MODULUS - 1), NEW gamma \in 0..(FR_MODULUS - 1),
         NEW beta, beta = 0, NEW pos \in Nat, NEW to \in Nat
  PROVE  Shifted(v, to, beta, gamma) = Shifted(v, pos, beta, gamma)
<1>1. beta \in 0..(FR_MODULUS - 1) /\ beta * to = 0 /\ beta * pos = 0
  BY FoldsAre
<1>2. Shifted(v, to, beta, gamma) = (v + beta * to + gamma) % FR_MODULUS
  BY <1>1, ShiftedIs
<1>3. Shifted(v, pos, beta, gamma) = (v + beta * pos + gamma) % FR_MODULUS
  BY <1>1, ShiftedIs
<1> QED BY <1>1, <1>2, <1>3

(* The cells in columns are elements of the field.                          *)
LEMMA FlattenedAre ==
  ASSUME NEW key \in KeysGiven, Validate(key),
         NEW cells \in [0..(ROWS - 1) -> [0..(COLS - 1) -> CellValues]],
         NEW pos \in 0..(Cells(key) - 1)
  PROVE  Flatten(key, cells)[pos] \in 0..(FR_MODULUS - 1)
<1>1. ROWS \in Nat /\ ROWS > 0 /\ COLS \in Nat /\ Cells(key) = ROWS * COLS
  BY ValidKey
<1>2. PICK area \in Nat : area = ROWS * COLS
  BY <1>1
<1>3. pos \in Int /\ pos >= 0 /\ pos < area
  BY <1>1, <1>2
<1>4. PICK q \in Int, rest \in 0..(ROWS - 1) : q = pos \div ROWS /\ rest = pos % ROWS /\ pos = ROWS * q + rest
  BY <1>1, <1>3, DivMod
<1>5. q \in 0..(COLS - 1)
  <2>0. PICK rq \in Int : rq = ROWS * q
    BY <1>1, <1>4
  <2>1. pos = rq + rest /\ rest \in 0..(ROWS - 1) /\ q \in Int
    BY <1>1, <1>4, <2>0
  <2>2. q <= -1 => rq <= -ROWS
    <3>1. q <= -1 => ROWS * q <= ROWS * (-1)
      BY <1>1
    <3>2. ROWS * (-1) = -ROWS
      BY <1>1
    <3> QED BY <2>0, <3>1, <3>2
  <2>3. q >= COLS => rq >= area
    <3>1. q >= COLS => ROWS * q >= ROWS * COLS
      BY <1>1
    <3> QED BY <1>2, <2>0, <3>1
  <2>4. ~ (q <= -1)
    BY <1>1, <1>3, <2>1, <2>2
  <2>5. ~ (q >= COLS)
    BY <1>1, <1>2, <1>3, <2>1, <2>3
  <2> QED BY <1>1, <2>1, <2>4, <2>5
<1>6. Flatten(key, cells)[pos] = cells[rest][q]
  BY <1>1, <1>2, <1>3, <1>4 DEF Flatten
<1>7. cells[rest][q] \in CellValues
  BY <1>4, <1>5
<1> QED BY <1>6, <1>7, Halo2Assumption

(* The grand product: quotient after quotient, which one no denominator may *)
(* spoil and which must come to one.                                        *)
LEMMA GrandProduct ==
  ASSUME NEW key \in KeysGiven, Validate(key), NEW values, NEW beta, NEW gamma,
         NEW result, result = VerifyPermutation(key, values, beta, gamma)
  PROVE  \E z :
           /\ z[0] = 1
           /\ \A n \in 0..(Cells(key) - 1) :
                 z[n + 1] = HMul(z[n], HMul(Shifted(values[n], key.sigma[n + 1], beta, gamma),
                                            HInverse[Shifted(values[n], n, beta, gamma)]))
           /\ result = IF \E n \in 0..(Cells(key) - 1) : Shifted(values[n], n, beta, gamma) = 0
                        THEN "InvalidFieldElement"
                        ELSE IF z[Cells(key)] # 1 THEN "InvalidInput" ELSE "ok"
<1>0. Cells(key) \in Nat
  BY ValidKey DEF Cells
<1> DEFINE den(n) == Shifted(values[n], n, beta, gamma)
           num(n) == Shifted(values[n], key.sigma[n + 1], beta, gamma)
<1> DEFINE Step(f, k) == IF k = 0 THEN 1 ELSE HMul(f[k - 1], HMul(num(k - 1), HInverse[den(k - 1)]))
           P(n) == \E f : f = [k \in 0..n |-> Step(f, k)]
           Q == {n \in Nat : P(n)}
<1>1. 0 \in Q
  <2> DEFINE f == [k \in 0..0 |-> 1]
  <2>1. f = [k \in 0..0 |-> Step(f, k)]
    OBVIOUS
  <2> QED BY <2>1
<1>2. ASSUME NEW n \in Q PROVE n + 1 \in Q
  <2> HIDE DEF Step
  <2>1. PICK f : f = [k \in 0..n |-> Step(f, k)]
    OBVIOUS
  <2> DEFINE f1 == [k \in 0..(n + 1) |-> Step(f, k)]
  <2>2. \A k \in 0..n : f1[k] = f[k]
    BY <2>1
  <2>3. ASSUME NEW k \in 0..(n + 1) PROVE Step(f, k) = Step(f1, k)
    <3>1. k # 0 => k - 1 \in 0..n
      OBVIOUS
    <3> HIDE DEF f1
    <3>2. k # 0 => f1[k - 1] = f[k - 1]
      BY <2>2, <3>1
    <3> QED BY <3>2 DEF Step
  <2>4. f1 = [k \in 0..(n + 1) |-> Step(f1, k)]
    BY <2>3
  <2> HIDE DEF f1
  <2>5. n + 1 \in Nat /\ P(n + 1)
    BY <2>4
  <2> HIDE DEF P
  <2> QED BY <2>5
<1>3. P(Cells(key))
  <2>1. Q \in SUBSET Nat
    OBVIOUS
  <2>2. Q = Nat
    <3> HIDE DEF Q
    <3> QED BY <1>1, <1>2, <2>1, Inductive
  <2> HIDE DEF P
  <2> QED BY <1>0, <2>2
<1> DEFINE z == CHOOSE f : f = [k \in 0..Cells(key) |-> Step(f, k)]
           hit == \E n \in 0..(Cells(key) - 1) : den(n) = 0
<1>4. z = [k \in 0..Cells(key) |-> Step(z, k)]
  BY <1>3
<1>5. EvaluatePermutation(key, values, beta, gamma)
        = IF hit THEN [status |-> "InvalidFieldElement", z |-> 0]
          ELSE [status |-> "ok", z |-> z[Cells(key)]]
  BY DEF EvaluatePermutation
<1> HIDE DEF z, P, Q
<1>6. result = IF hit THEN "InvalidFieldElement" ELSE IF z[Cells(key)] # 1 THEN "InvalidInput" ELSE "ok"
  <2> HIDE DEF hit
  <2> QED BY <1>5 DEF VerifyPermutation
<1>7. z[0] = 1
  BY <1>0, <1>4
<1>8. ASSUME NEW n \in 0..(Cells(key) - 1)
      PROVE  z[n + 1] = HMul(z[n], HMul(num(n), HInverse[den(n)]))
  <2>1. n + 1 \in 0..Cells(key) /\ n + 1 # 0 /\ (n + 1) - 1 = n
    BY <1>0
  <2> HIDE DEF num, den
  <2> QED BY <1>4, <2>1
<1> HIDE DEF Step
<1> QED BY <1>6, <1>7, <1>8

(* The verdict of the permutation: a zero denominator is refused, and a     *)
(* beta of zero makes every quotient one.                                   *)
LEMMA PermutationFollows ==
  ASSUME NEW key \in KeysGiven, Validate(key),
         NEW cells \in [0..(ROWS - 1) -> [0..(COLS - 1) -> CellValues]],
         NEW beta \in Challenges, NEW gamma \in Challenges,
         NEW values, values = Flatten(key, cells),
         NEW result, result = VerifyPermutation(key, values, beta, gamma)
  PROVE  /\ result # "panic"
         /\ result = "InvalidFieldElement"
              <=> \E n \in 0..(Cells(key) - 1) : (values[n] + beta * n + gamma) % FR_MODULUS = 0
         /\ beta = 0 => result # "InvalidInput"
<1> DEFINE den(n) == Shifted(values[n], n, beta, gamma)
           num(n) == Shifted(values[n], key.sigma[n + 1], beta, gamma)
           hit == \E n \in 0..(Cells(key) - 1) : den(n) = 0
<1>0. Cells(key) \in Nat /\ key.sigma \in Seq(Nat) /\ Cells(key) = Len(key.sigma)
  BY ValidKey DEF Cells
<1>4. PICK z :
        /\ z[0] = 1
        /\ \A n \in 0..(Cells(key) - 1) : z[n + 1] = HMul(z[n], HMul(num(n), HInverse[den(n)]))
        /\ result = IF hit THEN "InvalidFieldElement"
                     ELSE IF z[Cells(key)] # 1 THEN "InvalidInput" ELSE "ok"
  BY GrandProduct
<1>6. result = IF hit THEN "InvalidFieldElement" ELSE IF z[Cells(key)] # 1 THEN "InvalidInput" ELSE "ok"
  BY <1>4
<1>7. beta \in 0..(FR_MODULUS - 1) /\ gamma \in 0..(FR_MODULUS - 1)
  BY Halo2Assumption
<1>8. ASSUME NEW n \in 0..(Cells(key) - 1)
      PROVE  /\ values[n] \in 0..(FR_MODULUS - 1) /\ n \in Nat /\ key.sigma[n + 1] \in Nat
             /\ den(n) = (values[n] + beta * n + gamma) % FR_MODULUS
             /\ den(n) \in 0..(FR_MODULUS - 1)
  <2>1. values[n] \in 0..(FR_MODULUS - 1)
    BY FlattenedAre
  <2>2. n \in Nat /\ n + 1 \in 1..Len(key.sigma)
    BY <1>0
  <2>3. key.sigma[n + 1] \in Nat
    BY <1>0, <2>2
  <2> QED BY <1>7, <2>1, <2>2, <2>3, ShiftedIs
<1> HIDE DEF den, num
<1>9. ASSUME beta = 0, ~ hit PROVE z[Cells(key)] = 1
  <2>1. ASSUME NEW n \in 0..(Cells(key) - 1) PROVE HMul(num(n), HInverse[den(n)]) = 1
    <3>1. PICK m \in Moduli : m = FR_MODULUS /\ m \in Nat /\ m > 2 /\ 2 * m < Word /\ Word \in Nat
      BY FoldsAre
    <3>2. num(n) = den(n)
      <4>1. Shifted(values[n], key.sigma[n + 1], beta, gamma) = Shifted(values[n], n, beta, gamma)
        BY <1>7, <1>8, <1>9, ShiftedByZero
      <4> QED BY <4>1 DEF num, den
    <3>3. PICK d \in 1..(m - 1) : d = den(n)
      BY <1>8, <1>9, <3>1
    <3>4. d \in U256 /\ d \in Nat /\ d \in 0..(m - 1)
      BY <3>1 DEF U256
    <3>5. HInverse[d] = Invert(d, m)
      BY <3>1, <3>4 DEF HInverse
    <3>6. d % m = d
      BY <3>1, <3>4, ResidueIsIdempotent
    <3>7. (d * Invert(d, m)) % m = 1
      BY <3>1, <3>3, <3>4, <3>6, InverseIsExact
    <3> QED BY <3>1, <3>2, <3>3, <3>5, <3>7 DEF HMul, MulMod
  <2> DEFINE O == {n \in Nat : n <= Cells(key) => z[n] = 1}
  <2>2. 0 \in O
    BY <1>0, <1>4
  <2>3. ASSUME NEW n \in O PROVE n + 1 \in O
    <3>1. CASE n + 1 <= Cells(key)
      <4>1. n + 1 \in 0..Cells(key) /\ n + 1 # 0 /\ (n + 1) - 1 = n /\ n \in 0..(Cells(key) - 1)
        BY <1>0, <3>1
      <4>2. z[n] = 1
        BY <1>0, <3>1
      <4>3. z[n + 1] = HMul(z[n], HMul(num(n), HInverse[den(n)]))
        BY <1>4, <4>1
      <4>4. z[n + 1] = HMul(1, 1)
        BY <2>1, <4>1, <4>2, <4>3
      <4>5. 1 % FR_MODULUS = 1
        BY FoldsAre, ResidueIsIdempotent
      <4> QED BY <4>4, <4>5 DEF HMul, MulMod
    <3> QED BY <3>1
  <2>4. O = Nat
    <3>1. O \in SUBSET Nat
      OBVIOUS
    <3> HIDE DEF O
    <3> QED BY <2>2, <2>3, <3>1, Inductive
  <2> QED BY <1>0, <2>4
<1>10. hit <=> \E n \in 0..(Cells(key) - 1) : (values[n] + beta * n + gamma) % FR_MODULUS = 0
  BY <1>8
<1> HIDE DEF hit
<1> QED BY <1>6, <1>9, <1>10

(* The verdict on any cells.                                                *)
LEMMA CellsFollow ==
  ASSUME NEW key \in KeysGiven, Validate(key),
         NEW cells \in [0..(ROWS - 1) -> [0..(COLS - 1) -> CellValues]],
         NEW beta \in Challenges, NEW gamma \in Challenges,
         NEW values, values = Flatten(key, cells),
         NEW result, result = VerifyCells(key, cells, beta, gamma)
  PROVE  /\ result # "panic"
         /\ ~ GatesHold(key, cells) => result = "InvalidInput"
         /\ GatesHold(key, cells) =>
               (result = "InvalidFieldElement"
                  <=> \E n \in 0..(Cells(key) - 1) : (values[n] + beta * n + gamma) % FR_MODULUS = 0)
<1>1. EvaluateGates(key, cells) = IF GatesHold(key, cells) THEN "ok" ELSE "InvalidInput"
  BY GatesDecide
<1>2. ~ (Cells(key) < ROWS * COLS)
  <2>1. PICK area \in Nat : area = ROWS * COLS /\ Cells(key) = area
    BY ValidKey
  <2> QED BY <2>1
<1>3. CASE ~ GatesHold(key, cells)
  BY <1>1, <1>3 DEF VerifyCells
<1>4. CASE GatesHold(key, cells)
  <2>1. result = VerifyPermutation(key, values, beta, gamma)
    BY <1>1, <1>2, <1>4 DEF VerifyCells
  <2>2. /\ result # "panic"
        /\ result = "InvalidFieldElement"
              <=> \E n \in 0..(Cells(key) - 1) : (values[n] + beta * n + gamma) % FR_MODULUS = 0
        /\ beta = 0 => result # "InvalidInput"
    BY <2>1, PermutationFollows
  <2> QED BY <1>4, <2>2
<1> QED BY <1>3, <1>4

(* A key that was accepted, and the verdicts on the cells.                  *)
VerifierInv ==
    /\ vk = NoKey => verified = NotVerified
    /\ valid => vk \in KeysGiven /\ Validate(vk)
    /\ verified # NotVerified =>
         \E cells \in [0..(ROWS - 1) -> [0..(COLS - 1) -> CellValues]] :
            verified = [cells |-> cells,
                        verdict |-> [c \in Challenges \X Challenges |->
                                       VerifyCells(vk, cells, c[1], c[2])]]

(* It holds of every state that is reached.                                 *)
LEMMA VerifierInvariant == Halo2Spec => []VerifierInv
<1>1. Halo2Init => VerifierInv
  BY DEF Halo2Init, VerifierInv
<1>2. ASSUME VerifierInv, [Halo2Next]_halo2Vars PROVE VerifierInv'
  <2>1. CASE TakeKey
    BY <1>2, <2>1 DEF TakeKey, VerifierInv
  <2>2. CASE Verify
    BY <1>2, <2>2 DEF Verify, VerifierInv
  <2>3. CASE FoldIn
    BY <1>2, <2>3 DEF FoldIn, VerifierInv
  <2>4. CASE DropAll
    BY <2>4 DEF DropAll, VerifierInv
  <2>5. CASE UNCHANGED halo2Vars
    BY <1>2, <2>5 DEF halo2Vars, VerifierInv
  <2> QED BY <1>2, <2>1, <2>2, <2>3, <2>4, <2>5 DEF Halo2Next
<1> QED BY <1>1, <1>2, PTL DEF Halo2Spec

(* With a key that validate accepts verification never panics, a gate that  *)
(* does not vanish is the verdict, and only challenges that make a          *)
(* denominator zero are refused, for every shape of circuit.                *)
THEOREM VerdictsAlwaysFollow == Halo2Spec => []VerdictsFollow
<1>1. VerifierInv => VerdictsFollow
  <2> SUFFICES ASSUME VerifierInv, valid, verified # NotVerified,
                      NEW c \in DOMAIN verified.verdict
               PROVE  /\ verified.verdict[c] # "panic"
                      /\ ~ GatesHold(vk, verified.cells) => verified.verdict[c] = "InvalidInput"
                      /\ GatesHold(vk, verified.cells) =>
                           (verified.verdict[c] = "InvalidFieldElement"
                              <=> \E n \in 0..(Cells(vk) - 1) :
                                     (Flatten(vk, verified.cells)[n] + c[1] * n + c[2]) % FR_MODULUS = 0)
    BY DEF VerdictsFollow
  <2>1. PICK cells \in [0..(ROWS - 1) -> [0..(COLS - 1) -> CellValues]] :
           verified = [cells |-> cells,
                       verdict |-> [d \in Challenges \X Challenges |->
                                       VerifyCells(vk, cells, d[1], d[2])]]
    BY DEF VerifierInv
  <2>2. /\ verified.cells = cells /\ c \in Challenges \X Challenges
        /\ verified.verdict[c] = VerifyCells(vk, cells, c[1], c[2])
    BY <2>1
  <2>3. c[1] \in Challenges /\ c[2] \in Challenges /\ vk \in KeysGiven /\ Validate(vk)
    BY <2>2 DEF VerifierInv
  <2> QED BY <2>2, <2>3, CellsFollow
<1> QED BY <1>1, VerifierInvariant, PTL

-----------------------------------------------------------------------------
(* Products over a permutation.                                             *)

(* p are the products of the first numbers of h.                            *)
Products(p, h, n) ==
    /\ n \in Nat /\ p[0] = 1
    /\ \A k \in 0..(n - 1) : h[k] \in Nat /\ p[k] \in Nat /\ p[k + 1] = p[k] * h[k]

(* Every list of numbers has them, and they are numbers.                    *)
LEMMA ProductsExist ==
  ASSUME NEW n0 \in Nat, NEW h, \A k \in 0..(n0 - 1) : h[k] \in Nat
  PROVE  \E p : Products(p, h, n0)
<1> DEFINE Step(f, k) == IF k = 0 THEN 1 ELSE f[k - 1] * h[k - 1]
           P(n) == \E f : f = [k \in 0..n |-> Step(f, k)]
           Q == {n \in Nat : P(n)}
<1>1. 0 \in Q
  <2> DEFINE f == [k \in 0..0 |-> 1]
  <2>1. f = [k \in 0..0 |-> Step(f, k)]
    OBVIOUS
  <2> QED BY <2>1
<1>2. ASSUME NEW n \in Q PROVE n + 1 \in Q
  <2> HIDE DEF Step
  <2>1. PICK f : f = [k \in 0..n |-> Step(f, k)]
    OBVIOUS
  <2> DEFINE f1 == [k \in 0..(n + 1) |-> Step(f, k)]
  <2>2. \A k \in 0..n : f1[k] = f[k]
    BY <2>1
  <2>3. ASSUME NEW k \in 0..(n + 1) PROVE Step(f, k) = Step(f1, k)
    <3>1. k # 0 => k - 1 \in 0..n
      OBVIOUS
    <3> HIDE DEF f1
    <3>2. k # 0 => f1[k - 1] = f[k - 1]
      BY <2>2, <3>1
    <3> QED BY <3>2 DEF Step
  <2>4. f1 = [k \in 0..(n + 1) |-> Step(f1, k)]
    BY <2>3
  <2> HIDE DEF f1
  <2>5. n + 1 \in Nat /\ P(n + 1)
    BY <2>4
  <2> HIDE DEF P
  <2> QED BY <2>5
<1>3. P(n0)
  <2>1. Q \in SUBSET Nat
    OBVIOUS
  <2>2. Q = Nat
    <3> HIDE DEF Q
    <3> QED BY <1>1, <1>2, <2>1, Inductive
  <2> HIDE DEF P
  <2> QED BY <2>2
<1>4. PICK p : p = [k \in 0..n0 |-> Step(p, k)]
  BY <1>3
<1> HIDE DEF P, Q
<1>5. p[0] = 1 /\ \A k \in 1..n0 : p[k] = p[k - 1] * h[k - 1]
  BY <1>4
<1> DEFINE O == {n \in Nat : n <= n0 => p[n] \in Nat}
<1>6. ASSUME NEW n \in O PROVE n + 1 \in O
  <2>1. CASE n + 1 <= n0
    <3>1. n + 1 \in 1..n0 /\ (n + 1) - 1 = n /\ n \in 0..(n0 - 1)
      BY <2>1
    <3>2. p[n + 1] = p[n] * h[n] /\ p[n] \in Nat /\ h[n] \in Nat
      BY <1>5, <3>1
    <3> QED BY <3>2
  <2> QED BY <2>1
<1>7. O = Nat
  <2>1. O \in SUBSET Nat /\ 0 \in O
    BY <1>5
  <2> HIDE DEF O
  <2> QED BY <1>6, <2>1, Inductive
<1>8. ASSUME NEW k \in 0..(n0 - 1) PROVE h[k] \in Nat /\ p[k] \in Nat /\ p[k + 1] = p[k] * h[k]
  <2>1. k \in Nat /\ k <= n0 /\ k + 1 \in 1..n0 /\ (k + 1) - 1 = k
    OBVIOUS
  <2> QED BY <1>5, <1>7, <2>1
<1>9. Products(p, h, n0)
  BY <1>5, <1>8 DEF Products
<1> QED BY <1>9

(* Products are numbers, and those of fewer numbers are, too.               *)
LEMMA ProductsAre ==
  ASSUME NEW n, NEW h, NEW p, Products(p, h, n), NEW e \in 0..n
  PROVE  p[e] \in Nat /\ Products(p, h, e)
<1>1. n \in Nat /\ e \in Nat /\ p[0] = 1
  BY DEF Products
<1>2. Products(p, h, e)
  BY <1>1 DEF Products
<1>3. CASE e = 0
  BY <1>1, <1>2, <1>3
<1>4. CASE e # 0
  <2>1. PICK d \in 0..(n - 1) : e = d + 1
    <3>1. e - 1 \in 0..(n - 1) /\ e = (e - 1) + 1
      BY <1>1, <1>4
    <3> QED BY <3>1
  <2>2. h[d] \in Nat /\ p[d] \in Nat /\ p[d + 1] = p[d] * h[d]
    BY <2>1 DEF Products
  <2> QED BY <1>2, <2>1, <2>2
<1> QED BY <1>3, <1>4

(* Exchanging one factor.                                                   *)
LEMMA OneFactor ==
  ASSUME NEW n, NEW h, NEW h1, NEW p, NEW p1, Products(p, h, n), Products(p1, h1, n),
         NEW j \in 0..(n - 1), \A k \in 0..(n - 1) : k # j => h[k] = h1[k]
  PROVE  p[n] * h1[j] = p1[n] * h[j]
<1>1. n \in Nat /\ j \in Nat /\ j < n /\ h[j] \in Nat /\ h1[j] \in Nat
  BY DEF Products
<1> DEFINE Q == {e \in Nat : e <= n => IF e <= j THEN p[e] = p1[e] ELSE p[e] * h1[j] = p1[e] * h[j]}
<1>2. 0 \in Q
  BY <1>1 DEF Products
<1>3. ASSUME NEW e \in Q PROVE e + 1 \in Q
  <2>1. CASE e + 1 <= n
    <3>1. e \in 0..(n - 1) /\ e <= n
      BY <1>1, <2>1
    <3>2. /\ p[e] \in Nat /\ p[e + 1] = p[e] * h[e] /\ h[e] \in Nat
          /\ p1[e] \in Nat /\ p1[e + 1] = p1[e] * h1[e] /\ h1[e] \in Nat
      BY <3>1 DEF Products
    <3>3. CASE e < j
      <4>1. h[e] = h1[e] /\ p[e] = p1[e]
        BY <1>1, <3>1, <3>3
      <4>2. p[e + 1] = p1[e + 1] /\ e + 1 <= j
        BY <1>1, <3>2, <3>3, <4>1
      <4> QED BY <4>2
    <3>4. CASE e = j
      <4>1. PICK v \in Nat, a \in Nat, b \in Nat : v = p[e] /\ a = h[e] /\ b = h1[e] /\ p1[e] = v
        BY <1>1, <3>1, <3>2, <3>4
      <4>2. (v * a) * b = (v * b) * a
        OBVIOUS
      <4>3. p[e + 1] * h1[j] = p1[e + 1] * h[j]
        BY <3>2, <3>4, <4>1, <4>2
      <4> QED BY <1>1, <3>4, <4>3
    <3>5. CASE e > j
      <4>0. e # j /\ h[e] = h1[e]
        BY <1>1, <3>1, <3>5
      <4>1. PICK v \in Nat, v1 \in Nat, a \in Nat, hj \in Nat, h1j \in Nat :
               v = p[e] /\ v1 = p1[e] /\ a = h[e] /\ a = h1[e] /\ hj = h[j] /\ h1j = h1[j]
        <5> DEFINE v == p[e]  v1 == p1[e]  a == h[e]  hj == h[j]  h1j == h1[j]
        <5>1. v \in Nat /\ v1 \in Nat /\ a \in Nat /\ hj \in Nat /\ h1j \in Nat /\ h1[e] = a
          BY <1>1, <3>2, <4>0
        <5> QED BY <5>1
      <4>2. v * h1j = v1 * hj
        BY <1>1, <3>1, <3>5, <4>1
      <4>3. (v * a) * h1j = (v * h1j) * a /\ (v1 * a) * hj = (v1 * hj) * a
        OBVIOUS
      <4>4. p[e + 1] = v * a /\ p1[e + 1] = v1 * a
        BY <3>2, <4>1
      <4>5. p[e + 1] * h1[j] = p1[e + 1] * h[j]
        BY <4>1, <4>2, <4>3, <4>4
      <4> QED BY <1>1, <3>5, <4>5
    <3> QED BY <1>1, <3>3, <3>4, <3>5
  <2> QED BY <2>1
<1>4. Q = Nat
  <2>1. Q \in SUBSET Nat
    OBVIOUS
  <2> HIDE DEF Q
  <2> QED BY <1>2, <1>3, <2>1, Inductive
<1>5. n \in Q /\ ~ (n <= j)
  BY <1>1, <1>4
<1> QED BY <1>5

(* A permutation of 0..n-1.                                                 *)
Permutes(s, n) ==
    /\ \A k \in 0..(n - 1) : s[k] \in 0..(n - 1)
    /\ \A k, l \in 0..(n - 1) : s[k] = s[l] => k = l
    /\ \A v \in 0..(n - 1) : \E k \in 0..(n - 1) : s[k] = v

(* Permuting the factors leaves a product.                                  *)
LEMMA PermutedProduct ==
  ASSUME NEW d, NEW q, NEW n0, Products(q, d, n0)
  PROVE  \A s, h, p : Permutes(s, n0) /\ Products(p, h, n0) /\ (\A k \in 0..(n0 - 1) : h[k] = d[s[k]])
                        => p[n0] = q[n0]
<1> DEFINE P(n) == \A s, h, p :
               Permutes(s, n) /\ Products(p, h, n) /\ (\A k \in 0..(n - 1) : h[k] = d[s[k]]) => p[n] = q[n]
           Q == {n \in Nat : n <= n0 => P(n)}
<1>1. 0 \in Q
  BY DEF Products
<1>2. ASSUME NEW n \in Q PROVE n + 1 \in Q
  <2>0. n \in Nat /\ n0 \in Nat
    BY DEF Products
  <2>1. ASSUME n + 1 <= n0, NEW s, NEW h, NEW p, Permutes(s, n + 1), Products(p, h, n + 1),
               \A k \in 0..((n + 1) - 1) : h[k] = d[s[k]]
        PROVE  p[n + 1] = q[n + 1]
    <3>0. (n + 1) - 1 = n /\ n <= n0 /\ n \in 0..n /\ n + 1 \in 0..n0 /\ n \in 0..(n0 - 1)
          /\ n \in 0..(n + 1) /\ n \in 0..n0 /\ n + 1 \in Nat
      BY <2>0, <2>1
    <3>1. /\ \A k \in 0..n : s[k] \in 0..n /\ h[k] = d[s[k]]
          /\ \A k, l \in 0..n : s[k] = s[l] => k = l
          /\ \A v \in 0..n : \E k \in 0..n : s[k] = v
      BY <2>1, <3>0 DEF Permutes
    <3>2. P(n)
      BY <3>0
    <3>3. PICK j \in 0..n : s[j] = n
      BY <3>0, <3>1
    <3>4. /\ Products(p, h, n) /\ p[n] \in Nat /\ h[n] \in Nat /\ p[n + 1] = p[n] * h[n]
          /\ q[n] \in Nat /\ d[n] \in Nat /\ q[n + 1] = q[n] * d[n]
      <4>1. Products(p, h, n) /\ p[n] \in Nat
        BY <2>1, <3>0, ProductsAre
      <4>2. h[n] \in Nat /\ p[n + 1] = p[n] * h[n]
        BY <2>1, <3>0 DEF Products
      <4>3. q[n] \in Nat /\ d[n] \in Nat /\ q[n + 1] = q[n] * d[n]
        BY <3>0 DEF Products
      <4> QED BY <4>1, <4>2, <4>3
    <3>5. CASE j = n
      <4>1. Permutes(s, n)
        <5>1. ASSUME NEW k \in 0..(n - 1) PROVE s[k] \in 0..(n - 1) /\ k \in 0..n
          <6>1. k \in 0..n /\ k # j /\ n \in 0..n
            BY <2>0, <3>5
          <6>2. s[k] # n
            BY <3>1, <3>3, <6>1
          <6> QED BY <2>0, <3>1, <6>1, <6>2
        <5>2. ASSUME NEW v \in 0..(n - 1) PROVE \E k \in 0..(n - 1) : s[k] = v
          <6>1. v \in 0..n /\ v # n
            BY <2>0
          <6>2. PICK k \in 0..n : s[k] = v
            BY <3>1, <6>1
          <6>3. k # n
            BY <3>3, <3>5, <6>1, <6>2
          <6> QED BY <2>0, <6>2, <6>3
        <5> QED BY <3>1, <5>1, <5>2 DEF Permutes
      <4>2. \A k \in 0..(n - 1) : h[k] = d[s[k]]
        BY <2>0, <3>1
      <4>3. p[n] = q[n]
        BY <3>2, <3>4, <4>1, <4>2
      <4>4. h[n] = d[n]
        BY <3>0, <3>1, <3>3, <3>5
      <4> QED BY <3>4, <4>3, <4>4
    <3>6. CASE j # n
      <4>0. j \in 0..(n - 1)
        BY <2>0, <3>6
      <4> DEFINE s1 == [k \in 0..(n - 1) |-> IF k = j THEN s[n] ELSE s[k]]
                 h1 == [k \in 0..(n - 1) |-> d[s1[k]]]
      <4>1. s[n] \in 0..(n - 1)
        <5>1. s[n] # n
          BY <3>0, <3>1, <3>3, <3>6
        <5> QED BY <2>0, <3>0, <3>1, <5>1
      <4>2. ASSUME NEW k \in 0..(n - 1), k # j PROVE s[k] \in 0..(n - 1) /\ k \in 0..n /\ s[k] # s[n]
        <5>1. k \in 0..n /\ k # n
          BY <2>0
        <5>2. s[k] # n /\ s[k] # s[n]
          BY <3>0, <3>1, <3>3, <4>2, <5>1
        <5> QED BY <2>0, <3>1, <5>1, <5>2
      <4>3. \A k \in 0..(n - 1) : s1[k] = IF k = j THEN s[n] ELSE s[k]
        OBVIOUS
      <4>4. \A k \in 0..(n - 1) : h1[k] = d[s1[k]]
        OBVIOUS
      <4> HIDE DEF s1, h1
      <4>5. Permutes(s1, n)
        <5>1. \A k \in 0..(n - 1) : s1[k] \in 0..(n - 1)
          BY <4>1, <4>2, <4>3
        <5>2. ASSUME NEW k \in 0..(n - 1), NEW l \in 0..(n - 1), s1[k] = s1[l] PROVE k = l
          <6>1. CASE k = j \/ l = j
            BY <4>2, <4>3, <5>2, <6>1
          <6>2. CASE k # j /\ l # j
            BY <3>1, <4>2, <4>3, <5>2, <6>2
          <6> QED BY <6>1, <6>2
        <5>3. ASSUME NEW v \in 0..(n - 1) PROVE \E k \in 0..(n - 1) : s1[k] = v
          <6>1. v \in 0..n /\ v # n
            BY <2>0
          <6>2. PICK k \in 0..n : s[k] = v
            BY <3>1, <6>1
          <6>3. CASE k = n
            <7>1. s1[j] = v
              BY <4>0, <4>3, <6>2, <6>3
            <7> QED BY <4>0, <7>1
          <6>4. CASE k # n
            <7>1. k \in 0..(n - 1) /\ k # j
              BY <2>0, <3>3, <6>1, <6>2, <6>4
            <7> QED BY <4>3, <6>2, <7>1
          <6> QED BY <6>3, <6>4
        <5> QED BY <5>1, <5>2, <5>3 DEF Permutes
      <4>6. \A k \in 0..(n - 1) : d[k] \in Nat
        BY <2>0, <3>0 DEF Products
      <4>7. PICK p1 : Products(p1, h1, n)
        <5>1. \A k \in 0..(n - 1) : h1[k] \in Nat
          BY <4>4, <4>5, <4>6 DEF Permutes
        <5> QED BY <2>0, <5>1, ProductsExist
      <4>8. p1[n] = q[n]
        BY <3>2, <4>4, <4>5, <4>7
      <4>9. h1[j] = h[n] /\ h[j] = d[n] /\ \A k \in 0..(n - 1) : k # j => h[k] = h1[k]
        BY <2>0, <3>0, <3>1, <3>3, <4>0, <4>2, <4>3, <4>4
      <4>10. p[n] * h1[j] = p1[n] * h[j]
        BY <3>4, <4>0, <4>7, <4>9, OneFactor
      <4> QED BY <3>4, <4>8, <4>9, <4>10
    <3> QED BY <3>5, <3>6
  <2>2. n + 1 <= n0 => P(n + 1)
    BY <2>1
  <2> HIDE DEF P
  <2> QED BY <2>0, <2>2
<1>3. Q = Nat
  <2>1. Q \in SUBSET Nat
    OBVIOUS
  <2> HIDE DEF Q
  <2> QED BY <1>1, <1>2, <2>1, Inductive
<1>4. n0 \in Nat /\ P(n0)
  <2>1. n0 \in Nat
    BY DEF Products
  <2> HIDE DEF P
  <2> QED BY <1>3, <2>1
<1> QED BY <1>4

(* A surjection of 0..n-1 on itself is a permutation.                       *)
LEMMA SurjectionPermutes ==
  ASSUME NEW n \in Nat, NEW s \in [0..(n - 1) -> 0..(n - 1)],
         \A v \in 0..(n - 1) : \E k \in 0..(n - 1) : s[k] = v
  PROVE  Permutes(s, n)
<1> DEFINE S == 0..(n - 1)
<1>1. IsFiniteSet(S)
  <2>1. n - 1 \in Int /\ 0 \in Int
    OBVIOUS
  <2> QED BY <2>1, FS_Interval
<1>2. s \in Surjection(S, S)
  BY DEF Surjection
<1>3. s \in Injection(S, S)
  <2> HIDE DEF S
  <2> QED BY <1>1, <1>2, FS_SurjSameCardinalityImpliesInj
<1>4. \A k, l \in S : s[k] = s[l] => k = l
  <2>1. DOMAIN s = S /\ IsInjective(s)
    BY <1>3 DEF Injection
  <2> HIDE DEF S
  <2> QED BY <2>1 DEF IsInjective
<1> QED BY <1>4 DEF Permutes

(* One more quotient: the products of numerators, denominators and inverses *)
(* grow together.                                                           *)
LEMMA QuotientStep ==
  ASSUME NEW m \in Nat, m > 2,
         NEW zn \in Nat, NEW pn \in Nat, NEW qn \in Nat, NEW on \in Nat, NEW hn \in Nat,
         NEW dn \in Nat, NEW rn \in Nat,
         Same(zn, pn * on, m), Same(qn * on, 1, m), (dn * rn) % m = 1,
         NEW out, out = (zn * ((hn * rn) % m)) % m
  PROVE  /\ out \in 0..(m - 1) /\ Same(out, (pn * hn) * (on * rn), m)
         /\ Same((qn * dn) * (on * rn), 1, m)
<1>1. PICK po \in Nat, qo \in Nat, hr \in Nat, dr \in Nat :
        po = pn * on /\ qo = qn * on /\ hr = hn * rn /\ dr = dn * rn
  OBVIOUS
<1>2. PICK hm \in Nat : hm = hr % m
  <2>1. hr % m \in 0..(m - 1)
    BY DivMod
  <2> QED BY <2>1
<1>3. PICK zh \in Nat : zh = zn * hm
  OBVIOUS
<1>4. out = zh % m
  BY <1>1, <1>2, <1>3
<1>5. out \in 0..(m - 1)
  BY <1>4, DivMod
<1>6. Same(out, zh, m)
  <2>1. out \in Int /\ zh \in Int /\ m > 0 /\ out % m = zh % m
    BY <1>4, <1>5, ResidueIsIdempotent
  <2> QED BY <2>1, SameIsResidue
<1>7. Same(hm, hr, m)
  <2>1. hm \in Int /\ hr \in Int /\ m > 0 /\ hm % m = hr % m
    BY <1>2, ResidueIsIdempotent
  <2> QED BY <2>1, SameIsResidue
<1>8. Same(zh, po * hr, m)
  <2>1. Same(zn * hm, po * hr, m)
    BY <1>1, <1>7, SameProduct
  <2> QED BY <1>3, <2>1
<1>9. (pn * hn) * (on * rn) = po * hr /\ (qn * dn) * (on * rn) = qo * dr
  <2>1. (pn * hn) * (on * rn) = (pn * on) * (hn * rn) /\ (qn * dn) * (on * rn) = (qn * on) * (dn * rn)
    OBVIOUS
  <2> QED BY <1>1, <2>1
<1>10. Same(out, po * hr, m)
  <2>1. PICK t2 \in Int : t2 = po * hr
    OBVIOUS
  <2>2. out \in Int
    BY <1>5
  <2> QED BY <1>6, <1>8, <2>1, <2>2, SameIsEquivalence
<1>11. Same(dr, 1, m)
  <2>1. 1 \in 0..(m - 1) /\ 1 \in Int /\ dr \in Int /\ m > 0
    OBVIOUS
  <2>2. dr % m = 1 % m
    BY <1>1, <2>1, ResidueIsIdempotent
  <2> QED BY <2>1, <2>2, SameIsResidue
<1>12. Same(qo * dr, 1, m)
  <2>1. Same(qo, 1, m) /\ 1 \in Int /\ 1 * 1 = 1
    BY <1>1
  <2>2. Same(qo * dr, 1 * 1, m)
    BY <1>11, <2>1, SameProduct
  <2> QED BY <2>1, <2>2
<1> QED BY <1>5, <1>9, <1>10, <1>12

(* The quotients of numbers by what a permutation makes of them multiply to *)
(* one.                                                                     *)
LEMMA QuotientsCancel ==
  ASSUME NEW n0 \in Nat, NEW d, \A k \in 0..(n0 - 1) : d[k] \in 1..(FR_MODULUS - 1),
         NEW s, Permutes(s, n0), NEW z, z[0] = 1,
         \A k \in 0..(n0 - 1) : z[k + 1] = HMul(z[k], HMul(d[s[k]], HInverse[d[k]]))
  PROVE  z[n0] = 1
<1>1. PICK m \in Moduli : m = FR_MODULUS /\ m \in Nat /\ m > 2 /\ 2 * m < Word /\ Word \in Nat
  BY FoldsAre
<1> DEFINE h == [k \in 0..(n0 - 1) |-> d[s[k]]]
           r == [k \in 0..(n0 - 1) |-> HInverse[d[k]]]
<1>2. \A k \in 0..(n0 - 1) : h[k] = d[s[k]] /\ r[k] = HInverse[d[k]]
  OBVIOUS
<1> HIDE DEF h, r
<1>3. ASSUME NEW k \in 0..(n0 - 1)
      PROVE  d[k] \in Nat /\ h[k] \in Nat /\ r[k] \in Nat /\ (d[k] * r[k]) % m = 1
  <2>1. PICK e \in 1..(m - 1) : e = d[k]
    BY <1>1
  <2>2. h[k] \in Nat
    <3>1. s[k] \in 0..(n0 - 1)
      BY DEF Permutes
    <3>2. d[s[k]] \in 1..(FR_MODULUS - 1)
      BY <3>1
    <3> QED BY <1>1, <1>2, <3>2
  <2>3. e \in U256 /\ e \in Nat /\ e \in 0..(m - 1)
    BY <1>1 DEF U256
  <2>4. r[k] = Invert(e, m)
    BY <1>1, <1>2, <2>1, <2>3 DEF HInverse
  <2>5. e % m = e
    BY <1>1, <2>3, ResidueIsIdempotent
  <2>6. (e * Invert(e, m)) % m = 1
    BY <1>1, <2>1, <2>3, <2>5, InverseIsExact
  <2>7. Invert(e, m) \in Nat
    BY <1>1, <2>3, InverseIsExact
  <2> QED BY <2>1, <2>2, <2>3, <2>4, <2>6, <2>7
<1>4. PICK q : Products(q, d, n0)
  BY <1>3, ProductsExist
<1>5. PICK p : Products(p, h, n0)
  BY <1>3, ProductsExist
<1>6. PICK o : Products(o, r, n0)
  BY <1>3, ProductsExist
<1>7. p[n0] = q[n0]
  BY <1>2, <1>4, <1>5, PermutedProduct
<1> DEFINE A == {n \in Nat : n <= n0 => /\ z[n] \in 0..(m - 1) /\ Same(z[n], p[n] * o[n], m)
                                        /\ Same(q[n] * o[n], 1, m)}
<1>8. 0 \in A
  <2>1. Same(1, 1, m)
    BY <1>1, SameIsEquivalence
  <2>2. p[0] = 1 /\ q[0] = 1 /\ o[0] = 1
    BY <1>4, <1>5, <1>6 DEF Products
  <2> QED BY <1>1, <2>1, <2>2
<1>9. ASSUME NEW n \in A PROVE n + 1 \in A
  <2>1. CASE n + 1 <= n0
    <3>1. n \in 0..(n0 - 1)
      BY <2>1
    <3>2. PICK zn \in Nat, pn \in Nat, qn \in Nat, on \in Nat, hn \in Nat, dn \in Nat, rn \in Nat :
             /\ zn = z[n] /\ pn = p[n] /\ qn = q[n] /\ on = o[n]
             /\ hn = h[n] /\ dn = d[n] /\ rn = r[n]
      <4>1. p[n] \in Nat /\ q[n] \in Nat /\ o[n] \in Nat
        BY <1>4, <1>5, <1>6, <3>1 DEF Products
      <4>2. z[n] \in Nat
        BY <1>1, <3>1
      <4>3. h[n] \in Nat /\ d[n] \in Nat /\ r[n] \in Nat
        BY <1>3, <3>1
      <4> HIDE DEF A
      <4> QED BY <4>1, <4>2, <4>3
    <3>3. Same(zn, pn * on, m) /\ Same(qn * on, 1, m) /\ (dn * rn) % m = 1
      BY <1>3, <3>1, <3>2
    <3>4. p[n + 1] = pn * hn /\ q[n + 1] = qn * dn /\ o[n + 1] = on * rn
      BY <1>4, <1>5, <1>6, <3>1, <3>2 DEF Products
    <3>5. z[n + 1] = (zn * ((hn * rn) % m)) % m
      <4>1. z[n + 1] = HMul(zn, HMul(hn, rn))
        BY <1>2, <3>1, <3>2
      <4> QED BY <1>1, <4>1 DEF HMul, MulMod
    <3> HIDE DEF A
    <3>7. z[n + 1] \in 0..(m - 1) /\ Same(z[n + 1], p[n + 1] * o[n + 1], m) /\ Same(q[n + 1] * o[n + 1], 1, m)
      <4>1. PICK out : out = (zn * ((hn * rn) % m)) % m
        OBVIOUS
      <4>3. m \in Nat /\ m > 2
        BY <1>1
      <4>2. /\ out \in 0..(m - 1) /\ Same(out, (pn * hn) * (on * rn), m)
            /\ Same((qn * dn) * (on * rn), 1, m)
        BY <3>2, <3>3, <4>1, <4>3, QuotientStep, ZenonT(30)
      <4> QED BY <3>4, <3>5, <4>1, <4>2
    <3> QED BY <3>7 DEF A
  <2> QED BY <2>1
<1>10. A = Nat
  <2>1. A \in SUBSET Nat
    OBVIOUS
  <2> HIDE DEF A
  <2> QED BY <1>8, <1>9, <2>1, Inductive
<1>11. z[n0] \in 0..(m - 1) /\ Same(z[n0], p[n0] * o[n0], m) /\ Same(q[n0] * o[n0], 1, m)
  BY <1>10
<1>12. Same(z[n0], 1, m)
  <2>1. n0 \in 0..n0
    OBVIOUS
  <2>2. q[n0] \in Nat /\ o[n0] \in Nat
    BY <1>4, <1>6, <2>1, ProductsAre
  <2>3. PICK prod \in Int, zn \in Int : prod = q[n0] * o[n0] /\ zn = z[n0]
    BY <1>1, <1>11, <2>2
  <2>4. Same(zn, prod, m) /\ Same(prod, 1, m)
    BY <1>7, <1>11, <2>3
  <2> QED BY <1>1, <2>3, <2>4, SameIsEquivalence
<1>13. z[n0] % m = 1 % m
  <2>1. m > 0 /\ m \in Nat /\ z[n0] \in Int /\ 1 \in Int
    BY <1>1, <1>11
  <2> QED BY <1>12, <2>1, SameIsResidue
<1>14. z[n0] % m = z[n0] /\ 1 % m = 1
  BY <1>1, <1>11, ResidueIsIdempotent
<1> QED BY <1>13, <1>14

(* Cells that agree along the permutation have a grand product of one.      *)
LEMMA HonestProduct ==
  ASSUME NEW key \in KeysGiven, Validate(key),
         NEW cells \in [0..(ROWS - 1) -> [0..(COLS - 1) -> CellValues]],
         NEW beta \in Challenges, NEW gamma \in Challenges,
         NEW values, values = Flatten(key, cells), CopiesAgree(key, values),
         NEW result, result = VerifyPermutation(key, values, beta, gamma)
  PROVE  result # "InvalidInput"
<1> DEFINE den(n) == Shifted(values[n], n, beta, gamma)
           num(n) == Shifted(values[n], key.sigma[n + 1], beta, gamma)
           hit == \E n \in 0..(Cells(key) - 1) : den(n) = 0
<1>1. PICK size \in Nat : size = Cells(key) /\ size = Len(key.sigma) /\ key.sigma \in Seq(Nat)
  BY ValidKey DEF Cells
<1>2. PICK z :
        /\ z[0] = 1
        /\ \A n \in 0..(Cells(key) - 1) : z[n + 1] = HMul(z[n], HMul(num(n), HInverse[den(n)]))
        /\ result = IF hit THEN "InvalidFieldElement"
                     ELSE IF z[Cells(key)] # 1 THEN "InvalidInput" ELSE "ok"
  BY GrandProduct
<1>3. beta \in 0..(FR_MODULUS - 1) /\ gamma \in 0..(FR_MODULUS - 1)
  BY Halo2Assumption
<1> DEFINE s == [n \in 0..(size - 1) |-> key.sigma[n + 1]]
           d == [n \in 0..(size - 1) |-> den(n)]
<1>4. \A n \in 0..(size - 1) : n + 1 \in DOMAIN key.sigma
  <2>1. DOMAIN key.sigma = 1..size
    BY <1>1
  <2> QED BY <2>1
<1>5. /\ {key.sigma[c] : c \in DOMAIN key.sigma} = 0..(size - 1)
      /\ \A n \in 0..(size - 1) : values[key.sigma[n + 1]] = values[n]
  BY <1>1 DEF CopiesAgree, SigmaPermutes
<1>6. \A n \in 0..(size - 1) : s[n] = key.sigma[n + 1] /\ s[n] \in 0..(size - 1)
  BY <1>4, <1>5
<1>7. \A n \in 0..(size - 1) : d[n] = den(n)
  OBVIOUS
<1>8. s \in [0..(size - 1) -> 0..(size - 1)]
  BY <1>6
<1>9. \A v \in 0..(size - 1) : \E n \in 0..(size - 1) : s[n] = v
  <2> TAKE v \in 0..(size - 1)
  <2>1. PICK c \in DOMAIN key.sigma : key.sigma[c] = v
    BY <1>5
  <2>2. c \in 1..size
    BY <1>1, <2>1
  <2>3. c - 1 \in 0..(size - 1) /\ (c - 1) + 1 = c
    BY <2>2
  <2>4. s[c - 1] = v
    BY <1>6, <2>1, <2>3
  <2> QED BY <2>3, <2>4
<1>10. Permutes(s, size)
  <2> HIDE DEF s
  <2> QED BY <1>8, <1>9, SurjectionPermutes
<1> HIDE DEF s, d
<1>11. ASSUME NEW n \in 0..(size - 1) PROVE num(n) = d[s[n]]
  <2>1. PICK to \in 0..(size - 1) : to = s[n] /\ to = key.sigma[n + 1]
    BY <1>6
  <2>2. d[to] = Shifted(values[to], to, beta, gamma)
    BY <1>7
  <2>3. values[to] = values[n]
    BY <1>5, <2>1
  <2> QED BY <2>1, <2>2, <2>3
<1>12. ASSUME ~ hit, NEW n \in 0..(size - 1) PROVE d[n] \in 1..(FR_MODULUS - 1)
  <2>0. n \in Nat /\ n \in 0..(Cells(key) - 1)
    BY <1>1
  <2>1. values[n] \in 0..(FR_MODULUS - 1)
    BY <2>0, FlattenedAre
  <2>2. den(n) \in 0..(FR_MODULUS - 1)
    BY <1>3, <2>0, <2>1, ShiftedIs
  <2>3. den(n) # 0
    BY <1>1, <1>12
  <2> HIDE DEF den
  <2>4. PICK m \in Nat : m = FR_MODULUS
    BY FoldsAre
  <2> QED BY <1>7, <2>2, <2>3, <2>4
<1>13. ASSUME ~ hit PROVE z[size] = 1
  <2>1. \A n \in 0..(size - 1) : d[n] \in 1..(FR_MODULUS - 1)
    BY <1>12, <1>13
  <2>2. \A n \in 0..(size - 1) : z[n + 1] = HMul(z[n], HMul(d[s[n]], HInverse[d[n]]))
    <3> HIDE DEF den, num
    <3> QED BY <1>1, <1>2, <1>7, <1>11
  <2> HIDE DEF den, num, hit
  <2>3. z[0] = 1
    BY <1>2
  <2> QED BY <1>10, <2>1, <2>2, <2>3, QuotientsCancel, SMT
<1> HIDE DEF den, num, hit
<1> QED BY <1>1, <1>2, <1>13

(* Completeness: a prover whose cells satisfy the gates and agree along the *)
(* permutation is never turned away, whatever the shape of the circuit, the *)
(* key and the challenges, unless these make a denominator zero.            *)
THEOREM HonestCellsAlwaysPass == Halo2Spec => []HonestCellsPass
<1>1. VerifierInv => HonestCellsPass
  <2> SUFFICES ASSUME VerifierInv, valid, verified # NotVerified,
                      GatesHold(vk, verified.cells), CopiesAgree(vk, Flatten(vk, verified.cells)),
                      NEW c \in DOMAIN verified.verdict
               PROVE  verified.verdict[c] # "InvalidInput"
    BY DEF HonestCellsPass
  <2>1. PICK cells \in [0..(ROWS - 1) -> [0..(COLS - 1) -> CellValues]] :
           verified = [cells |-> cells,
                       verdict |-> [d \in Challenges \X Challenges |->
                                       VerifyCells(vk, cells, d[1], d[2])]]
    BY DEF VerifierInv
  <2>2. /\ verified.cells = cells /\ c \in Challenges \X Challenges
        /\ verified.verdict[c] = VerifyCells(vk, cells, c[1], c[2])
    BY <2>1
  <2>3. c[1] \in Challenges /\ c[2] \in Challenges /\ vk \in KeysGiven /\ Validate(vk)
    BY <2>2 DEF VerifierInv
  <2>4. EvaluateGates(vk, cells) = "ok"
    BY <2>2, <2>3, GatesDecide
  <2>5. VerifyPermutation(vk, Flatten(vk, cells), c[1], c[2]) # "InvalidInput"
    BY <2>2, <2>3, HonestProduct
  <2> QED BY <2>2, <2>4, <2>5 DEF VerifyCells
<1> QED BY <1>1, VerifierInvariant, PTL
-----------------------------------------------------------------------------
(* Scalars and points.                                                      *)

(* The order of the group, and scalars as words.                            *)
LEMMA ScalarFacts ==
  /\ FR_MODULUS \in Moduli /\ FR_MODULUS \in Nat /\ FR_MODULUS > 2
  /\ \A a \in Scalar : a \in Nat /\ a \in U256 /\ a < FR_MODULUS /\ a % FR_MODULUS = a
  /\ 0 \in Scalar /\ 1 \in Scalar
BY ElementFacts DEF Scalar, F

(* A scalar that is congruent to a number is its residue.                   *)
LEMMA ScalarIs ==
  ASSUME NEW a \in Scalar, NEW b \in Scalar, Same(a, b, FR_MODULUS)
  PROVE  a = b
BY ElementIs DEF Scalar, F

(* Residues are scalars.                                                    *)
LEMMA ResidueIsScalar ==
  ASSUME NEW v \in Int
  PROVE  v % FR_MODULUS \in Scalar /\ Same(v % FR_MODULUS, v, FR_MODULUS)
BY ResidueIsElement DEF Scalar, F

(* The operations on scalars, as congruences of integers.                   *)
LEMMA ScAddIs ==
  ASSUME NEW a \in Scalar, NEW b \in Scalar
  PROVE  ScAdd(a, b) \in Scalar /\ Same(ScAdd(a, b), a + b, FR_MODULUS)
BY FAddIs DEF Scalar, F, ScAdd, FAdd

LEMMA ScSubIs ==
  ASSUME NEW a \in Scalar, NEW b \in Scalar
  PROVE  ScSub(a, b) \in Scalar /\ Same(ScSub(a, b), a - b, FR_MODULUS)
BY FSubIs DEF Scalar, F, ScSub, FSub

LEMMA ScMulIs ==
  ASSUME NEW a \in Int, NEW b \in Int
  PROVE  ScMul(a, b) \in Scalar /\ Same(ScMul(a, b), a * b, FR_MODULUS)
BY FMulIs DEF Scalar, F, ScMul, FMul

LEMMA ScInvIs ==
  ASSUME NEW a \in Scalar
  PROVE  ScInv[a] \in Scalar /\ (a # 0 => Same(a * ScInv[a], 1, FR_MODULUS))
<1>1. PICK v : v = Invert(a, FR_MODULUS)
  OBVIOUS
<1>2. v \in F /\ (a # 0 => Same(a * v, 1, FR_MODULUS))
  BY <1>1, InverseIs DEF Scalar, F
<1>3. ScInv[a] = v
  BY <1>1 DEF ScInv
<1> QED BY <1>2, <1>3 DEF Scalar, F

(* Neither of two scalars is zero, and their product is not.                *)
LEMMA NoZeroDivisors ==
  ASSUME NEW a \in Scalar, NEW b \in Scalar, Same(a * b, 0, FR_MODULUS)
  PROVE  a = 0 \/ b = 0
BY NoZeroProduct DEF Scalar, F

(* The points: vectors of scalars over the generators.                      *)
Points == [Bases -> Scalar]

LEMMA PointFacts ==
  /\ Origin \in Points /\ \A b : Base(b) \in Points
  /\ GValue \in Points /\ HBlind \in Points
  /\ <<"G", 0>> \in Bases /\ <<"H", 0>> \in Bases
  /\ \A k \in Index : <<"g", k>> \in Bases /\ <<"h", k>> \in Bases
<1>1. Origin \in Points /\ \A b : Base(b) \in Points
  BY ScalarFacts DEF Origin, Base, Points
<1> QED BY <1>1 DEF GValue, HBlind, Bases

LEMMA AddScaledIs ==
  ASSUME NEW p \in Points, NEW q \in Points, NEW s \in Int
  PROVE  /\ AddScaled(p, q, s) \in Points
         /\ \A c \in Bases : Same(AddScaled(p, q, s)[c], p[c] + q[c] * s, FR_MODULUS)
<1>1. ASSUME NEW c \in Bases
      PROVE  /\ ScAdd(p[c], ScMul(q[c], s)) \in Scalar
             /\ Same(ScAdd(p[c], ScMul(q[c], s)), p[c] + q[c] * s, FR_MODULUS)
  <2>1. PICK pc \in Scalar, qc \in Scalar : pc = p[c] /\ qc = q[c] /\ pc \in Int /\ qc \in Int
    <3>1. p[c] \in Scalar /\ q[c] \in Scalar
      BY DEF Points
    <3> QED BY <3>1, ScalarFacts
  <2>2. PICK w : w = ScMul(qc, s) /\ w \in Scalar /\ w \in Int /\ Same(w, qc * s, FR_MODULUS)
    <3>1. ScMul(qc, s) \in Scalar /\ Same(ScMul(qc, s), qc * s, FR_MODULUS)
      BY <2>1, ScMulIs
    <3> QED BY <3>1, ScalarFacts
  <2>3. PICK u : u = ScAdd(pc, w) /\ u \in Scalar /\ u \in Int /\ Same(u, pc + w, FR_MODULUS)
    <3>1. ScAdd(pc, w) \in Scalar /\ Same(ScAdd(pc, w), pc + w, FR_MODULUS)
      BY <2>1, <2>2, ScAddIs
    <3> QED BY <3>1, ScalarFacts
  <2>4. PICK qs \in Int : qs = qc * s
    BY <2>1
  <2>5. Same(pc + w, pc + qs, FR_MODULUS)
    <3>1. Same(pc, pc, FR_MODULUS) /\ Same(w, qs, FR_MODULUS) /\ FR_MODULUS \in Nat
      BY <2>1, <2>2, <2>4, ScalarFacts, SameIsEquivalence
    <3> QED BY <2>1, <2>2, <3>1, SameSum
  <2>6. Same(u, pc + qs, FR_MODULUS)
    <3>1. pc + w \in Int /\ pc + qs \in Int /\ FR_MODULUS \in Nat
      BY <2>1, <2>2, ScalarFacts
    <3> QED BY <2>3, <2>5, <3>1, SameIsEquivalence
  <2> QED BY <2>1, <2>2, <2>3, <2>4, <2>6
<1>2. \A c \in Bases : AddScaled(p, q, s)[c] = ScAdd(p[c], ScMul(q[c], s))
  BY DEF AddScaled
<1>3. AddScaled(p, q, s) \in Points
  BY <1>1 DEF AddScaled, Points
<1> QED BY <1>1, <1>2, <1>3

(* Points are equal when their coefficients are congruent.                  *)
LEMMA PointIs ==
  ASSUME NEW p \in Points, NEW q \in Points, \A c \in Bases : Same(p[c], q[c], FR_MODULUS)
  PROVE  p = q
<1>1. \A c \in Bases : p[c] = q[c]
  <2>1. \A c \in Bases : p[c] \in Scalar /\ q[c] \in Scalar
    BY DEF Points
  <2> QED BY <2>1, ScalarIs
<1> QED BY <1>1 DEF Points


(* A function over the points defined by adding scaled points up, as the    *)
(* multiplication of many points is.                                        *)
LEMMA MsmIs ==
  ASSUME NEW n \in Nat, NEW points, Len(points) = n, NEW scalars,
         \A k \in 1..n : points[k] \in Points /\ scalars[k] \in Int
  PROVE  /\ Msm(points, scalars) \in Points
         /\ \A c \in Bases :
              Same(Msm(points, scalars)[c], SumOf([k \in 1..n |-> points[k][c] * scalars[k]], n),
                   FR_MODULUS)
<1> DEFINE G == [k \in 1..n |-> [v \in Points |-> AddScaled(v, points[k], scalars[k])]]
           Step(f, k) == IF k = 0 THEN Origin ELSE AddScaled(f[k - 1], points[k], scalars[k])
<1>1. ASSUME NEW k \in 1..n, NEW v \in Points
      PROVE  /\ AddScaled(v, points[k], scalars[k]) \in Points
             /\ \A c \in Bases : Same(AddScaled(v, points[k], scalars[k])[c],
                                      v[c] + points[k][c] * scalars[k], FR_MODULUS)
  <2>1. PICK p \in Points, s \in Int : p = points[k] /\ s = scalars[k]
    OBVIOUS
  <2>2. /\ AddScaled(v, p, s) \in Points
        /\ \A c \in Bases : Same(AddScaled(v, p, s)[c], v[c] + p[c] * s, FR_MODULUS)
    BY AddScaledIs
  <2> QED BY <2>1, <2>2
<1>2. G \in [1..n -> [Points -> Points]]
  BY <1>1
<1>3. PICK f0 : Recurs(f0, Points, Origin, n, G)
  <2>1. Origin \in Points
    BY PointFacts
  <2> HIDE DEF G
  <2> QED BY <1>2, <2>1, Recursion
<1>4. f0 \in [0..n -> Points] /\ \A k \in 0..n : f0[k] = Step(f0, k)
  <2>1. f0 \in [0..n -> Points] /\ f0[0] = Origin /\ \A k \in 1..n : f0[k] = G[k][f0[k - 1]]
    <3> HIDE DEF G
    <3> QED BY <1>3 DEF Recurs
  <2>2. ASSUME NEW k \in 1..n PROVE f0[k] = Step(f0, k)
    <3>1. k - 1 \in 0..n /\ k # 0
      OBVIOUS
    <3>2. f0[k - 1] \in Points /\ G[k] = [v \in Points |-> AddScaled(v, points[k], scalars[k])]
      BY <2>1, <3>1
    <3>3. G[k][f0[k - 1]] = AddScaled(f0[k - 1], points[k], scalars[k])
      <4> HIDE DEF G
      <4> QED BY <3>2
    <3> HIDE DEF G
    <3> QED BY <2>1, <3>1, <3>3
  <2>3. \A k \in 0..n : k = 0 \/ k \in 1..n
    OBVIOUS
  <2> HIDE DEF G
  <2> QED BY <2>1, <2>2, <2>3
<1> HIDE DEF G
<1>5. f0 = [k \in 0..n |-> Step(f0, k)]
  <2>1. f0 = [k \in 0..n |-> f0[k]]
    BY <1>4
  <2> HIDE DEF Step
  <2> QED BY <1>4, <2>1
<1> DEFINE f == CHOOSE f : f = [k \in 0..n |-> Step(f, k)]
<1>6. f = [k \in 0..n |-> Step(f, k)]
  <2> HIDE DEF Step
  <2> QED BY <1>5
<1>7. Msm(points, scalars) = f[n]
  BY DEF Msm
<1> HIDE DEF f
<1>8. f[0] = Origin /\ \A k \in 1..n : f[k] = AddScaled(f[k - 1], points[k], scalars[k])
  <2>1. \A k \in 0..n : f[k] = Step(f, k)
    <3> HIDE DEF Step
    <3> QED BY <1>6
  <2>2. \A k \in 1..n : k \in 0..n /\ k # 0
    OBVIOUS
  <2> QED BY <2>1, <2>2
<1> HIDE DEF Step
<1> DEFINE T(c) == [k \in 1..n |-> points[k][c] * scalars[k]]
           Q == {e \in Nat : e <= n => /\ f[e] \in Points
                                       /\ \A c \in Bases : Same(f[e][c], SumOf(T(c), e), FR_MODULUS)}
<1>9. ASSUME NEW c \in Bases, NEW k \in 1..n
      PROVE  T(c)[k] \in Int /\ T(c)[k] = points[k][c] * scalars[k] /\ points[k][c] \in Int
  <2>1. points[k][c] \in Scalar
    BY DEF Points
  <2>2. points[k][c] \in Int /\ scalars[k] \in Int
    BY <2>1, ScalarFacts
  <2> QED BY <2>2
<1>10. 0 \in Q
  <2>1. ASSUME NEW c \in Bases PROVE Same(f[0][c], SumOf(T(c), 0), FR_MODULUS)
    <3>1. SumOf(T(c), 0) = 0
      <4>1. \A k \in 1..0 : T(c)[k] \in Int
        OBVIOUS
      <4> HIDE DEF T
      <4> QED BY <4>1, SumStep
    <3>2. f[0][c] = 0
      BY <1>8 DEF Origin
    <3>3. Same(0, 0, FR_MODULUS)
      BY ScalarFacts, SameIsEquivalence
    <3> QED BY <3>1, <3>2, <3>3
  <2>2. f[0] \in Points
    BY <1>8, PointFacts
  <2> HIDE DEF T
  <2> QED BY <2>1, <2>2
<1>11. ASSUME NEW e \in Q PROVE e + 1 \in Q
  <2> HIDE DEF T
  <2>1. CASE e + 1 <= n
    <3>1. PICK e1 \in Nat : e1 = e + 1 /\ e1 - 1 = e /\ e1 > 0 /\ e1 \in 1..n
      BY <2>1
    <3>2. /\ e \in Nat /\ f[e] \in Points
          /\ \A c \in Bases : Same(f[e][c], SumOf(T(c), e), FR_MODULUS)
      BY <2>1
    <3>3. f[e1] = AddScaled(f[e], points[e1], scalars[e1])
      BY <1>8, <3>1
    <3>4. /\ f[e1] \in Points
          /\ \A c \in Bases : Same(f[e1][c], f[e][c] + points[e1][c] * scalars[e1], FR_MODULUS)
      BY <1>1, <3>1, <3>2, <3>3
    <3>5. ASSUME NEW c \in Bases PROVE Same(f[e1][c], SumOf(T(c), e1), FR_MODULUS)
      <4>1. PICK u \in Int, v \in Int, w \in Int, z \in Int :
               u = f[e1][c] /\ v = f[e][c] /\ w = T(c)[e1] /\ z = SumOf(T(c), e)
        <5>1. f[e1][c] \in Scalar /\ f[e][c] \in Scalar
          BY <3>2, <3>4 DEF Points
        <5>2. f[e1][c] \in Int /\ f[e][c] \in Int
          <6>1. PICK u \in Scalar, v \in Scalar : u = f[e1][c] /\ v = f[e][c]
            BY <5>1
          <6>2. u \in Int /\ v \in Int
            BY ScalarFacts
          <6> QED BY <6>1, <6>2
        <5>3. T(c)[e1] \in Int
          BY <1>9, <3>1
        <5>4. SumOf(T(c), e) \in Int
          <6>1. \A k \in 1..e : T(c)[k] \in Int
            BY <1>9, <3>1
          <6> QED BY <3>2, <6>1, SumStep
        <5> QED BY <5>2, <5>3, <5>4
      <4>2. SumOf(T(c), e1) = z + w
        <5>1. \A k \in 1..e1 : T(c)[k] \in Int
          BY <1>9, <3>1
        <5>2. SumOf(T(c), e1) = SumOf(T(c), e1 - 1) + T(c)[e1]
          BY <3>1, <5>1, SumStep
        <5> QED BY <3>1, <4>1, <5>2
      <4>3. Same(u, v + w, FR_MODULUS)
        BY <1>9, <3>1, <3>4, <4>1
      <4>4. Same(v, z, FR_MODULUS) /\ Same(w, w, FR_MODULUS) /\ FR_MODULUS \in Nat
        BY <3>2, <4>1, ScalarFacts, SameIsEquivalence
      <4>5. Same(v + w, z + w, FR_MODULUS)
        BY <4>4, SameSum
      <4>6. Same(u, z + w, FR_MODULUS)
        <5>1. v + w \in Int /\ z + w \in Int
          OBVIOUS
        <5> QED BY <4>3, <4>4, <4>5, <5>1, SameIsEquivalence
      <4> QED BY <4>1, <4>2, <4>6
    <3> QED BY <3>1, <3>4, <3>5
  <2> QED BY <2>1
<1>12. Q = Nat
  <2>1. Q \in SUBSET Nat
    OBVIOUS
  <2> HIDE DEF Q
  <2> QED BY <1>10, <1>11, <2>1, Inductive
<1>13. f[n] \in Points /\ \A c \in Bases : Same(f[n][c], SumOf(T(c), n), FR_MODULUS)
  <2> HIDE DEF T
  <2>1. n \in Q /\ n <= n
    BY <1>12
  <2> QED BY <2>1
<1> QED BY <1>7, <1>13

(* An inner product of vectors.                                             *)
LEMMA InnerProdIs ==
  ASSUME NEW n \in Nat, NEW a, Len(a) = n, NEW b, \A k \in 1..n : a[k] \in Int /\ b[k] \in Int
  PROVE  /\ InnerProd(a, b) \in Scalar
         /\ Same(InnerProd(a, b), SumOf([k \in 1..n |-> a[k] * b[k]], n), FR_MODULUS)
<1> DEFINE G == [k \in 1..n |-> [v \in Scalar |-> ScAdd(v, ScMul(a[k], b[k]))]]
           Step(f, k) == IF k = 0 THEN 0 ELSE ScAdd(f[k - 1], ScMul(a[k], b[k]))
<1>1. ASSUME NEW k \in 1..n, NEW v \in Scalar
      PROVE  /\ ScAdd(v, ScMul(a[k], b[k])) \in Scalar
             /\ Same(ScAdd(v, ScMul(a[k], b[k])), v + a[k] * b[k], FR_MODULUS)
  <2>1. PICK p \in Int, q \in Int, pq \in Int : p = a[k] /\ q = b[k] /\ pq = p * q
    OBVIOUS
  <2>2. PICK w : w = ScMul(p, q)
    OBVIOUS
  <2>3. w \in Scalar /\ Same(w, pq, FR_MODULUS)
    BY <2>1, <2>2, ScMulIs
  <2>4. PICK u : u = ScAdd(v, w)
    OBVIOUS
  <2>5. u \in Scalar /\ Same(u, v + w, FR_MODULUS)
    BY <2>3, <2>4, ScAddIs
  <2>6. u \in Int /\ v \in Int /\ w \in Int /\ FR_MODULUS \in Nat
    BY <2>3, <2>5, ScalarFacts
  <2>7. Same(v + w, v + pq, FR_MODULUS)
    <3>1. Same(v, v, FR_MODULUS)
      BY <2>6, SameChain
    <3> QED BY <2>3, <2>6, <3>1, SameSum
  <2>8. Same(u, v + pq, FR_MODULUS)
    <3>1. v + w \in Int /\ v + pq \in Int
      BY <2>6
    <3> QED BY <2>5, <2>6, <2>7, <3>1, SameChain
  <2> QED BY <2>1, <2>2, <2>4, <2>5, <2>8
<1>2. G \in [1..n -> [Scalar -> Scalar]]
  BY <1>1
<1>3. PICK f0 : Recurs(f0, Scalar, 0, n, G)
  <2>1. 0 \in Scalar
    BY ScalarFacts
  <2> HIDE DEF G
  <2> QED BY <1>2, <2>1, Recursion
<1>4. f0 \in [0..n -> Scalar] /\ \A k \in 0..n : f0[k] = Step(f0, k)
  <2>1. f0 \in [0..n -> Scalar] /\ f0[0] = 0 /\ \A k \in 1..n : f0[k] = G[k][f0[k - 1]]
    <3> HIDE DEF G
    <3> QED BY <1>3 DEF Recurs
  <2>2. ASSUME NEW k \in 1..n PROVE f0[k] = Step(f0, k)
    <3>1. k - 1 \in 0..n /\ k # 0
      OBVIOUS
    <3>2. f0[k - 1] \in Scalar /\ G[k] = [v \in Scalar |-> ScAdd(v, ScMul(a[k], b[k]))]
      BY <2>1, <3>1
    <3>3. G[k][f0[k - 1]] = ScAdd(f0[k - 1], ScMul(a[k], b[k]))
      <4> HIDE DEF G
      <4> QED BY <3>2
    <3> HIDE DEF G
    <3> QED BY <2>1, <3>1, <3>3
  <2>3. \A k \in 0..n : k = 0 \/ k \in 1..n
    OBVIOUS
  <2> HIDE DEF G
  <2> QED BY <2>1, <2>2, <2>3
<1> HIDE DEF G
<1>5. f0 = [k \in 0..n |-> Step(f0, k)]
  <2>1. f0 = [k \in 0..n |-> f0[k]]
    BY <1>4
  <2> HIDE DEF Step
  <2> QED BY <1>4, <2>1
<1> DEFINE f == CHOOSE f : f = [k \in 0..n |-> Step(f, k)]
<1>6. f = [k \in 0..n |-> Step(f, k)]
  <2> HIDE DEF Step
  <2> QED BY <1>5
<1>7. InnerProd(a, b) = f[n]
  BY DEF InnerProd
<1> HIDE DEF f
<1>8. f[0] = 0 /\ \A k \in 1..n : f[k] = ScAdd(f[k - 1], ScMul(a[k], b[k]))
  <2>1. \A k \in 0..n : f[k] = Step(f, k)
    <3> HIDE DEF Step
    <3> QED BY <1>6
  <2>2. \A k \in 1..n : k \in 0..n /\ k # 0
    OBVIOUS
  <2> QED BY <2>1, <2>2
<1> HIDE DEF Step
<1> DEFINE T == [k \in 1..n |-> a[k] * b[k]]
           Q == {e \in Nat : e <= n => f[e] \in Scalar /\ Same(f[e], SumOf(T, e), FR_MODULUS)}
<1>9. \A k \in 1..n : T[k] \in Int /\ T[k] = a[k] * b[k]
  OBVIOUS
<1> HIDE DEF T
<1>10. 0 \in Q
  <2>1. SumOf(T, 0) = 0
    <3>1. \A k \in 1..0 : T[k] \in Int
      OBVIOUS
    <3> QED BY <3>1, SumStep
  <2>2. f[0] = 0 /\ 0 \in Scalar /\ Same(0, 0, FR_MODULUS)
    BY <1>8, ScalarFacts, SameIsEquivalence
  <2> QED BY <2>1, <2>2
<1>11. ASSUME NEW e \in Q PROVE e + 1 \in Q
  <2>1. CASE e + 1 <= n
    <3>1. PICK e1 \in Nat : e1 = e + 1 /\ e1 - 1 = e /\ e1 > 0 /\ e1 \in 1..n
      BY <2>1
    <3>2. e \in Nat /\ f[e] \in Scalar /\ Same(f[e], SumOf(T, e), FR_MODULUS)
      BY <2>1
    <3>3. f[e1] = ScAdd(f[e], ScMul(a[e1], b[e1]))
      BY <1>8, <3>1
    <3>4. f[e1] \in Scalar /\ Same(f[e1], f[e] + a[e1] * b[e1], FR_MODULUS)
      BY <1>1, <3>1, <3>2, <3>3
    <3>5. PICK u \in Int, v \in Int, w \in Int, z \in Int :
             u = f[e1] /\ v = f[e] /\ w = T[e1] /\ z = SumOf(T, e)
      <4>1. f[e1] \in Int /\ f[e] \in Int
        BY <3>2, <3>4, ScalarFacts
      <4>2. T[e1] \in Int
        BY <1>9, <3>1
      <4>3. SumOf(T, e) \in Int
        <5>1. \A k \in 1..e : T[k] \in Int
          BY <1>9, <3>1
        <5> QED BY <3>2, <5>1, SumStep
      <4> QED BY <4>1, <4>2, <4>3
    <3>6. SumOf(T, e1) = z + w
      <4>1. \A k \in 1..e1 : T[k] \in Int
        BY <1>9, <3>1
      <4>2. SumOf(T, e1) = SumOf(T, e1 - 1) + T[e1]
        BY <3>1, <4>1, SumStep
      <4> QED BY <3>1, <3>5, <4>2
    <3>7. Same(u, v + w, FR_MODULUS)
      BY <1>9, <3>1, <3>4, <3>5
    <3>8. Same(v, z, FR_MODULUS) /\ Same(w, w, FR_MODULUS) /\ FR_MODULUS \in Nat
      BY <3>2, <3>5, ScalarFacts, SameIsEquivalence
    <3>9. Same(v + w, z + w, FR_MODULUS)
      BY <3>8, SameSum
    <3>10. Same(u, z + w, FR_MODULUS)
      <4>1. v + w \in Int /\ z + w \in Int
        OBVIOUS
      <4> QED BY <3>7, <3>8, <3>9, <4>1, SameIsEquivalence
    <3> QED BY <3>1, <3>4, <3>5, <3>6, <3>10
  <2> QED BY <2>1
<1>12. Q = Nat
  <2>1. Q \in SUBSET Nat
    OBVIOUS
  <2> HIDE DEF Q
  <2> QED BY <1>10, <1>11, <2>1, Inductive
<1>13. f[n] \in Scalar /\ Same(f[n], SumOf(T, n), FR_MODULUS)
  <2>1. n \in Q /\ n <= n
    BY <1>12
  <2> QED BY <2>1
<1> QED BY <1>7, <1>13 DEF T


-----------------------------------------------------------------------------
(* The inner-product argument.                                              *)

(* What one place of the vectors adds to a commitment, over a generator of  *)
(* which the blinding generator has q.                                      *)
Term(g, a, h, b, q) == g * a + h * b + q * (a * b)

(* Vectors of the length n over points, as the argument folds them.         *)
Vectors(a, g, b, h, n) ==
    /\ n \in Nat
    /\ a \in [1..n -> Scalar] /\ b \in [1..n -> Scalar]
    /\ g \in [1..n -> Points] /\ h \in [1..n -> Points]
CrossTerms(a, g, b, h, n, c) ==
    [k \in 1..n |-> Term(g[k][c], a[k], h[k][c], b[k], HBlind[c])]

LEMMA TermsAre ==
  ASSUME NEW a, NEW g, NEW b, NEW h, NEW n, Vectors(a, g, b, h, n), NEW c \in Bases, NEW k \in 1..n
  PROVE  /\ g[k][c] \in Int /\ a[k] \in Int /\ h[k][c] \in Int /\ b[k] \in Int /\ HBlind[c] \in Int
         /\ CrossTerms(a, g, b, h, n, c)[k] = Term(g[k][c], a[k], h[k][c], b[k], HBlind[c])
         /\ CrossTerms(a, g, b, h, n, c)[k] \in Int
<1>1. PICK gk \in Int, ak \in Int, hk \in Int, bk \in Int, q \in Int :
         gk = g[k][c] /\ ak = a[k] /\ hk = h[k][c] /\ bk = b[k] /\ q = HBlind[c]
  <2>1. a[k] \in Scalar /\ b[k] \in Scalar /\ g[k] \in Points /\ h[k] \in Points /\ HBlind \in Points
    BY PointFacts DEF Vectors
  <2>2. PICK s1 \in Scalar, s2 \in Scalar, s3 \in Scalar, s4 \in Scalar, s5 \in Scalar :
           s1 = a[k] /\ s2 = b[k] /\ s3 = g[k][c] /\ s4 = h[k][c] /\ s5 = HBlind[c]
    BY <2>1 DEF Points
  <2>3. s1 \in Int /\ s2 \in Int /\ s3 \in Int /\ s4 \in Int /\ s5 \in Int
    BY ScalarFacts
  <2> QED BY <2>2, <2>3
<1>2. CrossTerms(a, g, b, h, n, c)[k] = Term(gk, ak, hk, bk, q)
  BY <1>1 DEF CrossTerms
<1>3. Term(gk, ak, hk, bk, q) \in Int
  BY DEF Term
<1> QED BY <1>1, <1>2, <1>3

(* The commitment to two vectors is the sum of what their places add.       *)
LEMMA CrossIs ==
  ASSUME NEW a, NEW g, NEW b, NEW h, NEW n, Vectors(a, g, b, h, n)
  PROVE  /\ Cross(a, g, b, h) \in Points
         /\ \A c \in Bases :
              Same(Cross(a, g, b, h)[c], SumOf(CrossTerms(a, g, b, h, n, c), n), FR_MODULUS)
<1>1. /\ n \in Nat /\ Len(a) = n /\ Len(b) = n /\ Len(g) = n /\ Len(h) = n
      /\ \A k \in 1..n : a[k] \in Scalar /\ b[k] \in Scalar /\ g[k] \in Points /\ h[k] \in Points
  BY VectorLength DEF Vectors
<1>2. \A k \in 1..n : a[k] \in Int /\ b[k] \in Int
  BY TermsAre, PointFacts
<1>3. PICK ga : ga = Msm(g, a)
  OBVIOUS
<1>4. PICK hb : hb = Msm(h, b)
  OBVIOUS
<1>5. PICK ab : ab = InnerProd(a, b)
  OBVIOUS
<1>6. /\ ga \in Points
      /\ \A c \in Bases : Same(ga[c], SumOf([k \in 1..n |-> g[k][c] * a[k]], n), FR_MODULUS)
  BY <1>1, <1>2, <1>3, MsmIs
<1>7. /\ hb \in Points
      /\ \A c \in Bases : Same(hb[c], SumOf([k \in 1..n |-> h[k][c] * b[k]], n), FR_MODULUS)
  BY <1>1, <1>2, <1>4, MsmIs
<1>8. ab \in Scalar /\ Same(ab, SumOf([k \in 1..n |-> a[k] * b[k]], n), FR_MODULUS)
  BY <1>1, <1>2, <1>5, InnerProdIs
<1>9. ab \in Int /\ 1 \in Int /\ FR_MODULUS \in Nat /\ HBlind \in Points
  BY <1>8, ScalarFacts, PointFacts
<1>10. PICK gh : gh = AddScaled(ga, hb, 1)
  OBVIOUS
<1>11. gh \in Points /\ \A c \in Bases : Same(gh[c], ga[c] + hb[c] * 1, FR_MODULUS)
  BY <1>6, <1>7, <1>9, <1>10, AddScaledIs
<1>12. PICK out : out = AddScaled(gh, HBlind, ab)
  OBVIOUS
<1>13. out \in Points /\ \A c \in Bases : Same(out[c], gh[c] + HBlind[c] * ab, FR_MODULUS)
  BY <1>9, <1>11, <1>12, AddScaledIs
<1>14. Cross(a, g, b, h) = out
  BY <1>3, <1>4, <1>5, <1>10, <1>12 DEF Cross
<1>15. ASSUME NEW c \in Bases
       PROVE  Same(out[c], SumOf(CrossTerms(a, g, b, h, n, c), n), FR_MODULUS)
  <2> DEFINE f1 == [k \in 1..n |-> g[k][c] * a[k]]
             f2 == [k \in 1..n |-> h[k][c] * b[k]]
             f3 == [k \in 1..n |-> a[k] * b[k]]
             f4 == [k \in 1..n |-> g[k][c] * a[k] + h[k][c] * b[k]]
             f5 == CrossTerms(a, g, b, h, n, c)
             m == FR_MODULUS
  <2>1. ASSUME NEW k \in 1..n
        PROVE  /\ f1[k] \in Int /\ f2[k] \in Int /\ f3[k] \in Int /\ f4[k] \in Int /\ f5[k] \in Int
               /\ f4[k] = 1 * f1[k] + 1 * f2[k]
               /\ f5[k] = 1 * f4[k] + HBlind[c] * f3[k]
    <3>1. PICK gk \in Int, ak \in Int, hk \in Int, bk \in Int, q \in Int :
             /\ gk = g[k][c] /\ ak = a[k] /\ hk = h[k][c] /\ bk = b[k] /\ q = HBlind[c]
             /\ f5[k] = Term(gk, ak, hk, bk, q)
      BY TermsAre
    <3> HIDE DEF f5
    <3>2. f1[k] = gk * ak /\ f2[k] = hk * bk /\ f3[k] = ak * bk /\ f4[k] = gk * ak + hk * bk
      BY <3>1
    <3> HIDE DEF f1, f2, f3, f4
    <3>3. PICK u \in Int, v \in Int, w \in Int, qw \in Int :
             u = gk * ak /\ v = hk * bk /\ w = ak * bk /\ qw = q * w
      OBVIOUS
    <3>4. f5[k] = u + v + qw
      BY <3>1, <3>3 DEF Term
    <3> QED BY <3>1, <3>2, <3>3, <3>4
  <2>2. HBlind[c] \in Int /\ ga[c] \in Int /\ hb[c] \in Int /\ gh[c] \in Int /\ out[c] \in Int
    <3>1. PICK s1 \in Scalar, s2 \in Scalar, s3 \in Scalar, s4 \in Scalar, s5 \in Scalar :
             s1 = HBlind[c] /\ s2 = ga[c] /\ s3 = hb[c] /\ s4 = gh[c] /\ s5 = out[c]
      BY <1>6, <1>7, <1>9, <1>11, <1>13 DEF Points
    <3>2. s1 \in Int /\ s2 \in Int /\ s3 \in Int /\ s4 \in Int /\ s5 \in Int
      BY ScalarFacts
    <3> QED BY <3>1, <3>2
  <2>3. /\ Same(ga[c], SumOf(f1, n), m) /\ Same(hb[c], SumOf(f2, n), m) /\ Same(ab, SumOf(f3, n), m)
        /\ Same(gh[c], ga[c] + hb[c] * 1, m) /\ Same(out[c], gh[c] + HBlind[c] * ab, m)
    BY <1>6, <1>7, <1>8, <1>11, <1>13
  <2> HIDE DEF f1, f2, f3, f4, f5, m
  <2>4. PICK q \in Int, u1 \in Int, u2 \in Int, u3 \in Int, u4 \in Int :
           q = HBlind[c] /\ u1 = ga[c] /\ u2 = hb[c] /\ u3 = gh[c] /\ u4 = out[c]
    BY <2>2
  <2>5. PICK s1 \in Int, s2 \in Int, s3 \in Int, s4 \in Int, s5 \in Int :
           s1 = SumOf(f1, n) /\ s2 = SumOf(f2, n) /\ s3 = SumOf(f3, n) /\ s4 = SumOf(f4, n)
           /\ s5 = SumOf(f5, n)
    BY <1>1, <2>1, SumStep
  <2>6. m \in Nat
    BY <1>9 DEF m
  <2>7. Same(s4, 1 * s1 + 1 * s2, m)
    <3>1. \A k \in 1..n : /\ f4[k] \in Int /\ f1[k] \in Int /\ f2[k] \in Int
                          /\ Same(f4[k], 1 * f1[k] + 1 * f2[k], m)
      BY <2>1, <2>6, SameChain
    <3> QED BY <1>1, <1>9, <2>5, <2>6, <3>1, SumIsLinear
  <2>8. Same(s5, 1 * s4 + q * s3, m)
    <3>1. \A k \in 1..n : /\ f5[k] \in Int /\ f4[k] \in Int /\ f3[k] \in Int
                          /\ Same(f5[k], 1 * f4[k] + q * f3[k], m)
      BY <2>1, <2>4, <2>6, SameChain
    <3> QED BY <1>1, <1>9, <2>4, <2>5, <2>6, <3>1, SumIsLinear
  <2>9. Same(u3, s4, m)
    <3>1. Same(u1 + u2 * 1, s1 + s2 * 1, m)
      BY <1>9, <2>3, <2>4, <2>5, <2>6, SameScaledSum
    <3>2. Same(u1 + u2, s1 + s2, m) /\ Same(s4, s1 + s2, m) /\ Same(u3, u1 + u2, m)
      BY <2>3, <2>4, <2>7, <3>1
    <3>3. PICK v \in Int, w \in Int : v = u1 + u2 /\ w = s1 + s2
      OBVIOUS
    <3> QED BY <2>6, <3>2, <3>3, SameChain
  <2>10. Same(u4, s5, m)
    <3>1. Same(u3 + ab * q, s4 + s3 * q, m)
      BY <1>9, <2>3, <2>5, <2>6, <2>9, SameScaledSum
    <3>2. PICK v \in Int, w \in Int : v = u3 + ab * q /\ w = s4 + s3 * q
      BY <1>9
    <3>3. q * ab = ab * q /\ q * s3 = s3 * q
      BY <1>9
    <3>4. Same(u4, v, m) /\ Same(s5, w, m) /\ Same(v, w, m)
      BY <2>3, <2>4, <2>8, <3>1, <3>2, <3>3
    <3> QED BY <2>6, <3>4, SameChain
  <2> QED BY <2>4, <2>5, <2>10 DEF f5, m
<1> QED BY <1>13, <1>14, <1>15


(* Two combinations that cross multiply to both products and, with the      *)
(* squares of the challenge and of its inverse, to the mixed ones.          *)
LEMMA CrossedProduct ==
  ASSUME NEW m \in Nat, NEW p1 \in Int, NEW p2 \in Int, NEW r1 \in Int, NEW r2 \in Int,
         NEW e \in Int, NEW d \in Int, NEW pn \in Int, NEW rn \in Int,
         Same(e * d, 1, m), Same(pn, p1 * d + p2 * e, m), Same(rn, r1 * e + r2 * d, m)
  PROVE  Same(pn * rn, (p1 * r1 + p2 * r2) + (e * e) * (p2 * r1) + (d * d) * (p1 * r2), m)
<1>1. PICK pp \in Int, rr \in Int, ed \in Int, s \in Int, z1 \in Int, z2 \in Int :
         /\ pp = p1 * d + p2 * e /\ rr = r1 * e + r2 * d /\ ed = e * d
         /\ s = p1 * r1 + p2 * r2 /\ z1 = (e * e) * (p2 * r1) /\ z2 = (d * d) * (p1 * r2)
  OBVIOUS
<1>2. Same(pn * rn, pp * rr, m)
  <2>1. Same(pn, pp, m) /\ Same(rn, rr, m)
    BY <1>1
  <2> QED BY <2>1, SameProduct
<1>3. pp * rr = ed * s + z1 + z2
  <2>1. (p1 * d + p2 * e) * (r1 * e + r2 * d)
          = (e * d) * (p1 * r1 + p2 * r2) + (e * e) * (p2 * r1) + (d * d) * (p1 * r2)
    BY Z3
  <2> QED BY <1>1, <2>1
<1>4. Same(ed * s, 1 * s, m)
  <2>1. Same(ed, 1, m) /\ Same(s, s, m)
    BY <1>1, SameChain
  <2> QED BY <2>1, SameProduct
<1>5. PICK es \in Int, z \in Int, w \in Int, u \in Int, v \in Int :
         es = ed * s /\ z = z1 + z2 /\ w = es + z /\ u = s + z /\ v = pn * rn
  OBVIOUS
<1>6. Same(w, u, m)
  <2>1. Same(es, s, m) /\ Same(z, z, m)
    BY <1>4, <1>5, SameChain
  <2> QED BY <1>5, <2>1, SameSum
<1>7. Same(v, w, m)
  BY <1>2, <1>3, <1>5
<1>8. Same(v, u, m)
  BY <1>6, <1>7, SameChain
<1> QED BY <1>1, <1>5, <1>8

(* What a place of the folded vectors adds: what the two places that it is  *)
(* made of add, and what they add to the two commitments sent.              *)
LEMMA RoundTerm ==
  ASSUME NEW m \in Nat, NEW g1 \in Int, NEW g2 \in Int, NEW a1 \in Int, NEW a2 \in Int,
         NEW h1 \in Int, NEW h2 \in Int, NEW b1 \in Int, NEW b2 \in Int, NEW q \in Int,
         NEW e \in Int, NEW d \in Int,
         NEW gn \in Int, NEW an \in Int, NEW hn \in Int, NEW bn \in Int,
         Same(e * d, 1, m),
         Same(gn, g1 * d + g2 * e, m), Same(an, a1 * e + a2 * d, m),
         Same(hn, h1 * e + h2 * d, m), Same(bn, b1 * d + b2 * e, m)
  PROVE  Same(Term(gn, an, hn, bn, q),
              (Term(g1, a1, h1, b1, q) + Term(g2, a2, h2, b2, q))
                + (e * e) * Term(g2, a1, h1, b2, q) + (d * d) * Term(g1, a2, h2, b1, q), m)
<1>1. Same(gn * an, (g1 * a1 + g2 * a2) + (e * e) * (g2 * a1) + (d * d) * (g1 * a2), m)
  BY CrossedProduct
<1>2. Same(bn * hn, (b1 * h1 + b2 * h2) + (e * e) * (b2 * h1) + (d * d) * (b1 * h2), m)
  BY CrossedProduct
<1>3. Same(bn * an, (b1 * a1 + b2 * a2) + (e * e) * (b2 * a1) + (d * d) * (b1 * a2), m)
  BY CrossedProduct
<1>4. PICK u1 \in Int, u2 \in Int, u3 \in Int, v1 \in Int, v2 \in Int, v3 \in Int :
         /\ u1 = gn * an /\ u2 = bn * hn /\ u3 = bn * an
         /\ v1 = (g1 * a1 + g2 * a2) + (e * e) * (g2 * a1) + (d * d) * (g1 * a2)
         /\ v2 = (b1 * h1 + b2 * h2) + (e * e) * (b2 * h1) + (d * d) * (b1 * h2)
         /\ v3 = (b1 * a1 + b2 * a2) + (e * e) * (b2 * a1) + (d * d) * (b1 * a2)
  OBVIOUS
<1>5. Same(u1, v1, m) /\ Same(u2, v2, m) /\ Same(u3, v3, m)
  BY <1>1, <1>2, <1>3, <1>4
<1>6. Same(u1 + u2, v1 + v2, m)
  BY <1>5, SameSum
<1>7. PICK u \in Int, v \in Int : u = u1 + u2 /\ v = v1 + v2
  OBVIOUS
<1>8. Same(u + u3 * q, v + v3 * q, m)
  BY <1>5, <1>6, <1>7, SameScaledSum
<1>9. Term(gn, an, hn, bn, q) = u + u3 * q
  <2>1. hn * bn = bn * hn /\ an * bn = bn * an /\ q * (an * bn) = (bn * an) * q
    BY Z3
  <2> QED BY <1>4, <1>7, <2>1 DEF Term
<1>10. v + v3 * q = (Term(g1, a1, h1, b1, q) + Term(g2, a2, h2, b2, q))
                      + (e * e) * Term(g2, a1, h1, b2, q) + (d * d) * Term(g1, a2, h2, b1, q)
  <2> DEFINE ee == e * e
             dd == d * d
  <2>1. ee \in Int /\ dd \in Int
    OBVIOUS
  <2>2. /\ v1 = (g1 * a1 + g2 * a2) + ee * (g2 * a1) + dd * (g1 * a2)
        /\ v2 = (b1 * h1 + b2 * h2) + ee * (b2 * h1) + dd * (b1 * h2)
        /\ v3 = (b1 * a1 + b2 * a2) + ee * (b2 * a1) + dd * (b1 * a2)
    BY <1>4
  <2> HIDE DEF ee, dd
  <2>3. ((g1 * a1 + g2 * a2) + ee * (g2 * a1) + dd * (g1 * a2))
          + ((b1 * h1 + b2 * h2) + ee * (b2 * h1) + dd * (b1 * h2))
          + ((b1 * a1 + b2 * a2) + ee * (b2 * a1) + dd * (b1 * a2)) * q
        = ((g1 * a1 + h1 * b1 + q * (a1 * b1)) + (g2 * a2 + h2 * b2 + q * (a2 * b2)))
            + ee * (g2 * a1 + h1 * b2 + q * (a1 * b2)) + dd * (g1 * a2 + h2 * b1 + q * (a2 * b1))
    BY <2>1, Z3
  <2>4. v + v3 * q = v1 + v2 + v3 * q
    BY <1>7
  <2> QED BY <2>2, <2>3, <2>4 DEF Term, ee, dd
<1> QED BY <1>8, <1>9, <1>10


(* A combination of two points.                                             *)
LEMMA LinCombIs ==
  ASSUME NEW p \in Points, NEW q \in Points, NEW s \in Int, NEW z \in Int
  PROVE  /\ LinComb(p, s, q, z) \in Points
         /\ \A c \in Bases : Same(LinComb(p, s, q, z)[c], p[c] * s + q[c] * z, FR_MODULUS)
<1>1. PICK u : u = AddScaled(Origin, p, s)
  OBVIOUS
<1>2. u \in Points /\ \A c \in Bases : Same(u[c], Origin[c] + p[c] * s, FR_MODULUS)
  BY <1>1, PointFacts, AddScaledIs
<1>3. PICK v : v = AddScaled(u, q, z)
  OBVIOUS
<1>4. v \in Points /\ \A c \in Bases : Same(v[c], u[c] + q[c] * z, FR_MODULUS)
  BY <1>2, <1>3, AddScaledIs
<1>5. LinComb(p, s, q, z) = v
  BY <1>1, <1>3 DEF LinComb
<1>6. ASSUME NEW c \in Bases PROVE Same(v[c], p[c] * s + q[c] * z, FR_MODULUS)
  <2>1. PICK pc \in Int, qc \in Int, uc \in Int, vc \in Int :
           pc = p[c] /\ qc = q[c] /\ uc = u[c] /\ vc = v[c]
    <3>1. PICK s1 \in Scalar, s2 \in Scalar, s3 \in Scalar, s4 \in Scalar :
             s1 = p[c] /\ s2 = q[c] /\ s3 = u[c] /\ s4 = v[c]
      BY <1>2, <1>4 DEF Points
    <3>2. s1 \in Int /\ s2 \in Int /\ s3 \in Int /\ s4 \in Int
      BY ScalarFacts
    <3> QED BY <3>1, <3>2
  <2>2. PICK ps \in Int, qz \in Int : ps = pc * s /\ qz = qc * z
    OBVIOUS
  <2>3. Origin[c] = 0
    BY DEF Origin
  <2>4. Same(uc, ps, FR_MODULUS) /\ FR_MODULUS \in Nat
    BY <1>2, <2>1, <2>2, <2>3, ScalarFacts
  <2>5. Same(uc + qz, ps + qz, FR_MODULUS)
    <3>1. Same(qz, qz, FR_MODULUS)
      BY <2>4, SameChain
    <3> QED BY <2>4, <3>1, SameSum
  <2>6. Same(vc, uc + qz, FR_MODULUS)
    BY <1>4, <2>1, <2>2
  <2>7. Same(vc, ps + qz, FR_MODULUS)
    <3>1. uc + qz \in Int /\ ps + qz \in Int
      OBVIOUS
    <3> QED BY <2>4, <2>5, <2>6, <3>1, SameChain
  <2> QED BY <2>1, <2>2, <2>7
<1> QED BY <1>4, <1>5, <1>6

(* Halves of a vector.                                                      *)
Lower(v, n) == SubSeq(v, 1, n)
Upper(v, n) == SubSeq(v, n + 1, 2 * n)

LEMMA HalvesAre ==
  ASSUME NEW n \in Nat, NEW a, a = [k \in 1..(2 * n) |-> a[k]]
  PROVE  /\ Lower(a, n) = [k \in 1..n |-> a[k]] /\ Upper(a, n) = [k \in 1..n |-> a[n + k]]
         /\ \A k \in 1..n : k \in 1..(2 * n) /\ n + k \in 1..(2 * n)
         /\ Len(a) = 2 * n /\ Len(a) \div 2 = n
<1> DEFINE V == {a[k] : k \in 1..(2 * n)}
<1>1. a \in Seq(V) /\ Len(a) = 2 * n /\ 2 * n \in Nat
  <2>1. a \in [1..(2 * n) -> V] /\ 2 * n \in Nat
    OBVIOUS
  <2> HIDE DEF V
  <2> QED BY <2>1, VectorLength
<1> HIDE DEF V
<1>2. \A k \in 1..n : k \in 1..(2 * n) /\ n + k \in 1..(2 * n)
  OBVIOUS
<1>3. SubSeq(a, 1, n) = [k \in 1..n |-> a[k]]
  <2>1. SubSeq(a, 1, n) = [k \in 1..(n - 1 + 1) |-> a[k + 1 - 1]]
    BY <1>1
  <2> QED BY <2>1
<1>4. SubSeq(a, n + 1, 2 * n) = [k \in 1..n |-> a[n + k]]
  <2>1. SubSeq(a, n + 1, 2 * n) = [k \in 1..(2 * n - (n + 1) + 1) |-> a[k + (n + 1) - 1]]
    BY <1>1
  <2>2. 2 * n - (n + 1) + 1 = n
    OBVIOUS
  <2>3. \A k \in 1..n : k + (n + 1) - 1 = n + k
    OBVIOUS
  <2> QED BY <2>1, <2>2, <2>3
<1>5. Len(a) \div 2 = n
  BY <1>1
<1> QED BY <1>1, <1>2, <1>3, <1>4, <1>5 DEF Lower, Upper

(* The folded scalars and the folded generators.                            *)
LEMMA HalveScalarsIs ==
  ASSUME NEW n \in Nat, NEW a \in [1..(2 * n) -> Scalar], NEW lo \in Scalar, NEW hi \in Scalar
  PROVE  /\ HalveScalars(a, lo, hi) \in [1..n -> Scalar]
         /\ \A k \in 1..n : Same(HalveScalars(a, lo, hi)[k], a[k] * lo + a[n + k] * hi, FR_MODULUS)
<1>1. Len(a) \div 2 = n /\ \A k \in 1..n : k \in 1..(2 * n) /\ n + k \in 1..(2 * n)
  <2>1. a = [k \in 1..(2 * n) |-> a[k]]
    OBVIOUS
  <2> QED BY <2>1, HalvesAre
<1>2. HalveScalars(a, lo, hi) = [k \in 1..n |-> ScAdd(ScMul(a[k], lo), ScMul(a[n + k], hi))]
  BY <1>1 DEF HalveScalars
<1>3. ASSUME NEW k \in 1..n
      PROVE  /\ ScAdd(ScMul(a[k], lo), ScMul(a[n + k], hi)) \in Scalar
             /\ Same(ScAdd(ScMul(a[k], lo), ScMul(a[n + k], hi)), a[k] * lo + a[n + k] * hi, FR_MODULUS)
  <2>1. PICK u \in Scalar, v \in Scalar : u = a[k] /\ v = a[n + k]
    BY <1>1
  <2>2. u \in Int /\ v \in Int /\ lo \in Int /\ hi \in Int /\ FR_MODULUS \in Nat
    BY ScalarFacts
  <2>3. PICK w : w = ScMul(u, lo)
    OBVIOUS
  <2>4. PICK z : z = ScMul(v, hi)
    OBVIOUS
  <2>5. PICK s : s = ScAdd(w, z)
    OBVIOUS
  <2>6. PICK ul \in Int, vh \in Int : ul = u * lo /\ vh = v * hi
    BY <2>2
  <2>7. w \in Scalar /\ Same(w, ul, FR_MODULUS)
    BY <2>2, <2>3, <2>6, ScMulIs
  <2>8. z \in Scalar /\ Same(z, vh, FR_MODULUS)
    BY <2>2, <2>4, <2>6, ScMulIs
  <2>9. s \in Scalar /\ Same(s, w + z, FR_MODULUS)
    BY <2>5, <2>7, <2>8, ScAddIs
  <2>10. w \in Int /\ z \in Int /\ s \in Int
    BY <2>7, <2>8, <2>9, ScalarFacts
  <2>11. Same(w + z, ul + vh, FR_MODULUS)
    BY <2>2, <2>7, <2>8, <2>10, SameSum
  <2>12. Same(s, ul + vh, FR_MODULUS)
    <3>1. w + z \in Int /\ ul + vh \in Int
      BY <2>10
    <3> QED BY <2>2, <2>9, <2>10, <2>11, <3>1, SameChain
  <2> QED BY <2>1, <2>3, <2>4, <2>5, <2>6, <2>9, <2>12
<1> QED BY <1>2, <1>3

LEMMA HalveIs ==
  ASSUME NEW n \in Nat, NEW g \in [1..(2 * n) -> Points], NEW lo \in Scalar, NEW hi \in Scalar
  PROVE  /\ Halve(g, lo, hi) \in [1..n -> Points]
         /\ \A k \in 1..n : \A c \in Bases :
              Same(Halve(g, lo, hi)[k][c], g[k][c] * lo + g[n + k][c] * hi, FR_MODULUS)
<1>1. Len(g) \div 2 = n /\ \A k \in 1..n : k \in 1..(2 * n) /\ n + k \in 1..(2 * n)
  <2>1. g = [k \in 1..(2 * n) |-> g[k]]
    OBVIOUS
  <2> QED BY <2>1, HalvesAre
<1>2. Halve(g, lo, hi) = [k \in 1..n |-> LinComb(g[k], lo, g[n + k], hi)]
  BY <1>1 DEF Halve
<1>3. ASSUME NEW k \in 1..n
      PROVE  /\ LinComb(g[k], lo, g[n + k], hi) \in Points
             /\ \A c \in Bases :
                 Same(LinComb(g[k], lo, g[n + k], hi)[c], g[k][c] * lo + g[n + k][c] * hi, FR_MODULUS)
  <2>1. PICK u \in Points, v \in Points : u = g[k] /\ v = g[n + k]
    BY <1>1
  <2>2. lo \in Int /\ hi \in Int
    BY ScalarFacts
  <2>3. /\ LinComb(u, lo, v, hi) \in Points
        /\ \A c \in Bases : Same(LinComb(u, lo, v, hi)[c], u[c] * lo + v[c] * hi, FR_MODULUS)
    BY <2>2, LinCombIs
  <2> QED BY <2>1, <2>3
<1> QED BY <1>2, <1>3


LEMMA FoldCommitmentsIs ==
  ASSUME NEW p \in Points, NEW l \in Points, NEW r \in Points, NEW e \in Scalar
  PROVE  /\ FoldCommitments(p, l, r, e) \in Points
         /\ \A c \in Bases :
              Same(FoldCommitments(p, l, r, e)[c],
                   p[c] + (e * e) * l[c] + (ScInv[e] * ScInv[e]) * r[c], FR_MODULUS)
<1>1. PICK d : d = ScInv[e]
  OBVIOUS
<1>2. d \in Scalar /\ d \in Int /\ e \in Int /\ FR_MODULUS \in Nat
  BY <1>1, ScInvIs, ScalarFacts
<1>3. PICK ee : ee = ScMul(e, e)
  OBVIOUS
<1>4. PICK dd : dd = ScMul(d, d)
  OBVIOUS
<1>5. /\ ee \in Scalar /\ Same(ee, e * e, FR_MODULUS)
      /\ dd \in Scalar /\ Same(dd, d * d, FR_MODULUS)
  BY <1>2, <1>3, <1>4, ScMulIs
<1>6. ee \in Int /\ dd \in Int
  BY <1>5, ScalarFacts
<1>7. PICK u : u = AddScaled(p, l, ee)
  OBVIOUS
<1>8. u \in Points /\ \A c \in Bases : Same(u[c], p[c] + l[c] * ee, FR_MODULUS)
  BY <1>6, <1>7, AddScaledIs
<1>9. PICK v : v = AddScaled(u, r, dd)
  OBVIOUS
<1>10. v \in Points /\ \A c \in Bases : Same(v[c], u[c] + r[c] * dd, FR_MODULUS)
  BY <1>6, <1>8, <1>9, AddScaledIs
<1>11. FoldCommitments(p, l, r, e) = v
  BY <1>1, <1>3, <1>4, <1>7, <1>9 DEF FoldCommitments
<1>12. ASSUME NEW c \in Bases
       PROVE  Same(v[c], p[c] + (e * e) * l[c] + (d * d) * r[c], FR_MODULUS)
  <2>1. PICK pc \in Int, lc \in Int, rc \in Int, uc \in Int, vc \in Int :
           pc = p[c] /\ lc = l[c] /\ rc = r[c] /\ uc = u[c] /\ vc = v[c]
    <3>1. PICK s1 \in Scalar, s2 \in Scalar, s3 \in Scalar, s4 \in Scalar, s5 \in Scalar :
             s1 = p[c] /\ s2 = l[c] /\ s3 = r[c] /\ s4 = u[c] /\ s5 = v[c]
      BY <1>8, <1>10 DEF Points
    <3>2. s1 \in Int /\ s2 \in Int /\ s3 \in Int /\ s4 \in Int /\ s5 \in Int
      BY ScalarFacts
    <3> QED BY <3>1, <3>2
  <2>2. PICK e2 \in Int, d2 \in Int : e2 = e * e /\ d2 = d * d
    BY <1>2
  <2>3. Same(pc + ee * lc, pc + e2 * lc, FR_MODULUS)
    <3>1. Same(pc, pc, FR_MODULUS) /\ Same(ee, e2, FR_MODULUS)
      BY <1>2, <1>5, <2>2, SameChain
    <3> QED BY <1>2, <1>6, <3>1, SameScaledSum
  <2>4. PICK w \in Int, z \in Int : w = pc + ee * lc /\ z = pc + e2 * lc
    BY <1>6
  <2>5. Same(uc, w, FR_MODULUS) /\ lc * ee = ee * lc
    <3>1. lc * ee = ee * lc
      BY <1>6
    <3> QED BY <1>8, <2>1, <2>4, <3>1
  <2>6. Same(uc, z, FR_MODULUS)
    BY <1>2, <2>3, <2>4, <2>5, SameChain
  <2>7. Same(uc + dd * rc, z + d2 * rc, FR_MODULUS)
    <3>1. Same(dd, d2, FR_MODULUS)
      BY <1>5, <2>2
    <3> QED BY <1>2, <1>6, <2>6, <3>1, SameScaledSum
  <2>8. PICK w1 \in Int, z1 \in Int : w1 = uc + dd * rc /\ z1 = z + d2 * rc
    BY <1>6
  <2>9. Same(vc, w1, FR_MODULUS)
    <3>1. rc * dd = dd * rc
      BY <1>6
    <3> QED BY <1>10, <2>1, <2>8, <3>1
  <2>10. Same(vc, z1, FR_MODULUS)
    BY <1>2, <2>7, <2>8, <2>9, SameChain
  <2> QED BY <2>1, <2>2, <2>4, <2>8, <2>10
<1> QED BY <1>1, <1>10, <1>11, <1>12

(* One round: the commitment folded with what was sent is that of the       *)
(* folded vectors over the folded generators.                               *)
LEMMA RoundIdentity ==
  ASSUME NEW n \in Nat, NEW a, NEW g, NEW b, NEW h, Vectors(a, g, b, h, 2 * n),
         NEW e \in Scalar, NEW d, d = ScInv[e],
         NEW p \in Points,
         NEW l, l = Cross(Lower(a, n), Upper(g, n), Upper(b, n), Lower(h, n)),
         NEW r, r = Cross(Upper(a, n), Lower(g, n), Lower(b, n), Upper(h, n))
  PROVE  /\ l \in Points /\ r \in Points
         /\ Vectors(HalveScalars(a, e, d), Halve(g, d, e), HalveScalars(b, d, e), Halve(h, e, d), n)
         /\ FoldCommitments(p, l, r, e) \in Points
         /\ e # 0 /\ p = Cross(a, g, b, h) =>
              FoldCommitments(p, l, r, e)
                = Cross(HalveScalars(a, e, d), Halve(g, d, e), HalveScalars(b, d, e), Halve(h, e, d))
<1>1. /\ a \in [1..(2 * n) -> Scalar] /\ b \in [1..(2 * n) -> Scalar]
      /\ g \in [1..(2 * n) -> Points] /\ h \in [1..(2 * n) -> Points]
  BY DEF Vectors
<1>2. d \in Scalar /\ d \in Int /\ e \in Int /\ FR_MODULUS \in Nat
  BY ScInvIs, ScalarFacts
<1>3. PICK al, au, bl, bu, gl, gu, hl, hu :
         /\ al = Lower(a, n) /\ au = Upper(a, n)
         /\ bl = Lower(b, n) /\ bu = Upper(b, n)
         /\ gl = Lower(g, n) /\ gu = Upper(g, n)
         /\ hl = Lower(h, n) /\ hu = Upper(h, n)
  OBVIOUS
<1>4. \A k \in 1..n : k \in 1..(2 * n) /\ n + k \in 1..(2 * n)
  OBVIOUS
<1>5. /\ al = [k \in 1..n |-> a[k]] /\ au = [k \in 1..n |-> a[n + k]]
      /\ bl = [k \in 1..n |-> b[k]] /\ bu = [k \in 1..n |-> b[n + k]]
      /\ gl = [k \in 1..n |-> g[k]] /\ gu = [k \in 1..n |-> g[n + k]]
      /\ hl = [k \in 1..n |-> h[k]] /\ hu = [k \in 1..n |-> h[n + k]]
  <2>1. /\ a = [k \in 1..(2 * n) |-> a[k]] /\ b = [k \in 1..(2 * n) |-> b[k]]
        /\ g = [k \in 1..(2 * n) |-> g[k]] /\ h = [k \in 1..(2 * n) |-> h[k]]
    BY <1>1
  <2> QED BY <1>3, <2>1, HalvesAre
<1>6. Vectors(al, gu, bu, hl, n) /\ Vectors(au, gl, bl, hu, n)
  BY <1>1, <1>4, <1>5 DEF Vectors
<1>7. l = Cross(al, gu, bu, hl) /\ r = Cross(au, gl, bl, hu)
  BY <1>3
<1>8. /\ l \in Points /\ r \in Points
      /\ \A c \in Bases : /\ Same(l[c], SumOf(CrossTerms(al, gu, bu, hl, n, c), n), FR_MODULUS)
                          /\ Same(r[c], SumOf(CrossTerms(au, gl, bl, hu, n, c), n), FR_MODULUS)
  BY <1>6, <1>7, CrossIs
<1>9. PICK an, gn, bn, hn : an = HalveScalars(a, e, d) /\ gn = Halve(g, d, e)
                            /\ bn = HalveScalars(b, d, e) /\ hn = Halve(h, e, d)
  OBVIOUS
<1>10. /\ an \in [1..n -> Scalar] /\ bn \in [1..n -> Scalar]
       /\ \A k \in 1..n : /\ Same(an[k], a[k] * e + a[n + k] * d, FR_MODULUS)
                          /\ Same(bn[k], b[k] * d + b[n + k] * e, FR_MODULUS)
  BY <1>1, <1>2, <1>9, HalveScalarsIs
<1>11. /\ gn \in [1..n -> Points] /\ hn \in [1..n -> Points]
       /\ \A k \in 1..n : \A c \in Bases :
             /\ Same(gn[k][c], g[k][c] * d + g[n + k][c] * e, FR_MODULUS)
             /\ Same(hn[k][c], h[k][c] * e + h[n + k][c] * d, FR_MODULUS)
  BY <1>1, <1>2, <1>9, HalveIs
<1>12. Vectors(an, gn, bn, hn, n)
  BY <1>10, <1>11 DEF Vectors
<1>13. PICK pn : pn = FoldCommitments(p, l, r, e)
  OBVIOUS
<1>14. /\ pn \in Points
       /\ \A c \in Bases : Same(pn[c], p[c] + (e * e) * l[c] + (d * d) * r[c], FR_MODULUS)
  BY <1>8, <1>13, FoldCommitmentsIs
<1>15. ASSUME e # 0, p = Cross(a, g, b, h) PROVE pn = Cross(an, gn, bn, hn)
  <2>1. PICK q : q = Cross(an, gn, bn, hn)
    OBVIOUS
  <2>2. /\ q \in Points
        /\ \A c \in Bases : Same(q[c], SumOf(CrossTerms(an, gn, bn, hn, n, c), n), FR_MODULUS)
    BY <1>12, <2>1, CrossIs
  <2>3. \A c \in Bases : Same(p[c], SumOf(CrossTerms(a, g, b, h, 2 * n, c), 2 * n), FR_MODULUS)
    BY <1>15, CrossIs
  <2>4. Same(e * d, 1, FR_MODULUS)
    BY <1>15, ScInvIs
  <2>5. ASSUME NEW c \in Bases PROVE Same(pn[c], q[c], FR_MODULUS)
    <3> DEFINE m == FR_MODULUS
               ta == CrossTerms(a, g, b, h, 2 * n, c)
               t1 == [k \in 1..n |-> ta[k]]
               t2 == [k \in 1..n |-> ta[n + k]]
               tl == CrossTerms(al, gu, bu, hl, n, c)
               tr == CrossTerms(au, gl, bl, hu, n, c)
               tn == CrossTerms(an, gn, bn, hn, n, c)
               s1 == [k \in 1..n |-> t1[k] + t2[k]]
               s2 == [k \in 1..n |-> s1[k] + (e * e) * tl[k]]
    <3>1. ASSUME NEW k \in 1..n
          PROVE  /\ t1[k] \in Int /\ t2[k] \in Int /\ tl[k] \in Int /\ tr[k] \in Int /\ tn[k] \in Int
                 /\ t1[k] = ta[k] /\ t2[k] = ta[n + k] /\ ta[k] \in Int /\ ta[n + k] \in Int
                 /\ Same(tn[k], (t1[k] + t2[k]) + (e * e) * tl[k] + (d * d) * tr[k], m)
      <4>1. k \in 1..(2 * n) /\ n + k \in 1..(2 * n)
        BY <1>4
      <4>2. PICK q1 \in Int, g1 \in Int, a1 \in Int, h1 \in Int, b1 \in Int :
               /\ q1 = HBlind[c] /\ g1 = g[k][c] /\ a1 = a[k] /\ h1 = h[k][c] /\ b1 = b[k]
               /\ ta[k] = Term(g1, a1, h1, b1, q1) /\ ta[k] \in Int
        BY <4>1, TermsAre
      <4>3. PICK g2 \in Int, a2 \in Int, h2 \in Int, b2 \in Int :
               /\ g2 = g[n + k][c] /\ a2 = a[n + k] /\ h2 = h[n + k][c] /\ b2 = b[n + k]
               /\ ta[n + k] = Term(g2, a2, h2, b2, q1) /\ ta[n + k] \in Int
        <5>1. PICK j \in 1..(2 * n) : j = n + k
          BY <4>1
        <5>2. /\ g[j][c] \in Int /\ a[j] \in Int /\ h[j][c] \in Int /\ b[j] \in Int
              /\ ta[j] = Term(g[j][c], a[j], h[j][c], b[j], HBlind[c]) /\ ta[j] \in Int
          BY TermsAre
        <5> HIDE DEF ta
        <5> QED BY <4>2, <5>1, <5>2
      <4>4. tl[k] = Term(g2, a1, h1, b2, q1) /\ tl[k] \in Int
        <5>1. /\ tl[k] = Term(gu[k][c], al[k], hl[k][c], bu[k], HBlind[c]) /\ tl[k] \in Int
          BY <1>6, TermsAre
        <5> HIDE DEF tl
        <5> QED BY <1>4, <1>5, <4>2, <4>3, <5>1
      <4>5. tr[k] = Term(g1, a2, h2, b1, q1) /\ tr[k] \in Int
        <5>1. /\ tr[k] = Term(gl[k][c], au[k], hu[k][c], bl[k], HBlind[c]) /\ tr[k] \in Int
          BY <1>6, TermsAre
        <5> HIDE DEF tr
        <5> QED BY <1>4, <1>5, <4>2, <4>3, <5>1
      <4>6. PICK gx \in Int, ax \in Int, hx \in Int, bx \in Int :
               /\ gx = gn[k][c] /\ ax = an[k] /\ hx = hn[k][c] /\ bx = bn[k]
               /\ tn[k] = Term(gx, ax, hx, bx, q1) /\ tn[k] \in Int
        <5>1. /\ gn[k][c] \in Int /\ an[k] \in Int /\ hn[k][c] \in Int /\ bn[k] \in Int
              /\ tn[k] = Term(gn[k][c], an[k], hn[k][c], bn[k], HBlind[c]) /\ tn[k] \in Int
          BY <1>12, TermsAre
        <5> HIDE DEF tn
        <5> QED BY <4>2, <5>1
      <4>7. /\ Same(gx, g1 * d + g2 * e, FR_MODULUS) /\ Same(ax, a1 * e + a2 * d, FR_MODULUS)
            /\ Same(hx, h1 * e + h2 * d, FR_MODULUS) /\ Same(bx, b1 * d + b2 * e, FR_MODULUS)
        BY <1>10, <1>11, <4>2, <4>3, <4>6
      <4>8. Same(Term(gx, ax, hx, bx, q1),
                 (Term(g1, a1, h1, b1, q1) + Term(g2, a2, h2, b2, q1))
                   + (e * e) * Term(g2, a1, h1, b2, q1) + (d * d) * Term(g1, a2, h2, b1, q1),
                 FR_MODULUS)
        BY <1>2, <2>4, <4>7, RoundTerm
      <4>9. t1[k] = ta[k] /\ t2[k] = ta[n + k]
        <5> HIDE DEF ta
        <5> QED OBVIOUS
      <4> HIDE DEF ta, t1, t2, tl, tr, tn
      <4> QED BY <4>2, <4>3, <4>4, <4>5, <4>6, <4>8, <4>9 DEF m
    <3>2. PICK ee \in Int, dd \in Int : ee = e * e /\ dd = d * d
      BY <1>2
    <3>3. ASSUME NEW k \in 1..n
          PROVE  /\ s1[k] \in Int /\ s2[k] \in Int
                 /\ s1[k] = 1 * t1[k] + 1 * t2[k] /\ s2[k] = 1 * s1[k] + ee * tl[k]
                 /\ Same(tn[k], 1 * s2[k] + dd * tr[k], m)
      <4>1. PICK v1 \in Int, v2 \in Int, vl \in Int, vr \in Int :
               v1 = t1[k] /\ v2 = t2[k] /\ vl = tl[k] /\ vr = tr[k]
               /\ Same(tn[k], (v1 + v2) + ee * vl + dd * vr, m)
        <5> HIDE DEF ta, t1, t2, tl, tr, tn
        <5> QED BY <3>1, <3>2
      <4> HIDE DEF ta, t1, t2, tl, tr, tn
      <4>2. s1[k] = v1 + v2
        BY <4>1
      <4>3. s2[k] = s1[k] + ee * vl
        <5> HIDE DEF s1
        <5> QED BY <3>2, <4>1
      <4> HIDE DEF s1, s2
      <4>4. PICK el \in Int, dr \in Int : el = ee * vl /\ dr = dd * vr
        OBVIOUS
      <4>5. s2[k] = v1 + v2 + el /\ Same(tn[k], (v1 + v2) + el + dr, m)
        BY <4>1, <4>2, <4>3, <4>4
      <4> QED BY <4>1, <4>2, <4>3, <4>4, <4>5
    <3>4. SumOf(ta, 2 * n) = SumOf(t1, n) + SumOf(t2, n)
      <4> HIDE DEF ta, t1, t2
      <4>1. SumOf(ta, n + n) = SumOf(t1, n) + SumOf(t2, n)
        <5>1. \A k \in 1..n : ta[k] \in Int /\ t1[k] = ta[k]
          BY <3>1
        <5>2. \A k \in 1..n : ta[n + k] \in Int /\ t2[k] = ta[n + k]
          BY <3>1
        <5> QED BY <5>1, <5>2, SumSplits
      <4>2. n + n = 2 * n
        OBVIOUS
      <4> QED BY <4>1, <4>2
    <3>5. /\ Same(l[c], SumOf(tl, n), m) /\ Same(r[c], SumOf(tr, n), m) /\ Same(p[c], SumOf(ta, 2 * n), m)
          /\ Same(q[c], SumOf(tn, n), m) /\ Same(pn[c], p[c] + ee * l[c] + dd * r[c], m)
          /\ m \in Nat
      BY <1>2, <1>8, <1>14, <2>2, <2>3, <3>2
    <3> HIDE DEF ta, t1, t2, tl, tr, tn, s1, s2, m
    <3>6. PICK z1 \in Int, z2 \in Int, zl \in Int, zr \in Int, zn \in Int, y1 \in Int, y2 \in Int :
             /\ z1 = SumOf(t1, n) /\ z2 = SumOf(t2, n) /\ zl = SumOf(tl, n) /\ zr = SumOf(tr, n)
             /\ zn = SumOf(tn, n) /\ y1 = SumOf(s1, n) /\ y2 = SumOf(s2, n)
      BY <3>1, <3>3, SumStep
    <3>7. Same(y1, 1 * z1 + 1 * z2, m)
      <4>1. \A k \in 1..n : /\ s1[k] \in Int /\ t1[k] \in Int /\ t2[k] \in Int
                            /\ Same(s1[k], 1 * t1[k] + 1 * t2[k], m)
        BY <3>1, <3>3, <3>5, SameChain
      <4>2. 1 \in Int
        OBVIOUS
      <4> QED BY <3>5, <3>6, <4>1, <4>2, SumIsLinear
    <3>8. Same(y2, 1 * y1 + ee * zl, m)
      <4>1. \A k \in 1..n : /\ s2[k] \in Int /\ s1[k] \in Int /\ tl[k] \in Int
                            /\ Same(s2[k], 1 * s1[k] + ee * tl[k], m)
        BY <3>1, <3>3, <3>5, SameChain
      <4>2. 1 \in Int
        OBVIOUS
      <4> QED BY <3>2, <3>5, <3>6, <4>1, <4>2, SumIsLinear
    <3>9. Same(zn, 1 * y2 + dd * zr, m)
      <4>1. \A k \in 1..n : /\ tn[k] \in Int /\ s2[k] \in Int /\ tr[k] \in Int
                            /\ Same(tn[k], 1 * s2[k] + dd * tr[k], m)
        BY <3>1, <3>3
      <4>2. 1 \in Int
        OBVIOUS
      <4> QED BY <3>2, <3>5, <3>6, <4>1, <4>2, SumIsLinear
    <3>10. PICK lc \in Int, rc \in Int, pc \in Int, qc \in Int, nc \in Int :
              lc = l[c] /\ rc = r[c] /\ pc = p[c] /\ qc = q[c] /\ nc = pn[c]
      <4>1. PICK u1 \in Scalar, u2 \in Scalar, u3 \in Scalar, u4 \in Scalar, u5 \in Scalar :
               u1 = l[c] /\ u2 = r[c] /\ u3 = p[c] /\ u4 = q[c] /\ u5 = pn[c]
        BY <1>8, <1>14, <2>2 DEF Points
      <4>2. u1 \in Int /\ u2 \in Int /\ u3 \in Int /\ u4 \in Int /\ u5 \in Int
        BY ScalarFacts
      <4> QED BY <4>1, <4>2
    <3>11. Same(pc, z1 + z2, m) /\ Same(y1, z1 + z2, m)
      BY <3>4, <3>5, <3>6, <3>7, <3>10
    <3>12. Same(pc, y1, m)
      <4>1. PICK z \in Int : z = z1 + z2
        OBVIOUS
      <4> QED BY <3>5, <3>11, <4>1, SameChain
    <3>13. PICK w1 \in Int, w2 \in Int, w3 \in Int, w4 \in Int :
              /\ w1 = pc + lc * ee /\ w2 = y1 + zl * ee
              /\ w3 = w1 + rc * dd /\ w4 = y2 + zr * dd
      OBVIOUS
    <3>14. Same(w1, w2, m) /\ Same(y2, w2, m)
      <4>1. Same(lc, zl, m)
        BY <3>5, <3>6, <3>10
      <4>2. Same(pc + lc * ee, y1 + zl * ee, m)
        BY <3>5, <3>12, <4>1, SameScaledSum
      <4>3. 1 * y1 + ee * zl = y1 + zl * ee
        OBVIOUS
      <4> QED BY <3>8, <3>13, <4>2, <4>3
    <3>15. Same(w1, y2, m)
      BY <3>5, <3>14, SameChain
    <3>16. Same(w3, w4, m) /\ Same(zn, w4, m)
      <4>1. Same(rc, zr, m)
        BY <3>5, <3>6, <3>10
      <4>2. Same(w1 + rc * dd, y2 + zr * dd, m)
        BY <3>5, <3>15, <4>1, SameScaledSum
      <4>3. 1 * y2 + dd * zr = y2 + zr * dd
        OBVIOUS
      <4> QED BY <3>9, <3>13, <4>2, <4>3
    <3>17. Same(nc, w3, m) /\ Same(qc, zn, m)
      <4>1. pc + ee * lc + dd * rc = w3
        BY <3>13
      <4> QED BY <3>5, <3>6, <3>10, <4>1
    <3>18. Same(nc, w4, m) /\ Same(qc, w4, m)
      BY <3>5, <3>16, <3>17, SameChain
    <3>19. Same(nc, qc, m)
      BY <3>5, <3>18, SameChain
    <3> QED BY <3>10, <3>19 DEF m
  <2> QED BY <1>14, <2>1, <2>2, <2>5, PointIs
<1> QED BY <1>8, <1>9, <1>12, <1>13, <1>14, <1>15


-----------------------------------------------------------------------------
(* What the prover evaluates.                                               *)

(* A place of the inner product of the two vectors: bit is zero or one.     *)
LEMMA PlaceOfProduct ==
  ASSUME NEW m \in Nat, NEW z \in Int, NEW e \in Int, NEW bit \in {0, 1}, NEW right \in Int,
         NEW yk \in Int, NEW sl \in Int, NEW two \in Int,
         NEW br \in Int, NEW bs \in Int, NEW lk \in Int, NEW rk \in Int,
         Same(right, bit - 1, m), Same(br, yk * right + z * yk + (z * z) * two, m),
         Same(lk, bit - z + e * sl, m), Same(rk, br + e * bs, m)
  PROVE  Same(lk * rk, ((z - z * z) * yk + (z * z) * (bit * two) - ((z * z) * z) * two)
                         + (e * (bit * bs) + e * (sl * br) - (e * z) * bs + (e * e) * (sl * bs)), m)
<1> DEFINE left == bit - z
           c0 == (z - z * z) * yk + (z * z) * (bit * two) - ((z * z) * z) * two
           c1 == e * (bit * bs) + e * (sl * br) - (e * z) * bs + (e * e) * (sl * bs)
<1>1. left \in Int /\ c0 \in Int /\ c1 \in Int /\ bit \in Int
  OBVIOUS
<1>2. Same(left * br, c0, m)
  <2>1. PICK yr \in Int, yb \in Int, w \in Int : yr = yk * right /\ yb = yk * (bit - 1)
                                                /\ w = z * yk + (z * z) * two
    OBVIOUS
  <2>2. Same(yr, yb, m)
    <3>1. PICK b1 \in Int : b1 = bit - 1
      BY <1>1
    <3>2. Same(yk * right, yk * b1, m)
      BY <3>1, SameTimes
    <3> QED BY <2>1, <3>1, <3>2
  <2>3. Same(yr + w, yb + w, m)
    BY <2>2, SameChain, SameSum
  <2>4. Same(br, yb + w, m)
    <3>1. yk * right + z * yk + (z * z) * two = yr + w
      BY <2>1
    <3>2. yr + w \in Int /\ yb + w \in Int /\ Same(br, yr + w, m)
      BY <3>1
    <3> QED BY <2>3, <3>2, SameChain
  <2>5. Same(left * br, left * (yb + w), m)
    <3>1. PICK u \in Int : u = yb + w
      OBVIOUS
    <3> HIDE DEF left
    <3> QED BY <1>1, <2>4, <3>1, SameTimes
  <2>6. left * (yb + w) = c0
    <3>1. CASE bit = 0
      <4>1. (0 - z) * (yk * (0 - 1) + (z * yk + (z * z) * two))
              = (z - z * z) * yk + (z * z) * (0 * two) - ((z * z) * z) * two
        BY Z3
      <4> QED BY <2>1, <3>1, <4>1
    <3>2. CASE bit = 1
      <4>1. (1 - z) * (yk * (1 - 1) + (z * yk + (z * z) * two))
              = (z - z * z) * yk + (z * z) * (1 * two) - ((z * z) * z) * two
        BY Z3
      <4> QED BY <2>1, <3>2, <4>1
    <3> QED BY <3>1, <3>2
  <2> QED BY <2>5, <2>6
<1>3. Same(lk * rk, left * br + c1, m)
  <2>1. (left + e * sl) * (br + e * bs) = left * br + c1
    <3>1. ((bit - z) + e * sl) * (br + e * bs)
            = (bit - z) * br
               + (e * (bit * bs) + e * (sl * br) - (e * z) * bs + (e * e) * (sl * bs))
      BY <1>1, Z3
    <3> QED BY <3>1
  <2>2. PICK u \in Int, v \in Int : u = left + e * sl /\ v = br + e * bs
    BY <1>1
  <2>3. Same(lk, u, m) /\ Same(rk, v, m)
    BY <2>2
  <2>4. Same(lk * rk, u * v, m)
    BY <2>3, SameProduct
  <2> HIDE DEF left, c1
  <2> QED BY <2>1, <2>2, <2>4
<1>4. Same(lk * rk, c0 + c1, m)
  <2>1. PICK u \in Int, v \in Int : u = left * br /\ v = lk * rk
    BY <1>1
  <2> HIDE DEF left, c0, c1
  <2>2. Same(u + c1, c0 + c1, m)
    BY <1>1, <1>2, <2>1, SameChain, SameSum
  <2>3. u + c1 \in Int /\ c0 + c1 \in Int /\ Same(v, u + c1, m)
    BY <1>1, <1>3, <2>1
  <2> QED BY <2>1, <2>2, <2>3, SameChain
<1> QED BY <1>4

(* A place of the generators H, with the powers of the inverse of y taken   *)
(* off again.                                                               *)
LEMMA PlaceOfCommitment ==
  ASSUME NEW m \in Nat, NEW z \in Int, NEW e \in Int, NEW hk \in Int, NEW ht \in Int, NEW yk \in Int,
         NEW inv \in Int, NEW right \in Int, NEW sr \in Int, NEW two \in Int,
         NEW br \in Int, NEW bs \in Int, NEW rk \in Int,
         Same(ht, hk * inv, m), Same(yk * inv, 1, m),
         Same(br, yk * right + z * yk + (z * z) * two, m), Same(bs, yk * sr, m),
         Same(rk, br + e * bs, m)
  PROVE  Same(ht * rk, (hk * right + e * (hk * sr)) + (z * hk + (z * z) * (ht * two)), m)
<1>1. PICK a \in Int, w \in Int : a = right + z + e * sr /\ w = (z * z) * two
  OBVIOUS
<1>2. Same(rk, yk * a + w, m)
  <2>1. PICK b1 \in Int, b2 \in Int, ys \in Int : b1 = yk * right + z * yk + (z * z) * two
                                                  /\ ys = yk * sr /\ b2 = b1 + ys * e
    OBVIOUS
  <2>2. Same(br, b1, m) /\ Same(bs, ys, m)
    BY <2>1
  <2>3. Same(br + bs * e, b2, m)
    BY <2>1, <2>2, SameScaledSum
  <2>4. PICK u \in Int : u = br + bs * e
    OBVIOUS
  <2>5. Same(rk, u, m)
    <3>1. br + e * bs = u
      BY <2>4
    <3> QED BY <3>1
  <2>6. Same(rk, b2, m)
    BY <2>3, <2>4, <2>5, SameChain
  <2>7. b2 = yk * a + w
    <3>1. (yk * right + z * yk + (z * z) * two) + (yk * sr) * e
            = yk * (right + z + e * sr) + (z * z) * two
      BY Z3
    <3> QED BY <1>1, <2>1, <3>1
  <2> QED BY <2>6, <2>7
<1>3. Same(ht * yk, hk, m)
  <2>1. PICK hi \in Int, yi \in Int, v \in Int : hi = hk * inv /\ yi = yk * inv /\ v = ht * yk
    OBVIOUS
  <2>2. Same(v, hi * yk, m)
    BY <2>1, SameTimes
  <2>3. hi * yk = hk * yi
    <3>1. (hk * inv) * yk = hk * (yk * inv)
      BY Z3
    <3> QED BY <2>1, <3>1
  <2>4. Same(hk * yi, hk * 1, m)
    <3>1. Same(yi, 1, m) /\ 1 \in Int
      BY <2>1
    <3> QED BY <3>1, SameTimes
  <2>5. hi * yk \in Int /\ hk * yi \in Int /\ hk * 1 = hk
    OBVIOUS
  <2> QED BY <2>1, <2>2, <2>3, <2>4, <2>5, SameChain
<1>4. PICK hy \in Int, ya \in Int, hw \in Int, v \in Int :
         hy = ht * yk /\ ya = yk * a /\ hw = ht * w /\ v = ht * rk
  OBVIOUS
<1>5. Same(v, ht * (ya + w), m)
  <2>1. PICK u \in Int : u = ya + w
    OBVIOUS
  <2> QED BY <1>2, <1>4, <2>1, SameTimes
<1>6. ht * (ya + w) = hy * a + hw
  <2>1. ht * (yk * a + w) = (ht * yk) * a + ht * w
    BY Z3
  <2> QED BY <1>4, <2>1
<1>7. Same(hy * a + hw, hk * a + hw, m)
  <2>1. Same(hy * a, hk * a, m)
    BY <1>3, <1>4, SameTimes
  <2>2. PICK u1 \in Int, u2 \in Int : u1 = hy * a /\ u2 = hk * a
    OBVIOUS
  <2> QED BY <2>1, <2>2, SameChain, SameSum
<1>8. Same(v, hk * a + hw, m)
  <2>1. PICK u1 \in Int, u2 \in Int : u1 = hy * a + hw /\ u2 = hk * a + hw
    OBVIOUS
  <2> QED BY <1>5, <1>6, <1>7, <2>1, SameChain
<1>9. hk * a + hw = (hk * right + e * (hk * sr)) + (z * hk + (z * z) * (ht * two))
  <2>1. hk * (right + z + e * sr) + ht * ((z * z) * two)
          = (hk * right + e * (hk * sr)) + (z * hk + (z * z) * (ht * two))
    BY Z3
  <2> QED BY <1>1, <1>4, <2>1
<1> QED BY <1>4, <1>8, <1>9


(* A combination of four sums.                                              *)
LEMMA SumOfFour ==
  ASSUME NEW m \in Nat, NEW n \in Nat, NEW a \in Int, NEW b \in Int, NEW c \in Int, NEW d \in Int,
         NEW h, NEW f1, NEW f2, NEW f3, NEW f4,
         \A k \in 1..n : /\ h[k] \in Int /\ f1[k] \in Int /\ f2[k] \in Int /\ f3[k] \in Int /\ f4[k] \in Int
                         /\ Same(h[k], (a * f1[k] + b * f2[k]) + (c * f3[k] + d * f4[k]), m)
  PROVE  Same(SumOf(h, n), (a * SumOf(f1, n) + b * SumOf(f2, n)) + (c * SumOf(f3, n) + d * SumOf(f4, n)), m)
<1> DEFINE u == [k \in 1..n |-> a * f1[k] + b * f2[k]]
           w == [k \in 1..n |-> c * f3[k] + d * f4[k]]
<1>1. \A k \in 1..n : /\ h[k] \in Int /\ f1[k] \in Int /\ f2[k] \in Int /\ f3[k] \in Int /\ f4[k] \in Int
  OBVIOUS
<1>2. ASSUME NEW k \in 1..n
      PROVE  /\ u[k] \in Int /\ w[k] \in Int /\ u[k] = a * f1[k] + b * f2[k]
             /\ w[k] = c * f3[k] + d * f4[k] /\ Same(h[k], 1 * u[k] + 1 * w[k], m)
  <2>1. u[k] = a * f1[k] + b * f2[k] /\ w[k] = c * f3[k] + d * f4[k]
    OBVIOUS
  <2>2. PICK v1 \in Int, v2 \in Int : v1 = a * f1[k] + b * f2[k] /\ v2 = c * f3[k] + d * f4[k]
    BY <1>1
  <2>3. 1 * v1 + 1 * v2 = v1 + v2
    OBVIOUS
  <2> HIDE DEF u, w
  <2> QED BY <2>1, <2>2, <2>3
<1> HIDE DEF u, w
<1>3. \A k \in 1..n : Same(u[k], a * f1[k] + b * f2[k], m) /\ Same(w[k], c * f3[k] + d * f4[k], m)
  BY <1>2, SameChain
<1>4. Same(SumOf(u, n), a * SumOf(f1, n) + b * SumOf(f2, n), m)
  BY <1>1, <1>2, <1>3, SumIsLinear
<1>5. Same(SumOf(w, n), c * SumOf(f3, n) + d * SumOf(f4, n), m)
  BY <1>1, <1>2, <1>3, SumIsLinear
<1>6. Same(SumOf(h, n), 1 * SumOf(u, n) + 1 * SumOf(w, n), m)
  <2>1. 1 \in Int
    OBVIOUS
  <2> QED BY <1>1, <1>2, <2>1, SumIsLinear
<1>7. PICK s \in Int, s1 \in Int, s2 \in Int, s3 \in Int, s4 \in Int, su \in Int, sw \in Int :
         /\ s = SumOf(h, n) /\ s1 = SumOf(f1, n) /\ s2 = SumOf(f2, n) /\ s3 = SumOf(f3, n)
         /\ s4 = SumOf(f4, n) /\ su = SumOf(u, n) /\ sw = SumOf(w, n)
  <2>1. SumOf(h, n) \in Int
    BY <1>1, SumStep
  <2>2. SumOf(f1, n) \in Int
    BY <1>1, SumStep
  <2>3. SumOf(f2, n) \in Int
    BY <1>1, SumStep
  <2>4. SumOf(f3, n) \in Int
    BY <1>1, SumStep
  <2>5. SumOf(f4, n) \in Int
    BY <1>1, SumStep
  <2>6. SumOf(u, n) \in Int
    BY <1>2, SumStep
  <2>7. SumOf(w, n) \in Int
    BY <1>2, SumStep
  <2> QED BY <2>1, <2>2, <2>3, <2>4, <2>5, <2>6, <2>7
<1>8. PICK v1 \in Int, v2 \in Int : v1 = a * s1 + b * s2 /\ v2 = c * s3 + d * s4
  OBVIOUS
<1>9. Same(su, v1, m) /\ Same(sw, v2, m) /\ Same(s, su + sw, m)
  BY <1>4, <1>5, <1>6, <1>7, <1>8
<1>10. Same(su + sw, v1 + v2, m)
  BY <1>9, SameSum
<1>11. Same(s, v1 + v2, m)
  <2>1. su + sw \in Int /\ v1 + v2 \in Int
    OBVIOUS
  <2> QED BY <1>9, <1>10, <2>1, SameChain
<1> QED BY <1>7, <1>8, <1>11

(* The length of the vectors.                                               *)
LEMMA Length ==
  /\ BITS \in Nat /\ BITS > 0 /\ BITS = TwoTo[IP_ROUNDS] /\ BITS <= 2 * HalfBits
  /\ IP_ROUNDS \in 0..(2 * HalfBits) /\ IP_ROUNDS \in Nat /\ 2 * HalfBits \in Nat
  /\ \A k \in Index : k \in 1..BITS /\ k - 1 \in 0..(2 * HalfBits)
<1>1. /\ BITS = TwoTo[IP_ROUNDS] /\ BITS <= 2 * HalfBits /\ IP_ROUNDS \in 0..(2 * HalfBits)
  BY RangeAssumption
<1>2. BITS \in Nat /\ BITS > 0
  BY <1>1, TwoToFacts
<1> QED BY <1>1, <1>2, WidthType DEF Index

(* The powers, one by one.                                                  *)
LEMMA PowersAre ==
  ASSUME NEW base \in Scalar
  PROVE  /\ Powers(base) \in [Index -> Scalar] /\ Powers(base)[1] = 1
         /\ \A k \in Index : k > 1 => k - 1 \in Index /\ Powers(base)[k] = ScMul(Powers(base)[k - 1], base)
<1> DEFINE Step(f, k) == IF k = 1 THEN 1 ELSE ScMul(f[k - 1], base)
           G == [k \in 1..BITS |-> [v \in Scalar |-> ScMul(v, base)]]
<1>1. \A v \in Scalar : ScMul(v, base) \in Scalar
  BY ScalarFacts, ScMulIs
<1>2. G \in [1..BITS -> [Scalar -> Scalar]] /\ 1 \in Scalar /\ BITS \in Nat
  BY <1>1, ScalarFacts, Length
<1>3. PICK f0 : Recurs(f0, Scalar, 1, BITS, G)
  <2> HIDE DEF G
  <2> QED BY <1>2, Recursion
<1>4. f0 \in [0..BITS -> Scalar] /\ f0[0] = 1 /\ \A k \in 1..BITS : f0[k] = ScMul(f0[k - 1], base)
  <2>1. f0 \in [0..BITS -> Scalar] /\ f0[0] = 1 /\ \A k \in 1..BITS : f0[k] = G[k][f0[k - 1]]
    <3> HIDE DEF G
    <3> QED BY <1>3 DEF Recurs
  <2>2. ASSUME NEW k \in 1..BITS PROVE f0[k] = ScMul(f0[k - 1], base)
    <3>1. k - 1 \in 0..BITS
      BY Length
    <3>2. f0[k - 1] \in Scalar
      BY <2>1, <3>1
    <3> QED BY <2>1, <3>2
  <2> QED BY <2>1, <2>2
<1> HIDE DEF G
<1> DEFINE f1 == [k \in 1..(BITS + 1) |-> f0[k - 1]]
<1>5. f1 = [k \in 1..(BITS + 1) |-> Step(f1, k)]
  <2>1. ASSUME NEW k \in 1..(BITS + 1) PROVE f0[k - 1] = Step(f1, k)
    <3>1. CASE k = 1
      BY <1>4, <3>1
    <3>2. CASE k # 1
      <4>1. k - 1 \in 1..BITS /\ k - 1 \in 1..(BITS + 1) /\ k - 1 - 1 = (k - 1) - 1
        BY <3>2, Length
      <4>2. f1[k - 1] = f0[(k - 1) - 1]
        BY <4>1
      <4>3. f0[k - 1] = ScMul(f0[(k - 1) - 1], base)
        BY <1>4, <4>1
      <4> HIDE DEF f1
      <4> QED BY <3>2, <4>2, <4>3
    <3> QED BY <3>1, <3>2
  <2> QED BY <2>1
<1> HIDE DEF f1
<1> DEFINE pw == CHOOSE p : p = [k \in 1..(BITS + 1) |-> Step(p, k)]
<1>6. pw = [k \in 1..(BITS + 1) |-> Step(pw, k)]
  <2> HIDE DEF Step
  <2> QED BY <1>5
<1>7. Powers(base) = [k \in Index |-> pw[k]]
  BY DEF Powers
<1> HIDE DEF pw
<1>8. \A k \in Index : pw[k] = Step(pw, k)
  <2>1. \A k \in Index : k \in 1..(BITS + 1)
    BY Length DEF Index
  <2> HIDE DEF Step
  <2> QED BY <1>6, <2>1
<1>9. \A k \in Index : k > 1 => k - 1 \in Index
  BY Length DEF Index
<1>10. 1 \in Index
  BY Length DEF Index
<1> DEFINE Q == {k \in Nat : k + 1 <= BITS => pw[k + 1] \in Scalar}
<1>11. 0 \in Q
  BY <1>8, <1>10, ScalarFacts
<1>12. ASSUME NEW k \in Q PROVE k + 1 \in Q
  <2>1. CASE (k + 1) + 1 <= BITS
    <3>1. (k + 1) + 1 \in Index /\ (k + 1) + 1 # 1 /\ ((k + 1) + 1) - 1 = k + 1 /\ k + 1 <= BITS
      BY <2>1, Length DEF Index
    <3>2. pw[k + 1] \in Scalar
      BY <3>1
    <3>3. pw[(k + 1) + 1] = ScMul(pw[k + 1], base)
      BY <1>8, <3>1
    <3> QED BY <1>1, <3>2, <3>3
  <2> QED BY <2>1
<1>13. Q = Nat
  <2>1. Q \in SUBSET Nat
    OBVIOUS
  <2> HIDE DEF Q
  <2> QED BY <1>11, <1>12, <2>1, Inductive
<1>14. ASSUME NEW k \in Index PROVE pw[k] \in Scalar
  <2>1. PICK j \in Nat : j + 1 = k /\ j + 1 <= BITS
    <3>1. k - 1 \in Nat /\ (k - 1) + 1 = k /\ k <= BITS
      BY Length DEF Index
    <3> QED BY <3>1
  <2>2. j \in Q
    BY <1>13
  <2> QED BY <2>1, <2>2
<1> QED BY <1>7, <1>8, <1>9, <1>10, <1>14


(* The powers of two, and those of a number and of its inverse.             *)
LEMMA DoublingPowers ==
  \A k \in Index : Same(Powers(2)[k], TwoTo[k - 1], FR_MODULUS) /\ TwoTo[k - 1] \in Nat
<1>1. 2 \in Scalar /\ 2 \in Int /\ FR_MODULUS \in Nat
  BY ScalarFacts DEF Scalar
<1> DEFINE P == Powers(2)
           Q == {k \in Nat : k + 1 <= BITS => Same(P[k + 1], TwoTo[k], FR_MODULUS)}
<1>2. /\ P \in [Index -> Scalar] /\ P[1] = 1
      /\ \A k \in Index : k > 1 => k - 1 \in Index /\ P[k] = ScMul(P[k - 1], 2)
  BY <1>1, PowersAre
<1> HIDE DEF P
<1>3. 0 \in Q
  <2>1. 1 \in Int /\ Same(1, 1, FR_MODULUS)
    BY <1>1, SameChain
  <2> QED BY <1>2, <2>1, TwoToFacts
<1>4. ASSUME NEW k \in Q PROVE k + 1 \in Q
  <2>1. CASE (k + 1) + 1 <= BITS
    <3>1. PICK j \in Nat : j = k + 1 /\ j + 1 \in Index /\ j \in Index /\ j + 1 > 1 /\ (j + 1) - 1 = j
                           /\ k + 1 <= BITS /\ j \in 1..(2 * HalfBits) /\ j - 1 = k /\ k \in 0..(2 * HalfBits)
      BY <2>1, Length DEF Index
    <3>2. P[j + 1] = ScMul(P[j], 2)
      BY <1>2, <3>1
    <3>3. PICK u \in Scalar : u = P[j] /\ u \in Int
      BY <1>2, <3>1, ScalarFacts
    <3>4. PICK v \in Scalar : v = P[j + 1] /\ v = ScMul(u, 2) /\ v \in Int
      <4>1. PICK v \in Scalar : v = P[j + 1]
        BY <1>2, <3>1
      <4>2. v = ScMul(u, 2)
        BY <3>2, <3>3, <4>1
      <4> QED BY <4>1, <4>2, ScalarFacts
    <3>5. PICK w \in Int : w = TwoTo[k]
      BY <3>1, TwoToFacts
    <3>6. TwoTo[j] = 2 * w
      BY <3>1, <3>5, TwoToFacts
    <3>7. Same(u, w, FR_MODULUS)
      BY <2>1, <3>1, <3>3, <3>5
    <3>8. Same(v, u * 2, FR_MODULUS) /\ Same(u * 2, w * 2, FR_MODULUS)
      BY <1>1, <3>3, <3>4, <3>7, ScMulIs, SameTimes
    <3>9. PICK u2 \in Int, w2 \in Int : u2 = u * 2 /\ w2 = w * 2
      BY <3>3
    <3>10. Same(v, w2, FR_MODULUS)
      BY <1>1, <3>4, <3>8, <3>9, SameChain
    <3>11. TwoTo[j] = w2
      BY <3>6, <3>9
    <3>12. Same(P[(k + 1) + 1], TwoTo[k + 1], FR_MODULUS)
      BY <3>1, <3>4, <3>10, <3>11
    <3> QED BY <3>12
  <2> QED BY <2>1
<1>5. Q = Nat
  <2>1. Q \in SUBSET Nat
    OBVIOUS
  <2> HIDE DEF Q
  <2> QED BY <1>3, <1>4, <2>1, Inductive
<1>6. ASSUME NEW k \in Index PROVE Same(P[k], TwoTo[k - 1], FR_MODULUS) /\ TwoTo[k - 1] \in Nat
  <2>1. PICK j \in Nat : j = k - 1 /\ j + 1 = k /\ j + 1 <= BITS /\ j \in 0..(2 * HalfBits)
    BY Length DEF Index
  <2>2. j \in Q
    BY <1>5
  <2> QED BY <2>1, <2>2, TwoToFacts
<1> QED BY <1>6 DEF P

LEMMA PowersCancel ==
  ASSUME NEW w \in Scalar, w # 0
  PROVE  \A k \in Index : Same(Powers(w)[k] * Powers(ScInv[w])[k], 1, FR_MODULUS)
<1>1. PICK d \in Scalar : d = ScInv[w] /\ d \in Int /\ w \in Int /\ Same(w * d, 1, FR_MODULUS)
                          /\ FR_MODULUS \in Nat
  <2>1. PICK d : d = ScInv[w]
    OBVIOUS
  <2>2. d \in Scalar /\ Same(w * d, 1, FR_MODULUS)
    BY <2>1, ScInvIs
  <2> QED BY <2>1, <2>2, ScalarFacts
<1> DEFINE P == Powers(w)
           V == Powers(d)
           Q == {k \in Nat : k + 1 <= BITS => Same(P[k + 1] * V[k + 1], 1, FR_MODULUS)}
<1>2. /\ P \in [Index -> Scalar] /\ P[1] = 1
      /\ \A k \in Index : k > 1 => k - 1 \in Index /\ P[k] = ScMul(P[k - 1], w)
  BY PowersAre
<1>3. /\ V \in [Index -> Scalar] /\ V[1] = 1
      /\ \A k \in Index : k > 1 => k - 1 \in Index /\ V[k] = ScMul(V[k - 1], d)
  BY PowersAre
<1> HIDE DEF P, V
<1>4. 0 \in Q
  <2>1. 1 \in Int /\ Same(1, 1, FR_MODULUS) /\ 1 * 1 = 1
    BY <1>1, SameChain
  <2> QED BY <1>2, <1>3, <2>1
<1>5. ASSUME NEW k \in Q PROVE k + 1 \in Q
  <2>1. CASE (k + 1) + 1 <= BITS
    <3>1. PICK j \in Nat : j = k + 1 /\ j + 1 \in Index /\ j \in Index /\ j + 1 > 1 /\ (j + 1) - 1 = j
                           /\ k + 1 <= BITS
      BY <2>1, Length DEF Index
    <3>2. P[j + 1] = ScMul(P[j], w) /\ V[j + 1] = ScMul(V[j], d)
      BY <1>2, <1>3, <3>1
    <3>3. PICK u \in Scalar, v \in Scalar : u = P[j] /\ v = V[j] /\ u \in Int /\ v \in Int
      BY <1>2, <1>3, <3>1, ScalarFacts
    <3>4. PICK u1 \in Scalar, v1 \in Scalar :
             /\ u1 = P[j + 1] /\ v1 = V[j + 1] /\ u1 = ScMul(u, w) /\ v1 = ScMul(v, d)
             /\ u1 \in Int /\ v1 \in Int
      <4>1. PICK u1 \in Scalar, v1 \in Scalar : u1 = P[j + 1] /\ v1 = V[j + 1]
        BY <1>2, <1>3, <3>1
      <4>2. u1 = ScMul(u, w) /\ v1 = ScMul(v, d)
        BY <3>2, <3>3, <4>1
      <4> QED BY <4>1, <4>2, ScalarFacts
    <3>5. PICK uw \in Int, vd \in Int, uv \in Int, wd \in Int, out \in Int :
             uw = u * w /\ vd = v * d /\ uv = u * v /\ wd = w * d /\ out = u1 * v1
      <4>1. u * w \in Int /\ v * d \in Int /\ u * v \in Int /\ w * d \in Int /\ u1 * v1 \in Int
        BY <1>1, <3>3, <3>4
      <4> QED BY <4>1, Zenon
    <3>6. Same(u1, uw, FR_MODULUS) /\ Same(v1, vd, FR_MODULUS)
      BY <1>1, <3>3, <3>4, <3>5, ScMulIs
    <3>7. Same(out, uw * vd, FR_MODULUS)
      BY <1>1, <3>4, <3>5, <3>6, SameProduct
    <3>8. uw * vd = uv * wd
      <4>1. (u * w) * (v * d) = (u * v) * (w * d)
        BY <1>1, <3>3, Z3
      <4> QED BY <3>5, <4>1
    <3>9. Same(uv, 1, FR_MODULUS) /\ Same(wd, 1, FR_MODULUS)
      BY <1>1, <2>1, <3>1, <3>3, <3>5
    <3>10. Same(uv * wd, 1 * 1, FR_MODULUS)
      <4>1. 1 \in Int
        OBVIOUS
      <4> QED BY <1>1, <3>9, <4>1, SameProduct
    <3>11. Same(out, 1, FR_MODULUS)
      <4>1. uw * vd \in Int /\ 1 * 1 = 1
        OBVIOUS
      <4> QED BY <1>1, <3>7, <3>8, <3>10, <4>1, SameChain
    <3> QED BY <3>1, <3>4, <3>5, <3>11
  <2> QED BY <2>1
<1>6. Q = Nat
  <2>1. Q \in SUBSET Nat
    OBVIOUS
  <2> HIDE DEF Q
  <2> QED BY <1>4, <1>5, <2>1, Inductive
<1>7. ASSUME NEW k \in Index PROVE Same(P[k] * V[k], 1, FR_MODULUS)
  <2>1. PICK j \in Nat : j = k - 1 /\ j + 1 = k /\ j + 1 <= BITS
    BY Length DEF Index
  <2>2. j \in Q
    BY <1>6
  <2> QED BY <2>1, <2>2
<1> QED BY <1>1, <1>7 DEF P, V

(* The bits of a number, weighted, and the weights alone.                   *)
BitOf(v, k) == (v \div TwoTo[k - 1]) % 2

LEMMA BitsAre ==
  ASSUME NEW v \in Nat, NEW k \in 1..(2 * HalfBits)
  PROVE  /\ BitOf(v, k) \in {0, 1} /\ TwoTo[k - 1] \in Nat
         /\ v % TwoTo[k] = (v % TwoTo[k - 1]) + BitOf(v, k) * TwoTo[k - 1]
<1>1. PICK d \in Nat : d = TwoTo[k - 1] /\ d > 0 /\ TwoTo[k] = 2 * d
  <2>1. k - 1 \in 0..(2 * HalfBits)
    BY WidthType
  <2> QED BY <2>1, TwoToFacts
<1>2. PICK bit : bit = BitOf(v, k)
  OBVIOUS
<1>3. bit = (v \div d) % 2
  BY <1>1, <1>2 DEF BitOf
<1>4. bit \in 0..1
  <2>1. PICK u \in Int : u = v \div d
    BY <1>1, DivMod
  <2>2. u % 2 \in 0..1
    BY <2>1
  <2> QED BY <1>3, <2>1, <2>2
<1>5. v % (2 * d) = (v % d) + d * bit
  BY <1>1, <1>3, <1>4, NextBit
<1>6. d * bit = bit * d /\ bit \in {0, 1}
  BY <1>1, <1>4
<1> QED BY <1>1, <1>2, <1>5, <1>6

LEMMA SumsOfBits ==
  ASSUME NEW v \in Nat, v < TwoTo[BITS]
  PROVE  /\ SumOf([k \in Index |-> BitOf(v, k) * TwoTo[k - 1]], BITS) = v
         /\ SumOf([k \in Index |-> TwoTo[k - 1]], BITS) = TwoTo[BITS] - 1
<1> DEFINE f == [k \in Index |-> BitOf(v, k) * TwoTo[k - 1]]
           g == [k \in Index |-> TwoTo[k - 1]]
           Q == {n \in Nat : n <= BITS => /\ SumOf(f, n) = v % TwoTo[n]
                                          /\ SumOf(g, n) = TwoTo[n] - 1}
<1>1. ASSUME NEW k \in Index
      PROVE  /\ f[k] \in Int /\ g[k] \in Int /\ v % TwoTo[k] = (v % TwoTo[k - 1]) + f[k]
             /\ g[k] = TwoTo[k - 1] /\ TwoTo[k] = 2 * TwoTo[k - 1] /\ k \in 0..(2 * HalfBits)
             /\ TwoTo[k - 1] \in Nat /\ TwoTo[k - 1] > 0
  <2>1. k \in 1..(2 * HalfBits) /\ k \in 0..(2 * HalfBits) /\ k - 1 \in 0..(2 * HalfBits)
    BY Length DEF Index
  <2>2. PICK d \in Nat, bit \in {0, 1} :
           /\ d = TwoTo[k - 1] /\ bit = BitOf(v, k) /\ v % TwoTo[k] = (v % TwoTo[k - 1]) + bit * d
           /\ d > 0 /\ TwoTo[k] = 2 * d
    BY <2>1, BitsAre, TwoToFacts
  <2>3. f[k] = bit * d /\ g[k] = d /\ bit * d \in Int
    BY <2>2
  <2> HIDE DEF f, g
  <2> QED BY <2>1, <2>2, <2>3
<1> HIDE DEF f, g
<1>2. 0 \in Q
  <2>1. SumOf(f, 0) = 0 /\ SumOf(g, 0) = 0 /\ TwoTo[0] = 1 /\ v % 1 = 0
    BY SumStep, TwoToFacts
  <2> QED BY <2>1
<1>3. ASSUME NEW n \in Q PROVE n + 1 \in Q
  <2>1. CASE n + 1 <= BITS
    <3>1. PICK e \in Nat : e = n + 1 /\ e \in Index /\ e - 1 = n /\ e > 0 /\ \A k \in 1..e : k \in Index
                           /\ n <= BITS
      BY <2>1, Length DEF Index
    <3>2. SumOf(f, e) = SumOf(f, e - 1) + f[e]
      <4>1. \A k \in 1..e : f[k] \in Int
        BY <1>1, <3>1
      <4> QED BY <3>1, <4>1, SumStep
    <3>3. SumOf(g, e) = SumOf(g, e - 1) + g[e]
      <4>1. \A k \in 1..e : g[k] \in Int
        BY <1>1, <3>1
      <4> QED BY <3>1, <4>1, SumStep
    <3>4. SumOf(f, n) = v % TwoTo[n] /\ SumOf(g, n) = TwoTo[n] - 1
      BY <3>1
    <3>5. /\ v % TwoTo[e] = (v % TwoTo[n]) + f[e] /\ g[e] = TwoTo[n] /\ TwoTo[e] = 2 * TwoTo[n]
          /\ TwoTo[n] \in Nat
      BY <1>1, <3>1
    <3>6. SumOf(f, e) = v % TwoTo[e]
      BY <3>1, <3>2, <3>4, <3>5
    <3>7. SumOf(g, e) = TwoTo[e] - 1
      BY <3>1, <3>3, <3>4, <3>5
    <3> QED BY <3>1, <3>6, <3>7
  <2> QED BY <2>1
<1>4. Q = Nat
  <2>1. Q \in SUBSET Nat
    OBVIOUS
  <2> HIDE DEF Q
  <2> QED BY <1>2, <1>3, <2>1, Inductive
<1>5. v % TwoTo[BITS] = v
  <2>1. PICK d \in Nat : d = TwoTo[BITS] /\ d > 0 /\ v < d
    BY Length, TwoToFacts
  <2>2. v = d * 0 + v /\ v \in 0..(d - 1) /\ 0 \in Int
    BY <2>1
  <2> QED BY <2>1, <2>2, DivModIs
<1>6. SumOf(f, BITS) = v % TwoTo[BITS] /\ SumOf(g, BITS) = TwoTo[BITS] - 1
  <2>1. BITS \in Q /\ BITS \in Nat /\ BITS <= BITS
    BY <1>4, Length
  <2> QED BY <2>1
<1> QED BY <1>5, <1>6 DEF f, g


(* The vectors of the prover, for a value, a stream and challenges.         *)
BitsOf(v) == [k \in Index |-> BitOf(v, k)]
RightOf(v) == [k \in Index |-> IF BitOf(v, k) = 0 THEN FR_MODULUS - 1 ELSE 0]
BaseROf(v, w, z) ==
    [k \in Index |-> ScAdd(ScAdd(ScMul(Powers(w)[k], RightOf(v)[k]), ScMul(z, Powers(w)[k])),
                           ScMul(ScMul(z, z), Powers(2)[k]))]
BaseRsOf(st, w) == [k \in Index |-> ScMul(Powers(w)[k], st.sR[k])]
LeftAt(v, st, z, e) == [k \in Index |-> ScAdd(ScSub(BitOf(v, k), z), ScMul(e, st.sL[k]))]
RightAt(v, st, w, z, e) == [k \in Index |-> ScAdd(BaseROf(v, w, z)[k], ScMul(e, BaseRsOf(st, w)[k]))]

(* What a place of them is congruent to.                                    *)
Place(v, st, w, z, e, k, bit, right, yk, sl, sr, two, br, bs, lk, rk) ==
    /\ bit = BitsOf(v)[k] /\ right = RightOf(v)[k] /\ yk = Powers(w)[k] /\ two = Powers(2)[k]
    /\ sl = st.sL[k] /\ sr = st.sR[k] /\ br = BaseROf(v, w, z)[k] /\ bs = BaseRsOf(st, w)[k]
    /\ lk = LeftAt(v, st, z, e)[k] /\ rk = RightAt(v, st, w, z, e)[k]
    /\ Same(right, bit - 1, FR_MODULUS)
    /\ Same(br, yk * right + z * yk + (z * z) * two, FR_MODULUS) /\ Same(bs, yk * sr, FR_MODULUS)
    /\ Same(lk, bit - z + e * sl, FR_MODULUS) /\ Same(rk, br + e * bs, FR_MODULUS)

(* Sums of scalars, one of them a product.                                  *)
LEMMA ScAddMulIs ==
  ASSUME NEW a \in Scalar, NEW u \in Int, Same(a, u, FR_MODULUS), NEW b \in Scalar, NEW c \in Scalar
  PROVE  /\ ScAdd(a, ScMul(b, c)) \in Scalar
         /\ Same(ScAdd(a, ScMul(b, c)), u + b * c, FR_MODULUS)
<1>1. PICK w : w = ScMul(b, c)
  OBVIOUS
<1>2. a \in Int /\ b \in Int /\ c \in Int /\ FR_MODULUS \in Nat
  BY ScalarFacts
<1>3. PICK bc \in Int : bc = b * c
  BY <1>2
<1>4. w \in Scalar /\ Same(w, bc, FR_MODULUS)
  BY <1>1, <1>2, <1>3, ScMulIs
<1>5. PICK s : s = ScAdd(a, w)
  OBVIOUS
<1>6. s \in Scalar /\ Same(s, a + w, FR_MODULUS)
  BY <1>4, <1>5, ScAddIs
<1>7. w \in Int /\ s \in Int
  BY <1>4, <1>6, ScalarFacts
<1>8. Same(a + w, u + bc, FR_MODULUS)
  BY <1>2, <1>4, <1>7, SameSum
<1>9. Same(s, u + bc, FR_MODULUS)
  <2>1. a + w \in Int /\ u + bc \in Int
    BY <1>2, <1>7
  <2> QED BY <1>2, <1>6, <1>7, <1>8, <2>1, SameChain
<1> QED BY <1>1, <1>3, <1>5, <1>6, <1>9

HasPlace(v, st, w, z, e, k) ==
    \E bit \in {0, 1}, right \in Scalar, yk \in Scalar, sl \in Scalar, sr \in Scalar,
       two \in Scalar, br \in Scalar, bs \in Scalar, lk \in Scalar, rk \in Scalar :
      Place(v, st, w, z, e, k, bit, right, yk, sl, sr, two, br, bs, lk, rk)

LEMMA PlacesAre ==
  ASSUME NEW v \in Nat, NEW st \in ScalarStreams, NEW w \in Scalar, NEW z \in Scalar, NEW e \in Scalar,
         NEW k \in Index
  PROVE  HasPlace(v, st, w, z, e, k)
<1>1. PICK bit \in {0, 1} : bit = BitOf(v, k)
  <2>1. k \in 1..(2 * HalfBits)
    BY Length
  <2> QED BY <2>1, BitsAre
<1>2. bit \in Scalar /\ bit \in Int /\ z \in Int /\ e \in Int /\ FR_MODULUS \in Nat /\ 2 \in Scalar
  BY ScalarFacts DEF Scalar
<1>3. bit = BitsOf(v)[k]
  BY <1>1 DEF BitsOf
<1>4. PICK right \in Scalar : right = RightOf(v)[k] /\ Same(right, bit - 1, FR_MODULUS)
  <2>1. RightOf(v)[k] = IF bit = 0 THEN FR_MODULUS - 1 ELSE 0
    BY <1>1 DEF RightOf
  <2>2. CASE bit = 0
    <3>1. FR_MODULUS - 1 \in Scalar
      BY ScalarFacts DEF Scalar
    <3>2. FR_MODULUS - 1 = (0 - 1) + FR_MODULUS * 1
      BY <1>2
    <3>3. Same(FR_MODULUS - 1, 0 - 1, FR_MODULUS)
      BY <3>2 DEF Same
    <3> QED BY <2>1, <2>2, <3>1, <3>3
  <2>3. CASE bit # 0
    <3>1. bit - 1 = 0 /\ 0 \in Int
      BY <2>3
    <3>2. Same(0, 0, FR_MODULUS)
      BY <1>2, <3>1, SameChain
    <3> QED BY <2>1, <2>3, <3>1, <3>2, ScalarFacts
  <2> QED BY <2>2, <2>3
<1>5. PICK yk \in Scalar, two \in Scalar : yk = Powers(w)[k] /\ two = Powers(2)[k]
  BY <1>2, PowersAre
<1>6. PICK sl \in Scalar, sr \in Scalar : sl = st.sL[k] /\ sr = st.sR[k]
  BY DEF ScalarStreams
<1>7. /\ yk \in Int /\ two \in Int /\ sl \in Int /\ sr \in Int /\ right \in Int
  BY ScalarFacts
<1>8. PICK br \in Scalar : br = BaseROf(v, w, z)[k]
                           /\ Same(br, yk * right + z * yk + (z * z) * two, FR_MODULUS)
  <2>1. BaseROf(v, w, z)[k] = ScAdd(ScAdd(ScMul(yk, right), ScMul(z, yk)), ScMul(ScMul(z, z), two))
    BY <1>4, <1>5 DEF BaseROf
  <2>2. PICK a1 : a1 = ScMul(yk, right)
    OBVIOUS
  <2>3. PICK yr \in Int, zz \in Int, zy \in Int : yr = yk * right /\ zz = z * z /\ zy = z * yk
    BY <1>2, <1>7
  <2>4. a1 \in Scalar /\ Same(a1, yr, FR_MODULUS)
    BY <1>7, <2>2, <2>3, ScMulIs
  <2>5. PICK a2 : a2 = ScAdd(a1, ScMul(z, yk))
    OBVIOUS
  <2>6. a2 \in Scalar /\ Same(a2, yr + zy, FR_MODULUS)
    BY <2>3, <2>4, <2>5, ScAddMulIs
  <2>7. PICK s : s = ScMul(z, z)
    OBVIOUS
  <2>8. s \in Scalar /\ Same(s, zz, FR_MODULUS)
    BY <1>2, <2>3, <2>7, ScMulIs
  <2>9. PICK u \in Int : u = yr + zy
    OBVIOUS
  <2>10. PICK br : br = ScAdd(a2, ScMul(s, two))
    OBVIOUS
  <2>11. br \in Scalar /\ Same(br, u + s * two, FR_MODULUS)
    BY <2>6, <2>8, <2>9, <2>10, ScAddMulIs
  <2>12. s \in Int /\ br \in Int
    BY <2>8, <2>11, ScalarFacts
  <2>13. Same(s * two, zz * two, FR_MODULUS)
    BY <1>2, <1>7, <2>8, <2>12, SameTimes
  <2>14. PICK p1 \in Int, p2 \in Int : p1 = s * two /\ p2 = zz * two
    BY <1>7, <2>12
  <2>15. Same(u + p1, u + p2, FR_MODULUS)
    <3>1. Same(p1, p2, FR_MODULUS) /\ Same(u, u, FR_MODULUS)
      BY <1>2, <2>13, <2>14, SameChain
    <3> QED BY <1>2, <3>1, SameSum
  <2>16. Same(br, u + p2, FR_MODULUS)
    <3>1. u + p1 \in Int /\ u + p2 \in Int /\ Same(br, u + p1, FR_MODULUS)
      BY <2>11, <2>14
    <3> QED BY <1>2, <2>12, <2>15, <3>1, SameChain
  <2>17. u + p2 = yk * right + z * yk + (z * z) * two
    BY <2>3, <2>9, <2>14
  <2> QED BY <2>1, <2>2, <2>5, <2>7, <2>10, <2>11, <2>16, <2>17
<1>9. PICK bs \in Scalar : bs = BaseRsOf(st, w)[k] /\ Same(bs, yk * sr, FR_MODULUS)
  <2>1. BaseRsOf(st, w)[k] = ScMul(yk, sr)
    BY <1>5, <1>6 DEF BaseRsOf
  <2>2. ScMul(yk, sr) \in Scalar /\ Same(ScMul(yk, sr), yk * sr, FR_MODULUS)
    BY <1>7, ScMulIs
  <2> QED BY <2>1, <2>2
<1>10. PICK lk \in Scalar : lk = LeftAt(v, st, z, e)[k] /\ Same(lk, bit - z + e * sl, FR_MODULUS)
  <2>1. LeftAt(v, st, z, e)[k] = ScAdd(ScSub(bit, z), ScMul(e, sl))
    BY <1>1, <1>6 DEF LeftAt
  <2>2. PICK a1 : a1 = ScSub(bit, z)
    OBVIOUS
  <2>3. PICK u \in Int : u = bit - z
    BY <1>2
  <2>4. a1 \in Scalar /\ Same(a1, u, FR_MODULUS)
    BY <1>2, <2>2, <2>3, ScSubIs
  <2>5. ScAdd(a1, ScMul(e, sl)) \in Scalar /\ Same(ScAdd(a1, ScMul(e, sl)), u + e * sl, FR_MODULUS)
    BY <2>4, ScAddMulIs
  <2> QED BY <2>1, <2>2, <2>3, <2>5
<1>11. PICK rk \in Scalar : rk = RightAt(v, st, w, z, e)[k] /\ Same(rk, br + e * bs, FR_MODULUS)
  <2>1. RightAt(v, st, w, z, e)[k] = ScAdd(br, ScMul(e, bs))
    BY <1>8, <1>9 DEF RightAt
  <2>2. br \in Int /\ Same(br, br, FR_MODULUS)
    BY <1>2, ScalarFacts, SameChain
  <2>3. ScAdd(br, ScMul(e, bs)) \in Scalar /\ Same(ScAdd(br, ScMul(e, bs)), br + e * bs, FR_MODULUS)
    BY <2>2, ScAddMulIs
  <2> QED BY <2>1, <2>3
<1>12. Place(v, st, w, z, e, k, bit, right, yk, sl, sr, two, br, bs, lk, rk)
  BY <1>3, <1>4, <1>5, <1>6, <1>8, <1>9, <1>10, <1>11 DEF Place
<1> QED BY <1>12 DEF HasPlace


(* The operations on scalars that are congruent to integers.                *)
LEMMA ScAddOf ==
  ASSUME NEW a \in Scalar, NEW b \in Scalar, NEW u \in Int, NEW v \in Int,
         Same(a, u, FR_MODULUS), Same(b, v, FR_MODULUS)
  PROVE  ScAdd(a, b) \in Scalar /\ Same(ScAdd(a, b), u + v, FR_MODULUS)
<1>1. PICK s : s = ScAdd(a, b)
  OBVIOUS
<1>2. s \in Scalar /\ Same(s, a + b, FR_MODULUS)
  BY <1>1, ScAddIs
<1>3. a \in Int /\ b \in Int /\ s \in Int /\ FR_MODULUS \in Nat
  BY <1>2, ScalarFacts
<1>4. Same(a + b, u + v, FR_MODULUS)
  BY <1>3, SameSum
<1>5. a + b \in Int /\ u + v \in Int
  BY <1>3
<1>6. Same(s, u + v, FR_MODULUS)
  BY <1>2, <1>3, <1>4, <1>5, SameChain
<1> QED BY <1>1, <1>2, <1>6

LEMMA ScSubOf ==
  ASSUME NEW a \in Scalar, NEW b \in Scalar, NEW u \in Int, NEW v \in Int,
         Same(a, u, FR_MODULUS), Same(b, v, FR_MODULUS)
  PROVE  ScSub(a, b) \in Scalar /\ Same(ScSub(a, b), u - v, FR_MODULUS)
<1>1. PICK s : s = ScSub(a, b)
  OBVIOUS
<1>2. s \in Scalar /\ Same(s, a - b, FR_MODULUS)
  BY <1>1, ScSubIs
<1>3. a \in Int /\ b \in Int /\ s \in Int /\ FR_MODULUS \in Nat
  BY <1>2, ScalarFacts
<1>4. PICK nb \in Int, nv \in Int : nb = b * (-1) /\ nv = v * (-1)
  BY <1>3
<1>5. Same(nb, nv, FR_MODULUS)
  <2>1. -1 \in Int
    OBVIOUS
  <2>2. Same(b * (-1), v * (-1), FR_MODULUS)
    BY <1>3, <2>1, SameTimes
  <2> QED BY <1>4, <2>2
<1>6. Same(a + nb, u + nv, FR_MODULUS)
  BY <1>3, <1>5, SameSum
<1>7. a + nb = a - b /\ u + nv = u - v /\ a - b \in Int /\ u - v \in Int
  BY <1>3, <1>4
<1>8. Same(s, u - v, FR_MODULUS)
  BY <1>2, <1>3, <1>6, <1>7, SameChain
<1> QED BY <1>1, <1>2, <1>8

LEMMA ScMulOf ==
  ASSUME NEW a \in Int, NEW b \in Int, NEW u \in Int, NEW v \in Int,
         Same(a, u, FR_MODULUS), Same(b, v, FR_MODULUS)
  PROVE  ScMul(a, b) \in Scalar /\ Same(ScMul(a, b), u * v, FR_MODULUS)
<1>1. PICK s : s = ScMul(a, b)
  OBVIOUS
<1>2. s \in Scalar /\ Same(s, a * b, FR_MODULUS)
  BY <1>1, ScMulIs
<1>3. s \in Int /\ FR_MODULUS \in Nat
  BY <1>2, ScalarFacts
<1>4. Same(a * b, u * v, FR_MODULUS)
  BY <1>3, SameProduct
<1>5. PICK p \in Int, q \in Int : p = a * b /\ q = u * v
  OBVIOUS
<1>6. Same(s, q, FR_MODULUS)
  BY <1>2, <1>3, <1>4, <1>5, SameChain
<1> QED BY <1>1, <1>2, <1>5, <1>6

LEMMA ScSame ==
  ASSUME NEW a \in Scalar
  PROVE  a \in Int /\ Same(a, a, FR_MODULUS)
<1>1. a \in Int /\ FR_MODULUS \in Nat
  BY ScalarFacts
<1> QED BY <1>1, SameChain

(* The coefficients of t(X) that the prover commits to, the sum of the      *)
(* powers and what the verifier computes from it.                           *)
Ones == [k \in Index |-> 1]
SumT1(v, st, w, z) ==
    ScSub(ScAdd(InnerProd(BitsOf(v), BaseRsOf(st, w)), InnerProd(st.sL, BaseROf(v, w, z))),
          ScMul(z, InnerProd(Ones, BaseRsOf(st, w))))
SumT2(st, w) == InnerProd(st.sL, BaseRsOf(st, w))
Delta(w, z) ==
    ScSub(ScMul(ScSub(z, ScMul(z, z)), InnerProd(Ones, Powers(w))),
          ScMul(ScMul(ScMul(z, z), z), (TwoTo[BITS] - 1) % FR_MODULUS))

LEMMA TOneIs ==
  ASSUME NEW a \in Scalar, NEW b \in Scalar, NEW c \in Scalar, NEW z \in Scalar,
         NEW u \in Int, NEW v \in Int, NEW w \in Int,
         Same(a, u, FR_MODULUS), Same(b, v, FR_MODULUS), Same(c, w, FR_MODULUS)
  PROVE  /\ ScSub(ScAdd(a, b), ScMul(z, c)) \in Scalar
         /\ Same(ScSub(ScAdd(a, b), ScMul(z, c)), (u + v) - z * w, FR_MODULUS)
<1>1. z \in Int /\ c \in Int /\ Same(z, z, FR_MODULUS)
  BY ScSame
<1>2. PICK s : s = ScAdd(a, b)
  OBVIOUS
<1>3. s \in Scalar /\ Same(s, u + v, FR_MODULUS)
  BY <1>2, ScAddOf
<1>4. PICK p : p = ScMul(z, c)
  OBVIOUS
<1>5. p \in Scalar /\ Same(p, z * w, FR_MODULUS)
  BY <1>1, <1>4, ScMulOf
<1>6. PICK uv \in Int, zw \in Int : uv = u + v /\ zw = z * w
  BY <1>1
<1>7. ScSub(s, p) \in Scalar /\ Same(ScSub(s, p), uv - zw, FR_MODULUS)
  BY <1>3, <1>5, <1>6, ScSubOf
<1> QED BY <1>2, <1>4, <1>6, <1>7

LEMMA DeltaIs ==
  ASSUME NEW z \in Scalar, NEW s \in Scalar, NEW d \in Int
  PROVE  /\ ScMul(z, z) \in Scalar
         /\ ScSub(ScMul(ScSub(z, ScMul(z, z)), s), ScMul(ScMul(ScMul(z, z), z), d % FR_MODULUS)) \in Scalar
         /\ Same(ScSub(ScMul(ScSub(z, ScMul(z, z)), s), ScMul(ScMul(ScMul(z, z), z), d % FR_MODULUS)),
                 (z - z * z) * s - ((z * z) * z) * d, FR_MODULUS)
<1>1. z \in Int /\ s \in Int /\ Same(z, z, FR_MODULUS) /\ Same(s, s, FR_MODULUS)
  BY ScSame
<1>2. PICK zz \in Int : zz = z * z
  BY <1>1
<1>3. PICK z2 : z2 = ScMul(z, z)
  OBVIOUS
<1>4. z2 \in Scalar /\ Same(z2, zz, FR_MODULUS) /\ z2 \in Int
  <2>1. z2 \in Scalar /\ Same(z2, zz, FR_MODULUS)
    BY <1>1, <1>2, <1>3, ScMulOf
  <2> QED BY <2>1, ScalarFacts
<1>5. PICK p : p = ScSub(z, z2)
  OBVIOUS
<1>6. p \in Scalar /\ Same(p, z - zz, FR_MODULUS) /\ p \in Int
  <2>1. p \in Scalar /\ Same(p, z - zz, FR_MODULUS)
    BY <1>1, <1>4, <1>5, ScSubOf
  <2> QED BY <2>1, ScalarFacts
<1>7. PICK u \in Int : u = z - zz
  BY <1>1
<1>8. PICK q : q = ScMul(p, s)
  OBVIOUS
<1>9. q \in Scalar /\ Same(q, u * s, FR_MODULUS)
  BY <1>1, <1>6, <1>7, <1>8, ScMulOf
<1>10. PICK z3 : z3 = ScMul(z2, z)
  OBVIOUS
<1>11. z3 \in Scalar /\ Same(z3, zz * z, FR_MODULUS) /\ z3 \in Int
  <2>1. z3 \in Scalar /\ Same(z3, zz * z, FR_MODULUS)
    BY <1>1, <1>4, <1>10, ScMulOf
  <2> QED BY <2>1, ScalarFacts
<1>12. PICK dm : dm = d % FR_MODULUS
  OBVIOUS
<1>13. dm \in Scalar /\ Same(dm, d, FR_MODULUS) /\ dm \in Int
  <2>1. dm \in Scalar /\ Same(dm, d, FR_MODULUS)
    BY <1>12, ResidueIsScalar
  <2> QED BY <2>1, ScalarFacts
<1>14. PICK zzz \in Int : zzz = zz * z
  BY <1>1
<1>15. PICK o : o = ScMul(z3, dm)
  OBVIOUS
<1>16. o \in Scalar /\ Same(o, zzz * d, FR_MODULUS)
  BY <1>11, <1>13, <1>14, <1>15, ScMulOf
<1>17. PICK us \in Int, zd \in Int : us = u * s /\ zd = zzz * d
  BY <1>1
<1>18. ScSub(q, o) \in Scalar /\ Same(ScSub(q, o), us - zd, FR_MODULUS)
  BY <1>9, <1>16, <1>17, ScSubOf
<1> QED BY <1>2, <1>3, <1>4, <1>5, <1>7, <1>8, <1>10, <1>12, <1>14, <1>15, <1>17, <1>18

(* The inner product of the vectors is the polynomial that the prover       *)
(* committed to: its constant part is z squared times the value and what    *)
(* the verifier knows.                                                      *)
LEMMA EvaluationIdentity ==
  ASSUME NEW v \in Nat, v < TwoTo[BITS], NEW st \in ScalarStreams, NEW w \in Scalar,
         NEW z \in Scalar, NEW e \in Scalar
  PROVE  /\ LeftAt(v, st, z, e) \in [Index -> Scalar] /\ RightAt(v, st, w, z, e) \in [Index -> Scalar]
         /\ InnerProd(LeftAt(v, st, z, e), RightAt(v, st, w, z, e)) \in Scalar
         /\ SumT1(v, st, w, z) \in Scalar /\ SumT2(st, w) \in Scalar /\ Delta(w, z) \in Scalar
         /\ Same(InnerProd(LeftAt(v, st, z, e), RightAt(v, st, w, z, e)),
                 (Delta(w, z) + (z * z) * v) + (e * SumT1(v, st, w, z) + (e * e) * SumT2(st, w)),
                 FR_MODULUS)
<1> DEFINE m == FR_MODULUS
           n == BITS
           lv == LeftAt(v, st, z, e)
           rv == RightAt(v, st, w, z, e)
           bv == BitsOf(v)
           brv == BaseROf(v, w, z)
           bsv == BaseRsOf(st, w)
           yv == Powers(w)
           tv == Powers(2)
           f0 == [k \in 1..n |-> lv[k] * rv[k]]
           f1 == [k \in 1..n |-> Ones[k] * yv[k]]
           f2 == [k \in 1..n |-> bv[k] * tv[k]]
           f3 == [k \in 1..n |-> tv[k]]
           f4 == [k \in 1..n |-> bv[k] * bsv[k]]
           f5 == [k \in 1..n |-> st.sL[k] * brv[k]]
           f6 == [k \in 1..n |-> Ones[k] * bsv[k]]
           f7 == [k \in 1..n |-> st.sL[k] * bsv[k]]
           c1 == z - z * z
           c2 == z * z
           c3 == -((z * z) * z)
           d3 == -(e * z)
           d4 == e * e
           u == [k \in 1..n |-> (c1 * f1[k] + c2 * f2[k]) + (c3 * f3[k] + 0 * f3[k])]
           o == [k \in 1..n |-> (e * f4[k] + e * f5[k]) + (d3 * f6[k] + d4 * f7[k])]
<1>1. /\ n \in Nat /\ m \in Nat /\ z \in Int /\ e \in Int /\ Index = 1..n /\ 2 \in Scalar
      /\ \A k \in 1..n : k \in Index /\ Ones[k] = 1
  BY ScalarFacts, Length DEF Index, Scalar, Ones
<1>2. c1 \in Int /\ c2 \in Int /\ c3 \in Int /\ d3 \in Int /\ d4 \in Int
  BY <1>1
<1>3. /\ lv \in [Index -> Scalar] /\ rv \in [Index -> Scalar]
      /\ yv \in [Index -> Scalar] /\ tv \in [Index -> Scalar]
      /\ bv \in [Index -> Scalar] /\ brv \in [Index -> Scalar] /\ bsv \in [Index -> Scalar]
      /\ st.sL \in [Index -> Scalar]
  <2>1. \A k \in Index : /\ lv[k] \in Scalar /\ rv[k] \in Scalar /\ bv[k] \in Scalar
                         /\ brv[k] \in Scalar /\ bsv[k] \in Scalar
    <3>1. {0, 1} \subseteq Scalar
      BY ScalarFacts
    <3> HIDE DEF lv, rv, bv, brv, bsv
    <3>2. ASSUME NEW k \in Index
          PROVE  /\ lv[k] \in Scalar /\ rv[k] \in Scalar /\ bv[k] \in {0, 1}
                 /\ brv[k] \in Scalar /\ bsv[k] \in Scalar
      <4>1. HasPlace(v, st, w, z, e, k)
        BY PlacesAre
      <4>2. PICK bit \in {0, 1}, right \in Scalar, yk \in Scalar, sl \in Scalar, sr \in Scalar,
                two \in Scalar, br \in Scalar, bs \in Scalar, lk \in Scalar, rk \in Scalar :
               Place(v, st, w, z, e, k, bit, right, yk, sl, sr, two, br, bs, lk, rk)
        BY <4>1 DEF HasPlace
      <4> QED BY <4>2 DEF Place, lv, rv, bv, brv, bsv
    <3> QED BY <3>1, <3>2
  <2>2. /\ lv = [k \in Index |-> lv[k]] /\ rv = [k \in Index |-> rv[k]] /\ bv = [k \in Index |-> bv[k]]
        /\ brv = [k \in Index |-> brv[k]] /\ bsv = [k \in Index |-> bsv[k]]
    BY DEF LeftAt, RightAt, BitsOf, BaseROf, BaseRsOf
  <2>3. yv \in [Index -> Scalar] /\ tv \in [Index -> Scalar]
    BY <1>1, PowersAre
  <2>4. st.sL \in [Index -> Scalar]
    BY DEF ScalarStreams
  <2> HIDE DEF lv, rv, bv, brv, bsv, yv, tv
  <2> QED BY <2>1, <2>2, <2>3, <2>4
<1>4. ASSUME NEW k \in 1..n
      PROVE  /\ f0[k] \in Int /\ f1[k] \in Int /\ f2[k] \in Int /\ f3[k] \in Int /\ f4[k] \in Int
             /\ f5[k] \in Int /\ f6[k] \in Int /\ f7[k] \in Int /\ u[k] \in Int /\ o[k] \in Int
             /\ u[k] = (c1 * f1[k] + c2 * f2[k]) + (c3 * f3[k] + 0 * f3[k])
             /\ o[k] = (e * f4[k] + e * f5[k]) + (d3 * f6[k] + d4 * f7[k])
             /\ Same(f0[k], 1 * u[k] + 1 * o[k], m)
             /\ Same(f2[k], BitOf(v, k) * TwoTo[k - 1], m) /\ Same(f3[k], TwoTo[k - 1], m)
             /\ BitOf(v, k) * TwoTo[k - 1] \in Int /\ TwoTo[k - 1] \in Int
  <2>1. k \in Index /\ Ones[k] = 1
    BY <1>1
  <2>2. PICK bit \in {0, 1}, right \in Scalar, yk \in Scalar, sl \in Scalar, sr \in Scalar,
            two \in Scalar, br \in Scalar, bs \in Scalar, lk \in Scalar, rk \in Scalar :
           Place(v, st, w, z, e, k, bit, right, yk, sl, sr, two, br, bs, lk, rk)
    <3>1. HasPlace(v, st, w, z, e, k)
      BY <2>1, PlacesAre
    <3> QED BY <3>1 DEF HasPlace
  <2>3. /\ right \in Int /\ yk \in Int /\ sl \in Int /\ sr \in Int /\ two \in Int /\ br \in Int
        /\ bs \in Int /\ lk \in Int /\ rk \in Int /\ bit \in Int
    BY ScalarFacts
  <2>4. /\ bit = bv[k] /\ yk = yv[k] /\ two = tv[k] /\ sl = st.sL[k] /\ br = brv[k] /\ bs = bsv[k]
        /\ lk = lv[k] /\ rk = rv[k]
    BY <2>2 DEF Place
  <2>5. Same(lk * rk, ((z - z * z) * yk + (z * z) * (bit * two) - ((z * z) * z) * two)
                        + (e * (bit * bs) + e * (sl * br) - (e * z) * bs + (e * e) * (sl * bs)), m)
    <3>1. /\ Same(right, bit - 1, FR_MODULUS)
          /\ Same(br, yk * right + z * yk + (z * z) * two, FR_MODULUS)
          /\ Same(lk, bit - z + e * sl, FR_MODULUS) /\ Same(rk, br + e * bs, FR_MODULUS)
      BY <2>2 DEF Place
    <3> QED BY <1>1, <2>3, <3>1, PlaceOfProduct
  <2> HIDE DEF lv, rv, bv, brv, bsv, yv, tv
  <2>6. /\ f0[k] = lk * rk /\ f1[k] = yk /\ f2[k] = bit * two /\ f3[k] = two
        /\ f4[k] = bit * bs /\ f5[k] = sl * br /\ f6[k] = bs /\ f7[k] = sl * bs
    BY <2>1, <2>3, <2>4
  <2>7. /\ u[k] = (c1 * f1[k] + c2 * f2[k]) + (c3 * f3[k] + 0 * f3[k])
        /\ o[k] = (e * f4[k] + e * f5[k]) + (d3 * f6[k] + d4 * f7[k])
    <3> HIDE DEF f0, f1, f2, f3, f4, f5, f6, f7, c1, c2, c3, d3, d4
    <3> QED OBVIOUS
  <2>8. PICK g0 \in Int, g1 \in Int, g2 \in Int, g3 \in Int, g4 \in Int, g5 \in Int, g6 \in Int, g7 \in Int :
           /\ g0 = f0[k] /\ g1 = f1[k] /\ g2 = f2[k] /\ g3 = f3[k] /\ g4 = f4[k] /\ g5 = f5[k]
           /\ g6 = f6[k] /\ g7 = f7[k]
    <3>1. lk * rk \in Int /\ bit * two \in Int /\ bit * bs \in Int /\ sl * br \in Int /\ sl * bs \in Int
      BY <2>3
    <3> HIDE DEF f0, f1, f2, f3, f4, f5, f6, f7
    <3> QED BY <2>3, <2>6, <3>1
  <2> HIDE DEF f0, f1, f2, f3, f4, f5, f6, f7, u, o
  <2>9. Same(g0, (c1 * g1 + c2 * g2 + c3 * g3) + (e * g4 + e * g5 + d3 * g6 + d4 * g7), m)
    <3>1. ((z - z * z) * yk + (z * z) * (bit * two) - ((z * z) * z) * two)
             + (e * (bit * bs) + e * (sl * br) - (e * z) * bs + (e * e) * (sl * bs))
          = (c1 * g1 + c2 * g2 + c3 * g3) + (e * g4 + e * g5 + d3 * g6 + d4 * g7)
      <4>1. g1 = yk /\ g2 = bit * two /\ g3 = two /\ g4 = bit * bs /\ g5 = sl * br /\ g6 = bs /\ g7 = sl * bs
        BY <2>6, <2>8
      <4>2. ((z - z * z) * yk + (z * z) * g2 - ((z * z) * z) * two)
              + (e * g4 + e * g5 - (e * z) * bs + (e * e) * g7)
            = ((z - z * z) * yk + (z * z) * g2 + (-((z * z) * z)) * two)
               + (e * g4 + e * g5 + (-(e * z)) * bs + (e * e) * g7)
        <5>1. PICK zz \in Int, zzz \in Int, ez \in Int : zz = z * z /\ zzz = zz * z /\ ez = e * z
          BY <1>1
        <5>2. (-zzz) * two = -(zzz * two) /\ (-ez) * bs = -(ez * bs)
          BY <2>3
        <5>3. PICK a1 \in Int, a2 \in Int, a3 \in Int, a4 \in Int, a5 \in Int, a6 \in Int, a7 \in Int :
                 a1 = (z - zz) * yk /\ a2 = zz * g2 /\ a3 = zzz * two /\ a4 = e * g4 /\ a5 = e * g5
                 /\ a6 = ez * bs /\ a7 = (e * e) * g7
          <6>1. /\ (z - zz) * yk \in Int /\ zz * g2 \in Int /\ zzz * two \in Int /\ e * g4 \in Int
                /\ e * g5 \in Int /\ ez * bs \in Int /\ (e * e) * g7 \in Int
            BY <1>1, <2>3
          <6> QED BY <6>1, Zenon
        <5>4. (a1 + a2 - a3) + (a4 + a5 - a6 + a7) = (a1 + a2 + (-a3)) + (a4 + a5 + (-a6) + a7)
          OBVIOUS
        <5> QED BY <5>1, <5>2, <5>3, <5>4
      <4> QED BY <4>1, <4>2
    <3> QED BY <2>5, <2>6, <2>8, <3>1
  <2> HIDE DEF c1, c2, c3, d3, d4
  <2>10. PICK uk \in Int, ok \in Int : uk = u[k] /\ ok = o[k] /\ Same(g0, 1 * uk + 1 * ok, m)
    <3>1. PICK uk \in Int, ok \in Int : uk = (c1 * g1 + c2 * g2) + (c3 * g3 + 0 * g3)
                                        /\ ok = (e * g4 + e * g5) + (d3 * g6 + d4 * g7)
      <4>1. (c1 * g1 + c2 * g2) + (c3 * g3 + 0 * g3) \in Int /\ (e * g4 + e * g5) + (d3 * g6 + d4 * g7) \in Int
        BY <1>1, <1>2
      <4> QED BY <4>1, Zenon
    <3>2. 1 * uk + 1 * ok = (c1 * g1 + c2 * g2 + c3 * g3) + (e * g4 + e * g5 + d3 * g6 + d4 * g7)
      <4>1. PICK a1 \in Int, a2 \in Int, a3 \in Int, a4 \in Int, a5 \in Int, a6 \in Int, a7 \in Int :
               a1 = c1 * g1 /\ a2 = c2 * g2 /\ a3 = c3 * g3 /\ a4 = e * g4 /\ a5 = e * g5
               /\ a6 = d3 * g6 /\ a7 = d4 * g7
        <5>1. /\ c1 * g1 \in Int /\ c2 * g2 \in Int /\ c3 * g3 \in Int /\ e * g4 \in Int
              /\ e * g5 \in Int /\ d3 * g6 \in Int /\ d4 * g7 \in Int
          BY <1>1, <1>2
        <5> QED BY <5>1, Zenon
      <4> QED BY <3>1, <4>1
    <3>3. uk = u[k] /\ ok = o[k]
      BY <2>7, <2>8, <3>1
    <3> QED BY <2>9, <3>2, <3>3
  <2>11. /\ Same(two, TwoTo[k - 1], m) /\ TwoTo[k - 1] \in Int
    <3>1. Same(Powers(2)[k], TwoTo[k - 1], FR_MODULUS) /\ TwoTo[k - 1] \in Nat
      BY <2>1, DoublingPowers
    <3>2. two = Powers(2)[k]
      BY <2>4 DEF tv
    <3> QED BY <3>1, <3>2
  <2>12. bit = BitOf(v, k)
    <3>1. bit = BitsOf(v)[k]
      BY <2>4 DEF bv
    <3> QED BY <2>1, <3>1 DEF BitsOf
  <2>13. PICK t1 \in Int : t1 = TwoTo[k - 1]
    BY <2>11
  <2>14. Same(bit * two, bit * t1, m) /\ bit * t1 \in Int
    <3>1. ASSUME NEW b \in Int PROVE Same(b * two, b * t1, m) /\ b * t1 \in Int
      <4>1. Same(two, t1, m) /\ m \in Nat
        BY <1>1, <2>11, <2>13
      <4> HIDE DEF m
      <4>2. Same(b * two, b * t1, m)
        BY <2>3, <4>1, SameTimes
      <4> QED BY <4>2
    <3> QED BY <2>3, <3>1
  <2> QED BY <2>6, <2>7, <2>8, <2>10, <2>11, <2>12, <2>13, <2>14
<1>5. /\ InnerProd(lv, rv) \in Scalar /\ Same(InnerProd(lv, rv), SumOf(f0, n), m)
      /\ InnerProd(Ones, yv) \in Scalar /\ Same(InnerProd(Ones, yv), SumOf(f1, n), m)
      /\ InnerProd(bv, bsv) \in Scalar /\ Same(InnerProd(bv, bsv), SumOf(f4, n), m)
      /\ InnerProd(st.sL, brv) \in Scalar /\ Same(InnerProd(st.sL, brv), SumOf(f5, n), m)
      /\ InnerProd(Ones, bsv) \in Scalar /\ Same(InnerProd(Ones, bsv), SumOf(f6, n), m)
      /\ InnerProd(st.sL, bsv) \in Scalar /\ Same(InnerProd(st.sL, bsv), SumOf(f7, n), m)
  <2>1. ASSUME NEW a \in [Index -> Scalar], NEW b \in [Index -> Scalar]
        PROVE  /\ InnerProd(a, b) \in Scalar
               /\ Same(InnerProd(a, b), SumOf([k \in 1..n |-> a[k] * b[k]], n), m)
    <3>1. Len(a) = n /\ n \in Nat
      BY <1>1, VectorLength
    <3>2. \A k \in 1..n : a[k] \in Int /\ b[k] \in Int
      <4>1. \A k \in 1..n : a[k] \in Scalar /\ b[k] \in Scalar
        BY <1>1
      <4> QED BY <4>1, ScalarFacts
    <3> QED BY <3>1, <3>2, InnerProdIs
  <2>2. Ones \in [Index -> Scalar]
    BY ScalarFacts DEF Ones
  <2> HIDE DEF lv, rv, bv, brv, bsv, yv, tv
  <2> QED BY <1>3, <2>1, <2>2
<1> HIDE DEF f0, f1, f2, f3, f4, f5, f6, f7, u, o, c1, c2, c3, d3, d4, lv, rv, bv, brv, bsv, yv, tv
<1>6. PICK s0 \in Int, s1 \in Int, s2 \in Int, s3 \in Int, s4 \in Int, s5 \in Int, s6 \in Int, s7 \in Int,
           su \in Int, so \in Int :
         /\ s0 = SumOf(f0, n) /\ s1 = SumOf(f1, n) /\ s2 = SumOf(f2, n) /\ s3 = SumOf(f3, n)
         /\ s4 = SumOf(f4, n) /\ s5 = SumOf(f5, n) /\ s6 = SumOf(f6, n) /\ s7 = SumOf(f7, n)
         /\ su = SumOf(u, n) /\ so = SumOf(o, n)
  <2>1. SumOf(f0, n) \in Int
    BY <1>1, <1>4, SumStep
  <2>2. SumOf(f1, n) \in Int
    BY <1>1, <1>4, SumStep
  <2>3. SumOf(f2, n) \in Int
    BY <1>1, <1>4, SumStep
  <2>4. SumOf(f3, n) \in Int
    BY <1>1, <1>4, SumStep
  <2>5. SumOf(f4, n) \in Int
    BY <1>1, <1>4, SumStep
  <2>6. SumOf(f5, n) \in Int
    BY <1>1, <1>4, SumStep
  <2>7. SumOf(f6, n) \in Int
    BY <1>1, <1>4, SumStep
  <2>8. SumOf(f7, n) \in Int
    BY <1>1, <1>4, SumStep
  <2>9. SumOf(u, n) \in Int
    BY <1>1, <1>4, SumStep
  <2>10. SumOf(o, n) \in Int
    BY <1>1, <1>4, SumStep
  <2> QED BY <2>1, <2>2, <2>3, <2>4, <2>5, <2>6, <2>7, <2>8, <2>9, <2>10
<1>7. Same(s2, v, m)
  <2> DEFINE h2 == [k \in Index |-> BitOf(v, k) * TwoTo[k - 1]]
  <2>1. \A k \in 1..n : f2[k] \in Int /\ h2[k] \in Int /\ Same(f2[k], h2[k], m)
    BY <1>1, <1>4
  <2>2. SumOf(h2, n) = v
    BY SumsOfBits
  <2> HIDE DEF h2
  <2>3. Same(SumOf(f2, n), SumOf(h2, n), m)
    BY <1>1, <2>1, SumOfSame
  <2> QED BY <1>6, <2>2, <2>3
<1>8. PICK top \in Int : top = TwoTo[BITS] - 1 /\ Same(s3, top, m)
  <2> DEFINE h3 == [k \in Index |-> TwoTo[k - 1]]
  <2>1. \A k \in 1..n : f3[k] \in Int /\ h3[k] \in Int /\ Same(f3[k], h3[k], m)
    BY <1>1, <1>4
  <2>2. SumOf(h3, n) = TwoTo[BITS] - 1
    BY SumsOfBits
  <2> HIDE DEF h3
  <2>3. Same(SumOf(f3, n), SumOf(h3, n), m)
    BY <1>1, <2>1, SumOfSame
  <2>4. TwoTo[BITS] - 1 \in Int
    BY Length, TwoToFacts
  <2> QED BY <1>6, <2>2, <2>3, <2>4
<1>9. Same(su, (c1 * s1 + c2 * s2) + (c3 * s3 + 0 * s3), m)
  <2>1. \A k \in 1..n : /\ u[k] \in Int /\ f1[k] \in Int /\ f2[k] \in Int /\ f3[k] \in Int
                        /\ Same(u[k], (c1 * f1[k] + c2 * f2[k]) + (c3 * f3[k] + 0 * f3[k]), m)
    BY <1>1, <1>4, SameChain
  <2>2. 0 \in Int
    OBVIOUS
  <2> QED BY <1>1, <1>2, <1>6, <2>1, <2>2, SumOfFour
<1>10. Same(so, (e * s4 + e * s5) + (d3 * s6 + d4 * s7), m)
  <2>1. \A k \in 1..n : /\ o[k] \in Int /\ f4[k] \in Int /\ f5[k] \in Int /\ f6[k] \in Int /\ f7[k] \in Int
                        /\ Same(o[k], (e * f4[k] + e * f5[k]) + (d3 * f6[k] + d4 * f7[k]), m)
    BY <1>1, <1>4, SameChain
  <2> QED BY <1>1, <1>2, <1>6, <2>1, SumOfFour
<1>11. Same(s0, 1 * su + 1 * so, m)
  <2>1. \A k \in 1..n : /\ f0[k] \in Int /\ u[k] \in Int /\ o[k] \in Int /\ Same(f0[k], 1 * u[k] + 1 * o[k], m)
    BY <1>4
  <2>2. 1 \in Int
    OBVIOUS
  <2> QED BY <1>1, <1>6, <2>1, <2>2, SumIsLinear
<1>12. PICK p0 \in Scalar, p1 \in Scalar, t1 \in Scalar, t2 \in Scalar, dl \in Scalar :
          /\ p0 = InnerProd(lv, rv) /\ p1 = InnerProd(Ones, yv) /\ t1 = SumT1(v, st, w, z)
          /\ t2 = SumT2(st, w) /\ dl = Delta(w, z)
          /\ Same(p0, s0, m) /\ Same(p1, s1, m) /\ Same(t2, s7, m)
          /\ Same(t1, (s4 + s5) - z * s6, m)
          /\ Same(dl, (z - z * z) * p1 - ((z * z) * z) * top, m)
  <2>1. PICK a \in Scalar, b \in Scalar, c \in Scalar, p1 \in Scalar, p0 \in Scalar, t2 \in Scalar :
           /\ a = InnerProd(bv, bsv) /\ b = InnerProd(st.sL, brv) /\ c = InnerProd(Ones, bsv)
           /\ p1 = InnerProd(Ones, yv) /\ p0 = InnerProd(lv, rv) /\ t2 = InnerProd(st.sL, bsv)
           /\ Same(a, s4, m) /\ Same(b, s5, m) /\ Same(c, s6, m) /\ Same(p1, s1, m) /\ Same(p0, s0, m)
           /\ Same(t2, s7, m)
    BY <1>5, <1>6
  <2>2. SumT1(v, st, w, z) = ScSub(ScAdd(a, b), ScMul(z, c)) /\ SumT2(st, w) = t2
    BY <2>1 DEF SumT1, SumT2, bv, bsv, brv
  <2>3. Delta(w, z) = ScSub(ScMul(ScSub(z, ScMul(z, z)), p1), ScMul(ScMul(ScMul(z, z), z), top % FR_MODULUS))
    BY <1>8, <2>1 DEF Delta, yv
  <2>4. SumT1(v, st, w, z) \in Scalar /\ Same(SumT1(v, st, w, z), (s4 + s5) - z * s6, m)
    <3>1. /\ ScSub(ScAdd(a, b), ScMul(z, c)) \in Scalar
          /\ Same(ScSub(ScAdd(a, b), ScMul(z, c)), (s4 + s5) - z * s6, FR_MODULUS)
      BY <2>1, TOneIs
    <3> QED BY <2>2, <3>1
  <2>5. Delta(w, z) \in Scalar /\ Same(Delta(w, z), (z - z * z) * p1 - ((z * z) * z) * top, m)
    BY <2>3, DeltaIs
  <2> QED BY <2>1, <2>2, <2>4, <2>5
<1> HIDE DEF m, n
<1>13. Same(p0, (dl + (z * z) * v) + (e * t1 + (e * e) * t2), m)
  <2>1. /\ p0 \in Int /\ p1 \in Int /\ t1 \in Int /\ t2 \in Int /\ dl \in Int /\ c1 \in Int /\ c2 \in Int
        /\ c3 \in Int /\ d3 \in Int /\ d4 \in Int /\ m \in Nat /\ v \in Int
    BY <1>1, <1>2, ScalarFacts
  <2>2. PICK a1 \in Int, a2 \in Int, a3 \in Int, b1 \in Int, b2 \in Int, b3 \in Int :
           /\ a1 = c1 * s1 /\ a2 = c2 * s2 /\ a3 = c3 * s3
           /\ b1 = c1 * p1 /\ b2 = c2 * v /\ b3 = c3 * top
    <3>1. /\ c1 * s1 \in Int /\ c2 * s2 \in Int /\ c3 * s3 \in Int
          /\ c1 * p1 \in Int /\ c2 * v \in Int /\ c3 * top \in Int
      BY <2>1
    <3> QED BY <3>1, Zenon
  <2>3. Same(a1, b1, m) /\ Same(a2, b2, m) /\ Same(a3, b3, m)
    <3>1. Same(s1, p1, m)
      BY <1>12, <2>1, SameChain
    <3>2. Same(c1 * s1, c1 * p1, m)
      BY <2>1, <3>1, SameTimes
    <3>3. Same(c2 * s2, c2 * v, m)
      BY <1>7, <2>1, SameTimes
    <3>4. Same(c3 * s3, c3 * top, m)
      BY <1>8, <2>1, SameTimes
    <3> QED BY <2>2, <3>2, <3>3, <3>4
  <2>4. Same(su, a1 + a2 + a3, m)
    <3>1. (a1 + a2) + (a3 + 0 * s3) = a1 + a2 + a3
      OBVIOUS
    <3> QED BY <1>9, <2>2, <3>1
  <2>5. Same(a1 + a2 + a3, b1 + b2 + b3, m)
    <3>1. Same(a1 + a2, b1 + b2, m)
      BY <2>1, <2>3, SameSum
    <3>2. PICK q1 \in Int, q2 \in Int : q1 = a1 + a2 /\ q2 = b1 + b2
      OBVIOUS
    <3>3. Same(q1 + a3, q2 + b3, m)
      BY <2>1, <2>3, <3>1, <3>2, SameSum
    <3> QED BY <3>2, <3>3
  <2>6. PICK b \in Int : b = b1 + b2 + b3 /\ Same(su, b, m)
    <3>1. PICK q1 \in Int, q2 \in Int : q1 = a1 + a2 + a3 /\ q2 = b1 + b2 + b3
      OBVIOUS
    <3> QED BY <2>1, <2>4, <2>5, <3>1, SameChain
  <2>7. Same(b, dl + b2, m)
    <3>1. (z - z * z) * p1 - ((z * z) * z) * top = b1 + b3
      <4>1. PICK zzz \in Int : zzz = (z * z) * z
        BY <1>1
      <4>2. (-zzz) * top = -(zzz * top)
        OBVIOUS
      <4> QED BY <2>2, <4>1, <4>2 DEF c1, c3
    <3>2. PICK q \in Int : q = b1 + b3
      OBVIOUS
    <3>3. Same(dl, q, m) /\ Same(q, dl, m)
      BY <1>12, <2>1, <3>1, <3>2, SameChain
    <3>4. Same(q + b2, dl + b2, m)
      BY <2>1, <3>3, SameChain, SameSum
    <3>5. q + b2 = b
      BY <2>6, <3>2
    <3> QED BY <3>4, <3>5
  <2>8. PICK t0 \in Int : t0 = dl + b2 /\ Same(su, t0, m)
    <3>1. PICK q \in Int : q = dl + b2
      BY <2>1
    <3> QED BY <2>1, <2>6, <2>7, <3>1, SameChain
  <2>9. PICK et \in Int, ee \in Int, w1 \in Int : et = e * t1 /\ ee = d4 * t2 /\ w1 = (s4 + s5) - z * s6
    <3>1. e * t1 \in Int /\ d4 * t2 \in Int /\ (s4 + s5) - z * s6 \in Int
      BY <1>1, <2>1
    <3> QED BY <3>1, Zenon
  <2>10. Same(e * w1, et, m) /\ Same(d4 * s7, ee, m)
    <3>1. Same(w1, t1, m) /\ Same(s7, t2, m)
      BY <1>12, <2>1, <2>9, SameChain
    <3>2. Same(e * w1, e * t1, m)
      BY <1>1, <2>1, <3>1, SameTimes
    <3>3. Same(d4 * s7, d4 * t2, m)
      BY <2>1, <3>1, SameTimes
    <3> QED BY <2>9, <3>2, <3>3
  <2>11. PICK ew \in Int, es \in Int : ew = e * w1 /\ es = d4 * s7
    BY <1>1, <2>1
  <2>12. Same(so, ew + es, m)
    <3>1. (e * s4 + e * s5) + ((-(e * z)) * s6 + d4 * s7) = e * ((s4 + s5) - z * s6) + d4 * s7
      <4>1. e * s4 + e * s5 + (-(e * z)) * s6 = e * ((s4 + s5) - z * s6)
        BY <1>1, Z3
      <4>2. PICK q1 \in Int, q2 \in Int, q3 \in Int, q4 \in Int :
               q1 = e * s4 /\ q2 = e * s5 /\ q3 = (-(e * z)) * s6 /\ q4 = d4 * s7
        <5>1. e * s4 \in Int /\ e * s5 \in Int /\ (-(e * z)) * s6 \in Int /\ d4 * s7 \in Int
          BY <1>1, <2>1
        <5> QED BY <5>1, Zenon
      <4> QED BY <4>1, <4>2
    <3> QED BY <1>10, <2>9, <2>11, <3>1 DEF d3
  <2>13. Same(so, et + ee, m)
    <3>1. Same(ew + es, et + ee, m)
      BY <2>1, <2>10, <2>11, SameSum
    <3>2. PICK q1 \in Int, q2 \in Int : q1 = ew + es /\ q2 = et + ee
      OBVIOUS
    <3> QED BY <2>1, <2>12, <3>1, <3>2, SameChain
  <2>14. Same(su + so, t0 + (et + ee), m)
    <3>1. PICK q \in Int : q = et + ee
      OBVIOUS
    <3> QED BY <2>1, <2>8, <2>13, <3>1, SameSum
  <2>15. Same(s0, su + so, m)
    <3>1. 1 * su + 1 * so = su + so
      OBVIOUS
    <3> QED BY <1>11, <3>1
  <2>16. Same(p0, t0 + (et + ee), m)
    <3>1. PICK q1 \in Int, q2 \in Int : q1 = su + so /\ q2 = t0 + (et + ee)
      OBVIOUS
    <3>2. Same(p0, q1, m)
      BY <1>12, <2>1, <2>15, <3>1, SameChain
    <3> QED BY <2>1, <2>14, <3>1, <3>2, SameChain
  <2>17. b2 = (z * z) * v /\ ee = (e * e) * t2
    BY <2>2, <2>9 DEF c2, d4
  <2> QED BY <2>8, <2>9, <2>16, <2>17
<1> QED BY <1>3, <1>5, <1>12, <1>13 DEF m, lv, rv


-----------------------------------------------------------------------------
(* The commitment that the inner product is about.                          *)

(* A coefficient of a sum of points, and sums over the generators.          *)
LEMMA AddScaledOf ==
  ASSUME NEW p \in Points, NEW q \in Points, NEW s \in Int, NEW c \in Bases,
         NEW u \in Int, NEW v \in Int, NEW w \in Int,
         Same(p[c], u, FR_MODULUS), Same(q[c], v, FR_MODULUS), Same(s, w, FR_MODULUS)
  PROVE  AddScaled(p, q, s) \in Points /\ Same(AddScaled(p, q, s)[c], u + v * w, FR_MODULUS)
<1>1. PICK o : o = AddScaled(p, q, s)
  OBVIOUS
<1>2. o \in Points /\ Same(o[c], p[c] + q[c] * s, FR_MODULUS)
  BY <1>1, AddScaledIs
<1>3. PICK pc \in Int, qc \in Int, oc \in Int : pc = p[c] /\ qc = q[c] /\ oc = o[c]
  <2>1. PICK s1 \in Scalar, s2 \in Scalar, s3 \in Scalar : s1 = p[c] /\ s2 = q[c] /\ s3 = o[c]
    BY <1>2 DEF Points
  <2>2. s1 \in Int /\ s2 \in Int /\ s3 \in Int
    BY ScalarFacts
  <2> QED BY <2>1, <2>2
<1>4. FR_MODULUS \in Nat
  BY ScalarFacts
<1>5. PICK qs \in Int, vw \in Int : qs = qc * s /\ vw = v * w
  OBVIOUS
<1>6. Same(qs, vw, FR_MODULUS)
  <2>1. Same(qc, v, FR_MODULUS)
    BY <1>3
  <2>2. Same(qc * s, v * w, FR_MODULUS)
    BY <1>4, <2>1, SameProduct
  <2> QED BY <1>5, <2>2
<1>7. Same(pc + qs, u + vw, FR_MODULUS)
  <2>1. Same(pc, u, FR_MODULUS)
    BY <1>3
  <2> QED BY <1>4, <1>6, <2>1, SameSum
<1>8. Same(oc, u + vw, FR_MODULUS)
  <2>1. Same(oc, pc + qs, FR_MODULUS)
    BY <1>2, <1>3, <1>5
  <2>2. pc + qs \in Int /\ u + vw \in Int
    OBVIOUS
  <2> QED BY <1>4, <1>7, <2>1, <2>2, SameChain
<1> QED BY <1>1, <1>2, <1>3, <1>5, <1>8

LEMMA MsmOf ==
  ASSUME NEW points \in [Index -> Points], NEW scalars \in [Index -> Scalar]
  PROVE  /\ Msm(points, scalars) \in Points
         /\ \A c \in Bases : Same(Msm(points, scalars)[c],
                                  SumOf([k \in 1..BITS |-> points[k][c] * scalars[k]], BITS), FR_MODULUS)
<1>1. Index = 1..BITS /\ BITS \in Nat
  BY Length DEF Index
<1>2. Len(points) = BITS
  BY <1>1, VectorLength
<1>3. \A k \in 1..BITS : points[k] \in Points /\ scalars[k] \in Int
  <2>1. \A k \in 1..BITS : points[k] \in Points /\ scalars[k] \in Scalar
    BY <1>1
  <2> QED BY <2>1, ScalarFacts
<1> QED BY <1>1, <1>2, <1>3, MsmIs

LEMMA SumPointsOf ==
  ASSUME NEW points \in [Index -> Points]
  PROVE  SumPoints(points) = Msm(points, Ones) /\ Ones \in [Index -> Scalar]
<1>1. DOMAIN points = Index
  OBVIOUS
<1> QED BY <1>1, ScalarFacts DEF SumPoints, Ones

(* The generators.                                                          *)
LEMMA Generators ==
  ASSUME NEW w \in Scalar
  PROVE  /\ GVec \in [Index -> Points] /\ HVec \in [Index -> Points]
         /\ ComputeHTilde(w) \in [Index -> Points]
         /\ \A k \in Index : \A c \in Bases :
              Same(ComputeHTilde(w)[k][c], HVec[k][c] * Powers(ScInv[w])[k], FR_MODULUS)
<1>1. GVec \in [Index -> Points] /\ HVec \in [Index -> Points]
  BY PointFacts DEF GVec, HVec
<1>2. ScInv[w] \in Scalar
  BY ScInvIs
<1>3. PICK inv : inv = Powers(ScInv[w])
  OBVIOUS
<1>4. inv \in [Index -> Scalar]
  BY <1>2, <1>3, PowersAre
<1>5. ComputeHTilde(w) = [k \in Index |-> AddScaled(Origin, HVec[k], inv[k])]
  BY <1>3 DEF ComputeHTilde
<1>6. ASSUME NEW k \in Index
      PROVE  /\ AddScaled(Origin, HVec[k], inv[k]) \in Points
             /\ \A c \in Bases : Same(AddScaled(Origin, HVec[k], inv[k])[c], HVec[k][c] * inv[k], FR_MODULUS)
  <2>1. PICK hp \in Points, s \in Scalar : hp = HVec[k] /\ s = inv[k]
    BY <1>1, <1>4
  <2>2. s \in Int /\ FR_MODULUS \in Nat
    BY ScalarFacts
  <2>3. AddScaled(Origin, hp, s) \in Points
    BY <2>2, PointFacts, AddScaledIs
  <2>4. ASSUME NEW c \in Bases PROVE Same(AddScaled(Origin, hp, s)[c], hp[c] * s, FR_MODULUS)
    <3>1. PICK hc \in Scalar : hc = hp[c]
      BY DEF Points
    <3>2. hc \in Int
      BY ScalarFacts
    <3>3. PICK u \in Int : u = hc * s
      BY <2>2, <3>2
    <3>4. Same(AddScaled(Origin, hp, s)[c], Origin[c] + hp[c] * s, FR_MODULUS)
      BY <2>2, PointFacts, AddScaledIs
    <3>5. Origin[c] + hp[c] * s = u
      BY <3>1, <3>3 DEF Origin
    <3> QED BY <3>1, <3>3, <3>4, <3>5
  <2> QED BY <2>1, <2>3, <2>4
<1> QED BY <1>1, <1>3, <1>5, <1>6

(* The two commitments of the first message.                                *)
CommitmentA(v, st) == AddScaled(Committed(BitsOf(v), RightOf(v)), HBlind, st.alpha)
CommitmentS(st) == AddScaled(Committed(st.sL, st.sR), HBlind, st.rho)

LEMMA CommittedIs ==
  ASSUME NEW l \in [Index -> Scalar], NEW r \in [Index -> Scalar], NEW b \in Scalar
  PROVE  /\ AddScaled(Committed(l, r), HBlind, b) \in Points
         /\ \A c \in Bases :
              Same(AddScaled(Committed(l, r), HBlind, b)[c],
                   (SumOf([k \in 1..BITS |-> GVec[k][c] * l[k]], BITS)
                      + SumOf([k \in 1..BITS |-> HVec[k][c] * r[k]], BITS)) + HBlind[c] * b, FR_MODULUS)
<1>1. GVec \in [Index -> Points] /\ HVec \in [Index -> Points] /\ HBlind \in Points
  BY Generators, PointFacts, ScalarFacts
<1>2. PICK gl : gl = Msm(GVec, l)
  OBVIOUS
<1>3. PICK hr : hr = Msm(HVec, r)
  OBVIOUS
<1>4. gl \in Points /\ \A c \in Bases : Same(gl[c], SumOf([k \in 1..BITS |-> GVec[k][c] * l[k]], BITS), FR_MODULUS)
  BY <1>1, <1>2, MsmOf
<1>5. hr \in Points /\ \A c \in Bases : Same(hr[c], SumOf([k \in 1..BITS |-> HVec[k][c] * r[k]], BITS), FR_MODULUS)
  BY <1>1, <1>3, MsmOf
<1>6. PICK s : s = AddScaled(gl, hr, 1)
  OBVIOUS
<1>7. b \in Int /\ 1 \in Int /\ FR_MODULUS \in Nat /\ Same(1, 1, FR_MODULUS) /\ Same(b, b, FR_MODULUS)
  BY ScSame, ScalarFacts
<1>8. s \in Points
  BY <1>4, <1>5, <1>6, <1>7, AddScaledIs
<1>9. PICK o : o = AddScaled(s, HBlind, b)
  OBVIOUS
<1>10. o \in Points
  BY <1>1, <1>7, <1>8, <1>9, AddScaledIs
<1>11. AddScaled(Committed(l, r), HBlind, b) = o
  BY <1>2, <1>3, <1>6, <1>9 DEF Committed
<1>12. ASSUME NEW c \in Bases
       PROVE  Same(o[c], (SumOf([k \in 1..BITS |-> GVec[k][c] * l[k]], BITS)
                            + SumOf([k \in 1..BITS |-> HVec[k][c] * r[k]], BITS)) + HBlind[c] * b, FR_MODULUS)
  <2> DEFINE fg == [k \in 1..BITS |-> GVec[k][c] * l[k]]
             fh == [k \in 1..BITS |-> HVec[k][c] * r[k]]
  <2>1. SumOf(fg, BITS) \in Int /\ SumOf(fh, BITS) \in Int
    <3>1. ASSUME NEW k \in 1..BITS PROVE fg[k] \in Int /\ fh[k] \in Int
      <4>1. k \in Index
        BY DEF Index
      <4>2. GVec[k] \in Points /\ HVec[k] \in Points
        BY <1>1, <4>1
      <4>3. PICK a1 \in Scalar, a2 \in Scalar, a3 \in Scalar, a4 \in Scalar :
               a1 = GVec[k][c] /\ a2 = l[k] /\ a3 = HVec[k][c] /\ a4 = r[k]
        BY <4>1, <4>2 DEF Points
      <4>4. a1 \in Int /\ a2 \in Int /\ a3 \in Int /\ a4 \in Int
        BY ScalarFacts
      <4>5. fg[k] = a1 * a2 /\ fh[k] = a3 * a4
        BY <4>3
      <4>6. a1 * a2 \in Int /\ a3 * a4 \in Int
        BY <4>4
      <4> QED BY <4>5, <4>6
    <3>2. BITS \in Nat
      BY Length
    <3> HIDE DEF fg, fh
    <3>3. SumOf(fg, BITS) \in Int
      BY <3>1, <3>2, SumStep
    <3>4. SumOf(fh, BITS) \in Int
      BY <3>1, <3>2, SumStep
    <3> QED BY <3>3, <3>4
  <2>2. Same(gl[c], SumOf(fg, BITS), FR_MODULUS) /\ Same(hr[c], SumOf(fh, BITS), FR_MODULUS)
    BY <1>4, <1>5
  <2> HIDE DEF fg, fh
  <2>3. PICK u \in Int, v \in Int : u = SumOf(fg, BITS) /\ v = SumOf(fh, BITS)
    BY <2>1
  <2>4. Same(s[c], u + v * 1, FR_MODULUS)
    BY <1>4, <1>5, <1>6, <1>7, <2>2, <2>3, AddScaledOf
  <2>5. PICK q \in Int : q = HBlind[c] /\ Same(HBlind[c], q, FR_MODULUS)
    <3>1. PICK q \in Scalar : q = HBlind[c]
      BY <1>1 DEF Points
    <3> QED BY <3>1, ScSame
  <2>6. PICK uv \in Int : uv = u + v /\ Same(s[c], uv, FR_MODULUS)
    <3>1. u + v * 1 = u + v
      OBVIOUS
    <3> QED BY <2>4, <3>1
  <2>7. Same(o[c], uv + q * b, FR_MODULUS)
    BY <1>1, <1>7, <1>8, <1>9, <2>5, <2>6, AddScaledOf
  <2> QED BY <2>3, <2>5, <2>6, <2>7 DEF fg, fh
<1> QED BY <1>10, <1>11, <1>12


(* What the verifier computes from public data commits to the vectors that  *)
(* the prover evaluated, over the generators divided by the powers of y.    *)
LEMMA CommitmentOfEvaluation ==
  ASSUME NEW v \in Nat, NEW st \in ScalarStreams, NEW w \in Scalar, w # 0,
         NEW z \in Scalar, NEW e \in Scalar, NEW lv, lv = LeftAt(v, st, z, e),
         NEW rv, rv = RightAt(v, st, w, z, e),
         lv \in [Index -> Scalar], rv \in [Index -> Scalar], InnerProd(lv, rv) \in Scalar
  PROVE  ComputeP(CommitmentA(v, st), CommitmentS(st), w, z, e, InnerProd(lv, rv),
                  ScAdd(st.alpha, ScMul(e, st.rho)))
           = Cross(lv, GVec, rv, ComputeHTilde(w))
<1> DEFINE m == FR_MODULUS
           n == BITS
           bv == BitsOf(v)
           nv == RightOf(v)
           ht == ComputeHTilde(w)
           tv == Powers(2)
<1>1. /\ n \in Nat /\ m \in Nat /\ z \in Int /\ e \in Int /\ Index = 1..n /\ 2 \in Scalar
      /\ \A k \in 1..n : k \in Index /\ Ones[k] = 1
  BY ScalarFacts, Length DEF Index, Scalar, Ones
<1>2. /\ GVec \in [Index -> Points] /\ HVec \in [Index -> Points] /\ ht \in [Index -> Points]
      /\ \A k \in Index : \A c \in Bases :
           Same(ht[k][c], HVec[k][c] * Powers(ScInv[w])[k], FR_MODULUS)
  BY Generators
<1>3. /\ bv \in [Index -> Scalar] /\ nv \in [Index -> Scalar] /\ tv \in [Index -> Scalar]
      /\ st.sL \in [Index -> Scalar] /\ st.sR \in [Index -> Scalar] /\ Ones \in [Index -> Scalar]
      /\ st.alpha \in Scalar /\ st.rho \in Scalar
  <2>1. \A k \in Index : bv[k] \in Scalar /\ nv[k] \in Scalar
    <3>1. {0, 1} \subseteq Scalar
      BY ScalarFacts
    <3> HIDE DEF bv, nv
    <3>2. ASSUME NEW k \in Index PROVE bv[k] \in {0, 1} /\ nv[k] \in Scalar
      <4>1. HasPlace(v, st, w, z, e, k)
        BY PlacesAre
      <4>2. PICK bit \in {0, 1}, right \in Scalar, yk \in Scalar, sl \in Scalar, sr \in Scalar,
                two \in Scalar, br \in Scalar, bs \in Scalar, lk \in Scalar, rk \in Scalar :
               Place(v, st, w, z, e, k, bit, right, yk, sl, sr, two, br, bs, lk, rk)
        BY <4>1 DEF HasPlace
      <4> QED BY <4>2 DEF Place, bv, nv
    <3> QED BY <3>1, <3>2
  <2>2. bv = [k \in Index |-> bv[k]] /\ nv = [k \in Index |-> nv[k]]
    BY DEF BitsOf, RightOf
  <2>3. tv \in [Index -> Scalar] /\ Ones \in [Index -> Scalar]
    BY <1>1, PowersAre, ScalarFacts DEF Ones
  <2>4. /\ st.sL \in [Index -> Scalar] /\ st.sR \in [Index -> Scalar]
        /\ st.alpha \in Scalar /\ st.rho \in Scalar
    BY DEF ScalarStreams
  <2> HIDE DEF bv, nv, tv
  <2> QED BY <2>1, <2>2, <2>3, <2>4
<1>4. PICK a, s, g1, h1, hb, gl, hr :
         /\ a = CommitmentA(v, st) /\ s = CommitmentS(st)
         /\ g1 = Msm(GVec, Ones) /\ h1 = Msm(HVec, Ones) /\ hb = Msm(ht, tv)
         /\ gl = Msm(GVec, lv) /\ hr = Msm(ht, rv)
  OBVIOUS
<1> HIDE DEF bv, nv, ht, tv
<1>5. /\ a \in Points /\ s \in Points
      /\ \A c \in Bases :
           /\ Same(a[c], (SumOf([k \in 1..n |-> GVec[k][c] * bv[k]], n)
                            + SumOf([k \in 1..n |-> HVec[k][c] * nv[k]], n)) + HBlind[c] * st.alpha, m)
           /\ Same(s[c], (SumOf([k \in 1..n |-> GVec[k][c] * st.sL[k]], n)
                            + SumOf([k \in 1..n |-> HVec[k][c] * st.sR[k]], n)) + HBlind[c] * st.rho, m)
  BY <1>3, <1>4, CommittedIs DEF CommitmentA, CommitmentS, bv, nv
<1>6. /\ g1 \in Points /\ h1 \in Points /\ hb \in Points /\ gl \in Points /\ hr \in Points
      /\ \A c \in Bases :
           /\ Same(g1[c], SumOf([k \in 1..n |-> GVec[k][c] * Ones[k]], n), m)
           /\ Same(h1[c], SumOf([k \in 1..n |-> HVec[k][c] * Ones[k]], n), m)
           /\ Same(hb[c], SumOf([k \in 1..n |-> ht[k][c] * tv[k]], n), m)
           /\ Same(gl[c], SumOf([k \in 1..n |-> GVec[k][c] * lv[k]], n), m)
           /\ Same(hr[c], SumOf([k \in 1..n |-> ht[k][c] * rv[k]], n), m)
  BY <1>2, <1>3, <1>4, MsmOf
<1>7. PICK p \in Scalar, mu \in Scalar, d \in Scalar :
         /\ p = InnerProd(lv, rv) /\ mu = ScAdd(st.alpha, ScMul(e, st.rho)) /\ d = ScSub(p, mu)
         /\ Same(d, p - (st.alpha + e * st.rho), m)
         /\ st.alpha \in Int /\ st.rho \in Int /\ p \in Int
  <2>1. PICK p \in Scalar, al \in Scalar, rh \in Scalar : p = InnerProd(lv, rv) /\ al = st.alpha /\ rh = st.rho
    BY <1>3
  <2>2. al \in Int /\ Same(al, al, FR_MODULUS) /\ p \in Int /\ Same(p, p, FR_MODULUS) /\ rh \in Int
    BY ScSame
  <2>3. PICK mu : mu = ScAdd(al, ScMul(e, rh))
    OBVIOUS
  <2>4. mu \in Scalar /\ Same(mu, al + e * rh, FR_MODULUS)
    BY <2>2, <2>3, ScAddMulIs
  <2>5. PICK u \in Int : u = al + e * rh
    BY <1>1, <2>2
  <2>6. ScSub(p, mu) \in Scalar /\ Same(ScSub(p, mu), p - u, FR_MODULUS)
    BY <2>2, <2>4, <2>5, ScSubOf
  <2> QED BY <2>1, <2>2, <2>3, <2>4, <2>5, <2>6
<1>8. PICK nz \in Scalar, zz \in Scalar : nz = ScSub(0, z) /\ zz = ScMul(z, z) /\ nz \in Int /\ zz \in Int
                                          /\ Same(nz, 0 - z, m) /\ Same(zz, z * z, m)
  <2>1. PICK nz : nz = ScSub(0, z)
    OBVIOUS
  <2>2. nz \in Scalar /\ Same(nz, 0 - z, FR_MODULUS)
    BY <2>1, ScSubIs, ScalarFacts
  <2>3. PICK zz : zz = ScMul(z, z)
    OBVIOUS
  <2>4. zz \in Scalar /\ Same(zz, z * z, FR_MODULUS)
    BY <1>1, <2>3, ScMulIs
  <2> QED BY <2>1, <2>2, <2>3, <2>4, ScalarFacts
<1>9. PICK b1 : b1 = AddScaled(a, s, e)
  OBVIOUS
<1>10. PICK b2 : b2 = AddScaled(b1, HBlind, d)
  OBVIOUS
<1>11. PICK o1 : o1 = AddScaled(Origin, g1, nz)
  OBVIOUS
<1>12. PICK o2 : o2 = AddScaled(o1, h1, z)
  OBVIOUS
<1>13. PICK b3 : b3 = AddScaled(b2, o2, 1)
  OBVIOUS
<1>14. PICK b4 : b4 = AddScaled(b3, hb, zz)
  OBVIOUS
<1>15. ComputeP(a, s, w, z, e, p, mu) = b4
  <2>1. SumPoints(GVec) = g1 /\ SumPoints(HVec) = h1
    BY <1>2, <1>4, SumPointsOf
  <2>2. Msm(ComputeHTilde(w), Powers(2)) = hb
    BY <1>4 DEF ht, tv
  <2> QED BY <1>7, <1>8, <1>9, <1>10, <1>11, <1>12, <1>13, <1>14, <2>1, <2>2 DEF ComputeP, LinComb
<1>16. PICK c1 : c1 = AddScaled(gl, hr, 1)
  OBVIOUS
<1>17. PICK c2 : c2 = AddScaled(c1, HBlind, p)
  OBVIOUS
<1>18. Cross(lv, GVec, rv, ComputeHTilde(w)) = c2
  BY <1>4, <1>7, <1>16, <1>17 DEF Cross, ht
<1>19. /\ HBlind \in Points /\ Origin \in Points /\ d \in Int /\ 1 \in Int
       /\ b1 \in Points /\ b2 \in Points /\ o1 \in Points /\ o2 \in Points /\ b3 \in Points
       /\ b4 \in Points /\ c1 \in Points /\ c2 \in Points
  <2>1. HBlind \in Points /\ Origin \in Points /\ d \in Int /\ 1 \in Int
    BY PointFacts, ScalarFacts
  <2>2. b1 \in Points
    BY <1>1, <1>5, <1>9, AddScaledIs
  <2>3. b2 \in Points
    BY <1>10, <2>1, <2>2, AddScaledIs
  <2>4. o1 \in Points
    BY <1>6, <1>8, <1>11, <2>1, AddScaledIs
  <2>5. o2 \in Points
    BY <1>1, <1>6, <1>12, <2>4, AddScaledIs
  <2>6. b3 \in Points
    BY <1>13, <2>1, <2>3, <2>5, AddScaledIs
  <2>7. b4 \in Points
    BY <1>6, <1>8, <1>14, <2>6, AddScaledIs
  <2>8. c1 \in Points
    BY <1>6, <1>16, <2>1, AddScaledIs
  <2>9. c2 \in Points
    BY <1>7, <1>17, <2>1, <2>8, AddScaledIs
  <2> QED BY <2>1, <2>2, <2>3, <2>4, <2>5, <2>6, <2>7, <2>8, <2>9
<1>20. ASSUME NEW c \in Bases PROVE Same(b4[c], c2[c], FR_MODULUS)
  <2> DEFINE d1 == [k \in 1..n |-> GVec[k][c] * bv[k]]
             d2 == [k \in 1..n |-> GVec[k][c] * st.sL[k]]
             d3 == [k \in 1..n |-> GVec[k][c] * Ones[k]]
             e1 == [k \in 1..n |-> HVec[k][c] * nv[k]]
             e2 == [k \in 1..n |-> HVec[k][c] * st.sR[k]]
             e3 == [k \in 1..n |-> HVec[k][c] * Ones[k]]
             e4 == [k \in 1..n |-> ht[k][c] * tv[k]]
             m1 == [k \in 1..n |-> GVec[k][c] * lv[k]]
             m2 == [k \in 1..n |-> ht[k][c] * rv[k]]
             zs == z * z
             ne == -z
  <2>1. ASSUME NEW k \in 1..n
        PROVE  /\ d1[k] \in Int /\ d2[k] \in Int /\ d3[k] \in Int /\ e1[k] \in Int /\ e2[k] \in Int
               /\ e3[k] \in Int /\ e4[k] \in Int /\ m1[k] \in Int /\ m2[k] \in Int
               /\ Same(m1[k], (1 * d1[k] + e * d2[k]) + (ne * d3[k] + 0 * d3[k]), m)
               /\ Same(m2[k], (1 * e1[k] + e * e2[k]) + (z * e3[k] + zs * e4[k]), m)
    <3>1. k \in Index /\ Ones[k] = 1
      BY <1>1
    <3>2. HasPlace(v, st, w, z, e, k)
      BY <3>1, PlacesAre
    <3>3. PICK bit \in {0, 1}, right \in Scalar, yk \in Scalar, sl \in Scalar, sr \in Scalar,
              two \in Scalar, br \in Scalar, bs \in Scalar, lk \in Scalar, rk \in Scalar :
             Place(v, st, w, z, e, k, bit, right, yk, sl, sr, two, br, bs, lk, rk)
      BY <3>2 DEF HasPlace
    <3>4. /\ right \in Int /\ yk \in Int /\ sl \in Int /\ sr \in Int /\ two \in Int /\ br \in Int
          /\ bs \in Int /\ lk \in Int /\ rk \in Int /\ bit \in Int
      BY ScalarFacts
    <3>5. /\ bit = bv[k] /\ right = nv[k] /\ two = tv[k] /\ sl = st.sL[k] /\ sr = st.sR[k]
          /\ lk = lv[k] /\ rk = rv[k] /\ yk = Powers(w)[k]
      BY <3>3 DEF Place, bv, nv, tv
    <3>6. PICK gk \in Int, hk \in Int, tk \in Int : gk = GVec[k][c] /\ hk = HVec[k][c] /\ tk = ht[k][c]
      <4>1. GVec[k] \in Points /\ HVec[k] \in Points /\ ht[k] \in Points
        BY <1>2, <3>1
      <4>2. PICK s1 \in Scalar, s2 \in Scalar, s3 \in Scalar : s1 = GVec[k][c] /\ s2 = HVec[k][c] /\ s3 = ht[k][c]
        BY <4>1 DEF Points
      <4>3. s1 \in Int /\ s2 \in Int /\ s3 \in Int
        BY ScalarFacts
      <4> QED BY <4>2, <4>3
    <3>7. /\ d1[k] = gk * bit /\ d2[k] = gk * sl /\ d3[k] = gk /\ e1[k] = hk * right
          /\ e2[k] = hk * sr /\ e3[k] = hk /\ e4[k] = tk * two /\ m1[k] = gk * lk /\ m2[k] = tk * rk
      BY <3>1, <3>5, <3>6
    <3> HIDE DEF d1, d2, d3, e1, e2, e3, e4, m1, m2
    <3>8. /\ gk * bit \in Int /\ gk * sl \in Int /\ hk * right \in Int /\ hk * sr \in Int
          /\ tk * two \in Int /\ gk * lk \in Int /\ tk * rk \in Int
      BY <3>4, <3>6
    <3>9. Same(gk * lk, (1 * (gk * bit) + e * (gk * sl)) + (ne * gk + 0 * gk), m)
      <4>1. PICK u \in Int : u = bit - z + e * sl
        BY <1>1, <3>4
      <4>2. Same(lk, u, FR_MODULUS)
        BY <3>3, <4>1 DEF Place
      <4>3. Same(gk * lk, gk * u, FR_MODULUS)
        BY <1>1, <3>4, <4>2, SameTimes
      <4>4. gk * u = (1 * (gk * bit) + e * (gk * sl)) + ((-z) * gk + 0 * gk)
        <5>1. gk * (bit - z + e * sl) = gk * bit + e * (gk * sl) + (-z) * gk
          BY <1>1, <3>4, Z3
        <5>2. 1 * (gk * bit) = gk * bit /\ 0 * gk = 0
          BY <3>8
        <5>3. PICK q1 \in Int, q2 \in Int, q3 \in Int : q1 = gk * bit /\ q2 = e * (gk * sl) /\ q3 = (-z) * gk
          <6>1. gk * bit \in Int /\ e * (gk * sl) \in Int /\ (-z) * gk \in Int
            BY <1>1, <3>8
          <6> QED BY <6>1, Zenon
        <5> QED BY <4>1, <5>1, <5>2, <5>3
      <4> QED BY <4>3, <4>4
    <3>10. Same(tk * rk, (1 * (hk * right) + e * (hk * sr)) + (z * hk + zs * (tk * two)), m)
      <4>1. PICK inv \in Int : inv = Powers(ScInv[w])[k] /\ Same(yk * inv, 1, FR_MODULUS)
        <5>1. ScInv[w] \in Scalar
          BY ScInvIs
        <5>2. PICK inv \in Scalar : inv = Powers(ScInv[w])[k]
          BY <3>1, <5>1, PowersAre
        <5>3. Same(Powers(w)[k] * Powers(ScInv[w])[k], 1, FR_MODULUS)
          BY <3>1, PowersCancel
        <5>4. inv \in Int
          BY ScalarFacts
        <5> QED BY <3>5, <5>2, <5>3, <5>4
      <4>2. Same(tk, hk * inv, FR_MODULUS)
        <5>1. Same(ht[k][c], HVec[k][c] * Powers(ScInv[w])[k], FR_MODULUS)
          BY <1>2, <3>1
        <5> QED BY <3>6, <4>1, <5>1
      <4>3. /\ Same(br, yk * right + z * yk + (z * z) * two, FR_MODULUS) /\ Same(bs, yk * sr, FR_MODULUS)
            /\ Same(rk, br + e * bs, FR_MODULUS)
        BY <3>3 DEF Place
      <4>4. Same(tk * rk, (hk * right + e * (hk * sr)) + (z * hk + (z * z) * (tk * two)), FR_MODULUS)
        BY <1>1, <3>4, <4>1, <4>2, <4>3, PlaceOfCommitment
      <4>5. 1 * (hk * right) = hk * right
        BY <3>8
      <4> QED BY <4>4, <4>5
    <3> HIDE DEF m, zs, ne
    <3> QED BY <3>6, <3>7, <3>8, <3>9, <3>10
  <2>2. /\ Same(a[c], (SumOf(d1, n) + SumOf(e1, n)) + HBlind[c] * st.alpha, m)
        /\ Same(s[c], (SumOf(d2, n) + SumOf(e2, n)) + HBlind[c] * st.rho, m)
        /\ Same(g1[c], SumOf(d3, n), m) /\ Same(h1[c], SumOf(e3, n), m) /\ Same(hb[c], SumOf(e4, n), m)
        /\ Same(gl[c], SumOf(m1, n), m) /\ Same(hr[c], SumOf(m2, n), m)
    BY <1>5, <1>6
  <2>3. zs \in Int /\ ne \in Int /\ 0 \in Int /\ 1 \in Int
    BY <1>1
  <2> HIDE DEF d1, d2, d3, e1, e2, e3, e4, m1, m2
  <2>4. PICK x1 \in Int, x2 \in Int, x3 \in Int, y1 \in Int, y2 \in Int, y3 \in Int, y4 \in Int,
             z1 \in Int, z2 \in Int :
           /\ x1 = SumOf(d1, n) /\ x2 = SumOf(d2, n) /\ x3 = SumOf(d3, n)
           /\ y1 = SumOf(e1, n) /\ y2 = SumOf(e2, n) /\ y3 = SumOf(e3, n) /\ y4 = SumOf(e4, n)
           /\ z1 = SumOf(m1, n) /\ z2 = SumOf(m2, n)
    <3>1. SumOf(d1, n) \in Int
      BY <1>1, <2>1, SumStep
    <3>2. SumOf(d2, n) \in Int
      BY <1>1, <2>1, SumStep
    <3>3. SumOf(d3, n) \in Int
      BY <1>1, <2>1, SumStep
    <3>4. SumOf(e1, n) \in Int
      BY <1>1, <2>1, SumStep
    <3>5. SumOf(e2, n) \in Int
      BY <1>1, <2>1, SumStep
    <3>6. SumOf(e3, n) \in Int
      BY <1>1, <2>1, SumStep
    <3>7. SumOf(e4, n) \in Int
      BY <1>1, <2>1, SumStep
    <3>8. SumOf(m1, n) \in Int
      BY <1>1, <2>1, SumStep
    <3>9. SumOf(m2, n) \in Int
      BY <1>1, <2>1, SumStep
    <3> QED BY <3>1, <3>2, <3>3, <3>4, <3>5, <3>6, <3>7, <3>8, <3>9
  <2>5. Same(z1, (1 * x1 + e * x2) + (ne * x3 + 0 * x3), m)
    <3>1. \A k \in 1..n : /\ m1[k] \in Int /\ d1[k] \in Int /\ d2[k] \in Int /\ d3[k] \in Int
                          /\ Same(m1[k], (1 * d1[k] + e * d2[k]) + (ne * d3[k] + 0 * d3[k]), m)
      BY <2>1
    <3> HIDE DEF m, n, zs, ne
    <3> QED BY <1>1, <2>3, <2>4, <3>1, SumOfFour
  <2>6. Same(z2, (1 * y1 + e * y2) + (z * y3 + zs * y4), m)
    <3>1. \A k \in 1..n : /\ m2[k] \in Int /\ e1[k] \in Int /\ e2[k] \in Int /\ e3[k] \in Int /\ e4[k] \in Int
                          /\ Same(m2[k], (1 * e1[k] + e * e2[k]) + (z * e3[k] + zs * e4[k]), m)
      BY <2>1
    <3> HIDE DEF m, n, zs, ne
    <3> QED BY <1>1, <2>3, <2>4, <3>1, SumOfFour
  <2>7. PICK q \in Int, al \in Int, rh \in Int : q = HBlind[c] /\ al = st.alpha /\ rh = st.rho
                                                /\ Same(HBlind[c], q, m)
    <3>1. PICK q \in Scalar : q = HBlind[c]
      BY PointFacts DEF Points
    <3>2. q \in Int /\ Same(q, q, FR_MODULUS)
      BY ScSame
    <3> QED BY <1>7, <3>1, <3>2
  <2>8. PICK ac \in Int, sc \in Int : /\ ac = (x1 + y1) + q * al /\ sc = (x2 + y2) + q * rh
                                      /\ Same(a[c], ac, FR_MODULUS) /\ Same(s[c], sc, FR_MODULUS)
    <3>1. (x1 + y1) + q * al \in Int /\ (x2 + y2) + q * rh \in Int
      OBVIOUS
    <3> QED BY <2>2, <2>4, <2>7, <3>1
  <2>9. PICK dn \in Int : dn = p - (al + e * rh) /\ Same(d, dn, FR_MODULUS)
    <3>1. p - (al + e * rh) \in Int
      BY <1>1, <1>7
    <3> QED BY <1>7, <2>7, <3>1
  <2>10. Same(b1[c], ac + sc * e, FR_MODULUS)
    <3>1. Same(e, e, FR_MODULUS)
      BY ScSame
    <3> QED BY <1>1, <1>5, <1>9, <2>8, <3>1, AddScaledOf
  <2>11. PICK t1 \in Int : t1 = ac + sc * e
    BY <1>1
  <2>12. Same(b2[c], t1 + q * dn, FR_MODULUS)
    BY <1>10, <1>19, <2>7, <2>9, <2>10, <2>11, AddScaledOf
  <2>13. PICK nn \in Int : nn = 0 - z /\ Same(nz, nn, FR_MODULUS)
    BY <1>1, <1>8
  <2>14. Same(o1[c], 0 + x3 * nn, FR_MODULUS)
    <3>1. Same(Origin[c], 0, FR_MODULUS) /\ 0 \in Int
      BY <1>1, SameChain DEF Origin
    <3>2. Same(g1[c], x3, FR_MODULUS)
      BY <2>2, <2>4
    <3> QED BY <1>6, <1>8, <1>11, <1>19, <2>13, <3>1, <3>2, AddScaledOf
  <2>15. PICK t2 \in Int : t2 = 0 + x3 * nn
    OBVIOUS
  <2>16. Same(o2[c], t2 + y3 * z, FR_MODULUS)
    <3>1. Same(z, z, FR_MODULUS) /\ Same(h1[c], y3, FR_MODULUS)
      BY <2>2, <2>4, ScSame
    <3> QED BY <1>1, <1>6, <1>12, <1>19, <2>14, <2>15, <3>1, AddScaledOf
  <2>17. PICK t3 \in Int, t4 \in Int : t3 = t1 + q * dn /\ t4 = t2 + y3 * z
    BY <1>1
  <2>18. Same(b3[c], t3 + t4 * 1, FR_MODULUS)
    <3>1. Same(1, 1, FR_MODULUS)
      BY <1>1, <2>3, SameChain
    <3> QED BY <1>13, <1>19, <2>12, <2>16, <2>17, <3>1, AddScaledOf
  <2>19. PICK t5 \in Int : t5 = t3 + t4 * 1
    OBVIOUS
  <2>20. Same(b4[c], t5 + y4 * zs, FR_MODULUS)
    <3>1. Same(zz, zs, FR_MODULUS) /\ Same(hb[c], y4, FR_MODULUS)
      BY <1>8, <2>2, <2>4
    <3> HIDE DEF zs
    <3> QED BY <1>6, <1>8, <1>14, <1>19, <2>3, <2>18, <2>19, <3>1, AddScaledOf
  <2>21. Same(c1[c], z1 + z2 * 1, FR_MODULUS)
    <3>1. Same(1, 1, FR_MODULUS)
      BY <1>1, <2>3, SameChain
    <3>2. Same(gl[c], z1, FR_MODULUS) /\ Same(hr[c], z2, FR_MODULUS)
      BY <2>2, <2>4
    <3> QED BY <1>6, <1>16, <1>19, <3>1, <3>2, AddScaledOf
  <2>22. PICK t6 \in Int : t6 = z1 + z2 * 1
    OBVIOUS
  <2>23. Same(c2[c], t6 + q * p, FR_MODULUS)
    <3>1. Same(p, p, FR_MODULUS)
      BY ScSame
    <3> QED BY <1>7, <1>17, <1>19, <2>7, <2>21, <2>22, <3>1, AddScaledOf
  <2>24. PICK r1 \in Int, r2 \in Int : /\ r1 = x1 + e * x2 + ne * x3 /\ Same(z1, r1, FR_MODULUS)
                                       /\ r2 = y1 + e * y2 + z * y3 + zs * y4 /\ Same(z2, r2, FR_MODULUS)
    <3>1. PICK q1 \in Int, q2 \in Int, q3 \in Int, q4 \in Int, q5 \in Int :
             q1 = e * x2 /\ q2 = ne * x3 /\ q3 = e * y2 /\ q4 = z * y3 /\ q5 = zs * y4
      <4>1. e * x2 \in Int /\ ne * x3 \in Int /\ e * y2 \in Int /\ z * y3 \in Int /\ zs * y4 \in Int
        BY <1>1, <2>3
      <4> QED BY <4>1, Zenon
    <3> HIDE DEF zs, ne
    <3>2. (1 * x1 + e * x2) + (ne * x3 + 0 * x3) = x1 + q1 + q2
      BY <3>1
    <3>3. (1 * y1 + e * y2) + (z * y3 + zs * y4) = y1 + q3 + q4 + q5
      BY <3>1
    <3>4. Same(z1, x1 + q1 + q2, FR_MODULUS) /\ Same(z2, y1 + q3 + q4 + q5, FR_MODULUS)
      BY <2>5, <2>6, <3>2, <3>3
    <3> QED BY <3>1, <3>4
  <2>25. Same(t6 + q * p, (r1 + r2) + q * p, FR_MODULUS)
    <3>1. Same(z1 + z2, r1 + r2, FR_MODULUS)
      BY <1>1, <2>24, SameSum
    <3>2. PICK u1 \in Int, u2 \in Int, qp \in Int : u1 = z1 + z2 /\ u2 = r1 + r2 /\ qp = q * p
      BY <1>7
    <3>3. Same(u1 + qp, u2 + qp, FR_MODULUS)
      <4>1. Same(u1, u2, FR_MODULUS) /\ Same(qp, qp, FR_MODULUS)
        BY <1>1, <3>1, <3>2, SameChain
      <4> QED BY <1>1, <4>1, SameSum
    <3> QED BY <2>22, <3>2, <3>3
  <2>26. t5 + y4 * zs = (r1 + r2) + q * p
    <3>1. t5 + y4 * zs = (((((x1 + y1) + q * al) + ((x2 + y2) + q * rh) * e) + q * (p - (al + e * rh)))
                            + ((0 + x3 * (0 - z)) + y3 * z) * 1) + y4 * (z * z)
      BY <2>8, <2>9, <2>11, <2>13, <2>15, <2>17, <2>19
    <3>2. (((((x1 + y1) + q * al) + ((x2 + y2) + q * rh) * e) + q * (p - (al + e * rh)))
             + ((0 + x3 * (0 - z)) + y3 * z) * 1) + y4 * (z * z)
          = ((x1 + e * x2 + (-z) * x3) + (y1 + e * y2 + z * y3 + (z * z) * y4)) + q * p
      <4>1. ((x2 + y2) + q * rh) * e = e * x2 + e * y2 + q * (e * rh)
        BY <1>1, Z3
      <4>2. q * (p - (al + e * rh)) = q * p - q * al - q * (e * rh)
        BY <1>1, <1>7, Z3
      <4>3. x3 * (0 - z) = (-z) * x3 /\ y3 * z = z * y3 /\ y4 * (z * z) = (z * z) * y4
        BY <1>1, Z3
      <4>4. PICK q1 \in Int, q2 \in Int, q3 \in Int, q4 \in Int, q5 \in Int, q6 \in Int,
                 q7 \in Int, q8 \in Int :
               /\ q1 = e * x2 /\ q2 = e * y2 /\ q3 = q * (e * rh) /\ q4 = q * p /\ q5 = q * al
               /\ q6 = (-z) * x3 /\ q7 = z * y3 /\ q8 = (z * z) * y4
        <5>1. /\ e * x2 \in Int /\ e * y2 \in Int /\ q * (e * rh) \in Int /\ q * p \in Int
              /\ q * al \in Int /\ (-z) * x3 \in Int /\ z * y3 \in Int /\ (z * z) * y4 \in Int
          BY <1>1, <1>7
        <5> QED BY <5>1, Zenon
      <4>5. ((((x1 + y1) + q5) + (q1 + q2 + q3)) + (q4 - q5 - q3)) + (0 + q6 + q7) * 1 + q8
              = ((x1 + q1 + q6) + (y1 + q2 + q7 + q8)) + q4
        OBVIOUS
      <4> QED BY <4>1, <4>2, <4>3, <4>4, <4>5
    <3> QED BY <2>24, <3>1, <3>2
  <2>27. PICK cc \in Int, bb \in Int, u1 \in Int, u2 \in Int :
            cc = c2[c] /\ bb = b4[c] /\ u1 = t6 + q * p /\ u2 = (r1 + r2) + q * p
    <3>1. PICK s1 \in Scalar, s2 \in Scalar : s1 = c2[c] /\ s2 = b4[c]
      BY <1>19 DEF Points
    <3>2. s1 \in Int /\ s2 \in Int /\ t6 + q * p \in Int /\ (r1 + r2) + q * p \in Int
      BY <1>7, ScalarFacts
    <3> QED BY <3>1, <3>2
  <2>28. Same(bb, u2, FR_MODULUS) /\ Same(cc, u1, FR_MODULUS) /\ Same(u1, u2, FR_MODULUS)
    BY <2>20, <2>23, <2>25, <2>26, <2>27
  <2>29. Same(bb, cc, FR_MODULUS)
    <3>1. Same(cc, u2, FR_MODULUS)
      BY <1>1, <2>28, SameChain
    <3>2. Same(u2, cc, FR_MODULUS)
      BY <1>1, <3>1, SameChain
    <3> QED BY <1>1, <2>28, <3>2, SameChain
  <2> QED BY <2>27, <2>29
<1>21. b4 = c2
  BY <1>19, <1>20, PointIs
<1> QED BY <1>4, <1>7, <1>15, <1>18, <1>21


-----------------------------------------------------------------------------
(* The residuals of the verifier.                                           *)

ValueResidual(t1, t2, vp, tHat, w, z, e, taux) ==
    AddScaled(AddScaled(AddScaled(
        LinComb(GValue, ScSub(tHat, Delta(w, z)), HBlind, taux),
        t2, ScSub(0, ScMul(e, e))), t1, ScSub(0, e)), vp, ScSub(0, ScMul(z, z)))
FoldResidual(g, h, p, a, b) ==
    AddScaled(p, NegProj(AddScaled(LinComb(g, a, h, b), HBlind, ScMul(a, b))), 1)
Blinding(st, gamma, z, e) ==
    ScAdd(ScAdd(ScMul(ScMul(e, e), st.tau2), ScMul(e, st.tau1)), ScMul(ScMul(z, z), gamma))

(* A combination of two points, whose coefficients are known.               *)
LEMMA LinCombOf ==
  ASSUME NEW p \in Points, NEW q \in Points, NEW s \in Int, NEW t1 \in Int, NEW c \in Bases,
         NEW u \in Int, NEW v \in Int, Same(p[c], u, FR_MODULUS), Same(q[c], v, FR_MODULUS),
         NEW sn \in Int, NEW tn \in Int, Same(s, sn, FR_MODULUS), Same(t1, tn, FR_MODULUS)
  PROVE  LinComb(p, s, q, t1) \in Points /\ Same(LinComb(p, s, q, t1)[c], u * sn + v * tn, FR_MODULUS)
<1>1. FR_MODULUS \in Nat /\ Same(Origin[c], 0, FR_MODULUS) /\ 0 \in Int /\ Origin \in Points
  BY ScalarFacts, SameChain, PointFacts DEF Origin
<1>2. PICK o : o = AddScaled(Origin, p, s)
  OBVIOUS
<1>3. o \in Points /\ Same(o[c], 0 + u * sn, FR_MODULUS)
  BY <1>1, <1>2, AddScaledOf
<1>4. PICK us \in Int : us = u * sn
  OBVIOUS
<1>5. Same(o[c], us, FR_MODULUS)
  BY <1>3, <1>4
<1>6. AddScaled(o, q, t1) \in Points /\ Same(AddScaled(o, q, t1)[c], us + v * tn, FR_MODULUS)
  BY <1>3, <1>5, AddScaledOf
<1> QED BY <1>2, <1>4, <1>6 DEF LinComb

(* The blinding that the prover sends.                                      *)
LEMMA BlindingIs ==
  ASSUME NEW st \in ScalarStreams, NEW gamma \in Scalar, NEW z \in Scalar, NEW e \in Scalar
  PROVE  /\ Blinding(st, gamma, z, e) \in Scalar
         /\ Same(Blinding(st, gamma, z, e), (e * e) * st.tau2 + e * st.tau1 + (z * z) * gamma, FR_MODULUS)
<1>1. PICK ta \in Scalar, tb \in Scalar : ta = st.tau1 /\ tb = st.tau2
  BY DEF ScalarStreams
<1>2. ta \in Int /\ tb \in Int /\ gamma \in Int /\ z \in Int /\ e \in Int
      /\ Same(ta, ta, FR_MODULUS) /\ Same(tb, tb, FR_MODULUS) /\ Same(gamma, gamma, FR_MODULUS)
  BY ScSame
<1>3. PICK ee \in Int, zz \in Int : ee = e * e /\ zz = z * z
  BY <1>2
<1>4. PICK e2 : e2 = ScMul(e, e)
  OBVIOUS
<1>5. PICK z2 : z2 = ScMul(z, z)
  OBVIOUS
<1>6. /\ e2 \in Scalar /\ Same(e2, ee, FR_MODULUS) /\ e2 \in Int
      /\ z2 \in Scalar /\ Same(z2, zz, FR_MODULUS) /\ z2 \in Int
  <2>1. e2 \in Scalar /\ Same(e2, ee, FR_MODULUS)
    BY <1>2, <1>3, <1>4, ScMulIs
  <2>2. z2 \in Scalar /\ Same(z2, zz, FR_MODULUS)
    BY <1>2, <1>3, <1>5, ScMulIs
  <2> QED BY <2>1, <2>2, ScalarFacts
<1>7. PICK p1 : p1 = ScMul(e2, tb)
  OBVIOUS
<1>8. p1 \in Scalar /\ Same(p1, ee * tb, FR_MODULUS)
  BY <1>2, <1>6, <1>7, ScMulOf
<1>9. PICK u1 \in Int, u2 \in Int, u3 \in Int : u1 = ee * tb /\ u2 = e * ta /\ u3 = zz * gamma
  BY <1>2
<1>10. PICK p2 : p2 = ScAdd(p1, ScMul(e, ta))
  OBVIOUS
<1>11. p2 \in Scalar /\ Same(p2, u1 + u2, FR_MODULUS)
  BY <1>8, <1>9, <1>10, ScAddMulIs
<1>12. PICK u \in Int : u = u1 + u2
  OBVIOUS
<1>13. PICK p3 : p3 = ScMul(z2, gamma)
  OBVIOUS
<1>14. p3 \in Scalar /\ Same(p3, zz * gamma, FR_MODULUS)
  BY <1>2, <1>6, <1>13, ScMulOf
<1>15. ScAdd(p2, p3) \in Scalar /\ Same(ScAdd(p2, p3), u + u3, FR_MODULUS)
  BY <1>9, <1>11, <1>12, <1>14, ScAddOf
<1>16. Blinding(st, gamma, z, e) = ScAdd(p2, p3)
  BY <1>1, <1>4, <1>5, <1>7, <1>10, <1>13 DEF Blinding
<1> QED BY <1>1, <1>3, <1>9, <1>12, <1>15, <1>16

(* The first residual: the blinding checked against that of the prover.     *)
LEMMA ValueResidualIs ==
  ASSUME NEW v \in Nat, NEW gamma \in Scalar, NEW st \in ScalarStreams,
         NEW w \in Scalar, NEW z \in Scalar, NEW e \in Scalar,
         NEW p \in Scalar, NEW ta \in Scalar, NEW tb \in Scalar, Delta(w, z) \in Scalar,
         Same(p, (Delta(w, z) + (z * z) * v) + (e * ta + (e * e) * tb), FR_MODULUS),
         NEW taux \in Scalar,
         NEW out, out = ValueResidual(LinComb(GValue, ta, HBlind, st.tau1), LinComb(GValue, tb, HBlind, st.tau2),
                                      CommitValue(v, gamma), p, w, z, e, taux)
  PROVE  /\ out \in Points
         /\ \A c \in Bases : Same(out[c], HBlind[c] * (taux - Blinding(st, gamma, z, e)), FR_MODULUS)
<1>1. PICK sa \in Scalar, sb \in Scalar, dl \in Scalar : sa = st.tau1 /\ sb = st.tau2 /\ dl = Delta(w, z)
  BY DEF ScalarStreams
<1>2. /\ sa \in Int /\ sb \in Int /\ gamma \in Int /\ z \in Int /\ e \in Int /\ dl \in Int /\ p \in Int
      /\ ta \in Int /\ tb \in Int /\ taux \in Int /\ v \in Int /\ FR_MODULUS \in Nat
      /\ Same(sa, sa, FR_MODULUS) /\ Same(sb, sb, FR_MODULUS) /\ Same(gamma, gamma, FR_MODULUS)
      /\ Same(dl, dl, FR_MODULUS) /\ Same(ta, ta, FR_MODULUS) /\ Same(tb, tb, FR_MODULUS)
      /\ Same(taux, taux, FR_MODULUS) /\ Same(v, v, FR_MODULUS) /\ Same(p, p, FR_MODULUS)
  <2>1. v \in Int /\ FR_MODULUS \in Nat
    BY ScalarFacts
  <2>2. Same(v, v, FR_MODULUS)
    BY <2>1, SameChain
  <2> QED BY <2>1, <2>2, ScSame
<1>3. GValue \in Points /\ HBlind \in Points /\ Origin \in Points
  BY PointFacts
<1>4. PICK bl \in Scalar : /\ bl = Blinding(st, gamma, z, e) /\ bl \in Int
                           /\ Same(bl, (e * e) * sb + e * sa + (z * z) * gamma, FR_MODULUS)
  <2>1. PICK bl : bl = Blinding(st, gamma, z, e)
    OBVIOUS
  <2>2. bl \in Scalar /\ Same(bl, (e * e) * sb + e * sa + (z * z) * gamma, FR_MODULUS)
    BY <1>1, <2>1, BlindingIs
  <2> QED BY <2>1, <2>2, ScalarFacts
<1>5. PICK pd \in Scalar : pd = ScSub(p, dl) /\ pd \in Int /\ Same(pd, p - dl, FR_MODULUS)
  <2>1. PICK pd : pd = ScSub(p, dl)
    OBVIOUS
  <2>2. pd \in Scalar /\ Same(pd, p - dl, FR_MODULUS)
    BY <2>1, ScSubIs
  <2> QED BY <2>1, <2>2, ScalarFacts
<1>6. PICK ee \in Int, zz \in Int, nee \in Int, nzz \in Int, ne \in Int :
         ee = e * e /\ zz = z * z /\ nee = 0 - ee /\ nzz = 0 - zz /\ ne = 0 - e
  BY <1>2
<1>7. PICK e2 \in Scalar, z2 \in Scalar, ne2 \in Scalar, nz2 \in Scalar, nes \in Scalar :
         /\ e2 = ScMul(e, e) /\ z2 = ScMul(z, z) /\ ne2 = ScSub(0, e2) /\ nz2 = ScSub(0, z2)
         /\ nes = ScSub(0, e)
         /\ ne2 \in Int /\ nz2 \in Int /\ nes \in Int
         /\ Same(ne2, nee, FR_MODULUS) /\ Same(nz2, nzz, FR_MODULUS) /\ Same(nes, ne, FR_MODULUS)
  <2>1. PICK e2 : e2 = ScMul(e, e)
    OBVIOUS
  <2>2. PICK z2 : z2 = ScMul(z, z)
    OBVIOUS
  <2>3. e2 \in Scalar /\ Same(e2, ee, FR_MODULUS)
    BY <1>2, <1>6, <2>1, ScMulIs
  <2>4. z2 \in Scalar /\ Same(z2, zz, FR_MODULUS)
    BY <1>2, <1>6, <2>2, ScMulIs
  <2>5. 0 \in Scalar /\ 0 \in Int /\ Same(0, 0, FR_MODULUS) /\ Same(e, e, FR_MODULUS)
    BY <1>2, ScalarFacts, SameChain
  <2>6. PICK ne2 : ne2 = ScSub(0, e2)
    OBVIOUS
  <2>7. PICK nz2 : nz2 = ScSub(0, z2)
    OBVIOUS
  <2>8. PICK nes : nes = ScSub(0, e)
    OBVIOUS
  <2>9. ne2 \in Scalar /\ Same(ne2, 0 - ee, FR_MODULUS)
    BY <2>3, <2>5, <2>6, ScSubOf
  <2>10. nz2 \in Scalar /\ Same(nz2, 0 - zz, FR_MODULUS)
    BY <2>4, <2>5, <2>7, ScSubOf
  <2>11. nes \in Scalar /\ Same(nes, 0 - e, FR_MODULUS)
    BY <1>2, <2>5, <2>8, ScSubOf
  <2>12. ne2 \in Int /\ nz2 \in Int /\ nes \in Int
    BY <2>9, <2>10, <2>11, ScalarFacts
  <2> QED BY <1>6, <2>1, <2>2, <2>3, <2>4, <2>6, <2>7, <2>8, <2>9, <2>10, <2>11, <2>12
<1>8. PICK o1 : o1 = LinComb(GValue, pd, HBlind, taux)
  OBVIOUS
<1>9. PICK k2 : k2 = LinComb(GValue, tb, HBlind, sb)
  OBVIOUS
<1>10. PICK k1 : k1 = LinComb(GValue, ta, HBlind, sa)
  OBVIOUS
<1>11. PICK kv0 : kv0 = AddScaled(Origin, GValue, v)
  OBVIOUS
<1>12. PICK kv : kv = AddScaled(kv0, HBlind, gamma)
  OBVIOUS
<1>13. PICK o2 : o2 = AddScaled(o1, k2, ne2)
  OBVIOUS
<1>14. PICK o3 : o3 = AddScaled(o2, k1, nes)
  OBVIOUS
<1>15. out = AddScaled(o3, kv, nz2)
  BY <1>1, <1>5, <1>7, <1>8, <1>9, <1>10, <1>11, <1>12, <1>13, <1>14 DEF ValueResidual, CommitValue
<1>16. /\ o1 \in Points /\ k1 \in Points /\ k2 \in Points /\ kv0 \in Points /\ kv \in Points
       /\ o2 \in Points /\ o3 \in Points /\ out \in Points
  <2>1. o1 \in Points /\ k1 \in Points /\ k2 \in Points
    BY <1>2, <1>3, <1>5, <1>8, <1>9, <1>10, LinCombIs
  <2>2. kv0 \in Points
    BY <1>2, <1>3, <1>11, AddScaledIs
  <2>3. kv \in Points
    BY <1>2, <1>3, <1>12, <2>2, AddScaledIs
  <2>4. o2 \in Points
    BY <1>7, <1>13, <2>1, AddScaledIs
  <2>5. o3 \in Points
    BY <1>7, <1>14, <2>1, <2>4, AddScaledIs
  <2>6. out \in Points
    BY <1>7, <1>15, <2>3, <2>5, AddScaledIs
  <2> QED BY <2>1, <2>2, <2>3, <2>4, <2>5, <2>6
<1>17. ASSUME NEW c \in Bases PROVE Same(out[c], HBlind[c] * (taux - bl), FR_MODULUS)
  <2>1. PICK g \in Int, q \in Int, oc \in Int : /\ g = GValue[c] /\ q = HBlind[c] /\ oc = out[c]
           /\ Same(GValue[c], g, FR_MODULUS) /\ Same(HBlind[c], q, FR_MODULUS)
    <3>1. PICK g \in Scalar, q \in Scalar, oc \in Scalar : g = GValue[c] /\ q = HBlind[c] /\ oc = out[c]
      BY <1>3, <1>16 DEF Points
    <3>2. g \in Int /\ q \in Int /\ oc \in Int /\ Same(g, g, FR_MODULUS) /\ Same(q, q, FR_MODULUS)
      BY ScSame
    <3> QED BY <3>1, <3>2
  <2>2. PICK pn \in Int : pn = p - dl
    BY <1>2
  <2>3. Same(o1[c], g * pn + q * taux, FR_MODULUS)
    BY <1>2, <1>3, <1>5, <1>8, <2>1, <2>2, LinCombOf
  <2>4. Same(k2[c], g * tb + q * sb, FR_MODULUS)
    BY <1>2, <1>3, <1>9, <2>1, LinCombOf
  <2>5. Same(k1[c], g * ta + q * sa, FR_MODULUS)
    BY <1>2, <1>3, <1>10, <2>1, LinCombOf
  <2>6. Same(kv0[c], 0 + g * v, FR_MODULUS)
    <3>1. Same(Origin[c], 0, FR_MODULUS) /\ 0 \in Int
      BY <1>2, SameChain DEF Origin
    <3> QED BY <1>2, <1>3, <1>11, <2>1, <3>1, AddScaledOf
  <2>7. PICK x1 \in Int, x2 \in Int, x3 \in Int, x4 \in Int :
           x1 = g * pn + q * taux /\ x2 = g * tb + q * sb /\ x3 = g * ta + q * sa /\ x4 = 0 + g * v
    <3>1. g * pn + q * taux \in Int /\ g * tb + q * sb \in Int /\ g * ta + q * sa \in Int /\ 0 + g * v \in Int
      BY <1>2
    <3> QED BY <3>1, Zenon
  <2>8. Same(kv[c], x4 + q * gamma, FR_MODULUS)
    BY <1>2, <1>3, <1>12, <1>16, <2>1, <2>6, <2>7, AddScaledOf
  <2>9. PICK x5 \in Int, x6 \in Int : x5 = x4 + q * gamma /\ x6 = x1 + x2 * nee
    <3>1. x4 + q * gamma \in Int /\ x1 + x2 * nee \in Int
      BY <1>2
    <3> QED BY <3>1, Zenon
  <2>10. Same(o2[c], x6, FR_MODULUS)
    BY <1>7, <1>13, <1>16, <2>3, <2>4, <2>7, <2>9, AddScaledOf
  <2>11. Same(o3[c], x6 + x3 * ne, FR_MODULUS)
    BY <1>7, <1>14, <1>16, <2>5, <2>7, <2>10, AddScaledOf
  <2>12. PICK x7 \in Int : x7 = x6 + x3 * ne
    OBVIOUS
  <2>13. Same(oc, x7 + x5 * nzz, FR_MODULUS)
    BY <1>7, <1>15, <1>16, <2>1, <2>8, <2>9, <2>11, <2>12, AddScaledOf
  <2>14. PICK target \in Int, bn \in Int :
            /\ target = (dl + zz * v) + (e * ta + ee * tb) /\ bn = ee * sb + e * sa + zz * gamma
            /\ Same(p, target, FR_MODULUS) /\ Same(bl, bn, FR_MODULUS)
    <3>1. (dl + zz * v) + (e * ta + ee * tb) \in Int /\ ee * sb + e * sa + zz * gamma \in Int
      BY <1>2
    <3>2. Same(p, (dl + zz * v) + (e * ta + ee * tb), FR_MODULUS)
      BY <1>1, <1>6
    <3> QED BY <1>4, <1>6, <3>1, <3>2
  <2>15. x7 + x5 * nzz = g * (p - target) + q * (taux - bn)
    <3>1. x7 + x5 * nzz = ((g * (p - dl) + q * taux) + (g * tb + q * sb) * (0 - ee) + (g * ta + q * sa) * (0 - e))
                            + (g * v + q * gamma) * (0 - zz)
      BY <1>6, <2>2, <2>7, <2>9, <2>12
    <3>2. (g * tb + q * sb) * (0 - ee) = -(g * (ee * tb)) - q * (ee * sb)
      <4>1. (g * tb) * ee = g * (ee * tb) /\ (q * sb) * ee = q * (ee * sb)
        BY <1>2, Z3
      <4>2. PICK m1 \in Int, m2 \in Int : m1 = g * tb /\ m2 = q * sb
        BY <1>2
      <4>3. (m1 + m2) * (0 - ee) = -(m1 * ee) - m2 * ee
        BY Z3
      <4> QED BY <4>1, <4>2, <4>3
    <3>3. (g * ta + q * sa) * (0 - e) = -(g * (e * ta)) - q * (e * sa)
      BY <1>2, Z3
    <3>4. (g * v + q * gamma) * (0 - zz) = -(g * (zz * v)) - q * (zz * gamma)
      BY <1>2, Z3
    <3>5. g * (p - target) = g * (p - dl) - g * (zz * v) - g * (e * ta) - g * (ee * tb)
      <4>1. g * (p - ((dl + zz * v) + (e * ta + ee * tb)))
              = g * (p - dl) - g * (zz * v) - g * (e * ta) - g * (ee * tb)
        BY <1>2, Z3
      <4> QED BY <2>14, <4>1
    <3>6. q * (taux - bn) = q * taux - q * (ee * sb) - q * (e * sa) - q * (zz * gamma)
      <4>1. q * (taux - (ee * sb + e * sa + zz * gamma))
              = q * taux - q * (ee * sb) - q * (e * sa) - q * (zz * gamma)
        BY <1>2, Z3
      <4> QED BY <2>14, <4>1
    <3>7. PICK a0 \in Int, a1 \in Int, a2 \in Int, a3 \in Int, b0 \in Int, b1 \in Int, b2 \in Int, b3 \in Int :
             /\ a0 = g * (p - dl) /\ a1 = g * (ee * tb) /\ a2 = g * (e * ta) /\ a3 = g * (zz * v)
             /\ b0 = q * taux /\ b1 = q * (ee * sb) /\ b2 = q * (e * sa) /\ b3 = q * (zz * gamma)
      <4>1. /\ g * (p - dl) \in Int /\ g * (ee * tb) \in Int /\ g * (e * ta) \in Int /\ g * (zz * v) \in Int
            /\ q * taux \in Int /\ q * (ee * sb) \in Int /\ q * (e * sa) \in Int /\ q * (zz * gamma) \in Int
        BY <1>2
      <4> QED BY <4>1, Zenon
    <3>8. ((a0 + b0) + (-a1 - b1) + (-a2 - b2)) + (-a3 - b3) = (a0 - a3 - a2 - a1) + (b0 - b1 - b2 - b3)
      OBVIOUS
    <3> QED BY <3>1, <3>2, <3>3, <3>4, <3>5, <3>6, <3>7, <3>8
  <2>16. Same(p - target, 0, FR_MODULUS) /\ Same(taux - bn, taux - bl, FR_MODULUS)
    <3>1. -target \in Int /\ -bn \in Int /\ -bl \in Int /\ Same(-target, -target, FR_MODULUS)
      BY <1>2, <1>4, SameChain
    <3>2. Same(p + (-target), target + (-target), FR_MODULUS)
      BY <1>2, <2>14, <3>1, SameSum
    <3>3. Same((-1) * bl, (-1) * bn, FR_MODULUS)
      <4>1. -1 \in Int
        OBVIOUS
      <4> QED BY <1>2, <1>4, <2>14, <4>1, SameTimes
    <3>4. Same(-bn, -bl, FR_MODULUS)
      <4>1. (-1) * bl = -bl /\ (-1) * bn = -bn
        BY <1>4
      <4> QED BY <1>2, <3>1, <3>3, <4>1, SameChain
    <3>5. Same(taux + (-bn), taux + (-bl), FR_MODULUS)
      BY <1>2, <3>1, <3>4, SameSum
    <3>6. p + (-target) = p - target /\ target + (-target) = 0 /\ taux + (-bn) = taux - bn /\ taux + (-bl) = taux - bl
      BY <1>2, <1>4
    <3> QED BY <3>2, <3>5, <3>6
  <2>17. PICK d1 \in Int, d2 \in Int, d3 \in Int : d1 = p - target /\ d2 = taux - bn /\ d3 = taux - bl
    BY <1>2, <1>4
  <2>18. Same(g * d1 + q * d2, q * d3, FR_MODULUS)
    <3>1. Same(g * d1, g * 0, FR_MODULUS)
      <4>1. Same(d1, 0, FR_MODULUS) /\ 0 \in Int
        BY <2>16, <2>17
      <4> QED BY <1>2, <4>1, SameTimes
    <3>2. Same(q * d2, q * d3, FR_MODULUS)
      BY <1>2, <2>16, <2>17, SameTimes
    <3>3. PICK y1 \in Int, y2 \in Int, y3 \in Int : y1 = g * d1 /\ y2 = q * d2 /\ y3 = q * d3
      OBVIOUS
    <3>4. Same(y1, 0, FR_MODULUS) /\ Same(y2, y3, FR_MODULUS) /\ 0 \in Int
      BY <3>1, <3>2, <3>3
    <3>5. Same(y1 + y2, 0 + y3, FR_MODULUS)
      BY <1>2, <3>4, SameSum
    <3> QED BY <3>3, <3>5
  <2>19. Same(oc, q * d3, FR_MODULUS)
    <3>1. PICK y1 \in Int, y2 \in Int : y1 = g * d1 + q * d2 /\ y2 = q * d3
      OBVIOUS
    <3>2. Same(oc, y1, FR_MODULUS)
      BY <2>13, <2>15, <2>17, <3>1
    <3> QED BY <1>2, <2>18, <3>1, <3>2, SameChain
  <2> QED BY <2>1, <2>17, <2>19
<1> QED BY <1>4, <1>16, <1>17


-----------------------------------------------------------------------------
(* The residual of a proof with other last scalars.                         *)

(* The commitment of vectors of length one.                                 *)
LEMMA CrossOfOne ==
  ASSUME NEW a, NEW g, NEW b, NEW h, Vectors(a, g, b, h, 1)
  PROVE  /\ Cross(a, g, b, h) \in Points
         /\ \A c \in Bases : /\ Term(g[1][c], a[1], h[1][c], b[1], HBlind[c]) \in Int
                             /\ Same(Cross(a, g, b, h)[c],
                                     Term(g[1][c], a[1], h[1][c], b[1], HBlind[c]), FR_MODULUS)
<1>1. ASSUME NEW c \in Bases
      PROVE  SumOf(CrossTerms(a, g, b, h, 1, c), 1) = Term(g[1][c], a[1], h[1][c], b[1], HBlind[c])
             /\ Term(g[1][c], a[1], h[1][c], b[1], HBlind[c]) \in Int
  <2>1. PICK f : f = CrossTerms(a, g, b, h, 1, c)
    OBVIOUS
  <2>2. 1 \in 1..1 /\ 1 \in Nat /\ \A k \in 1..1 : k = 1
    OBVIOUS
  <2>3. f[1] \in Int /\ f[1] = Term(g[1][c], a[1], h[1][c], b[1], HBlind[c])
    BY <2>1, <2>2, TermsAre
  <2>4. SumOf(f, 1) = f[1]
    BY <2>2, <2>3, SumOfOne
  <2> QED BY <2>1, <2>3, <2>4
<1> QED BY <1>1, CrossIs

LEMMA NegProjIs ==
  ASSUME NEW p \in Points
  PROVE  NegProj(p) \in Points /\ \A c \in Bases : Same(NegProj(p)[c], -p[c], FR_MODULUS)
<1>1. ASSUME NEW c \in Bases PROVE ScSub(0, p[c]) \in Scalar /\ Same(ScSub(0, p[c]), -p[c], FR_MODULUS)
  <2>1. PICK u \in Scalar : u = p[c]
    BY DEF Points
  <2>2. 0 \in Scalar /\ u \in Int /\ 0 - u = -u
    BY ScalarFacts
  <2>3. ScSub(0, u) \in Scalar /\ Same(ScSub(0, u), 0 - u, FR_MODULUS)
    BY <2>2, ScSubIs
  <2> QED BY <2>1, <2>2, <2>3
<1> QED BY <1>1 DEF NegProj, Points

(* The second residual: the last scalars checked against those of the prover. *)
LEMMA FoldResidualIs ==
  ASSUME NEW g \in Points, NEW h \in Points, NEW p \in Points, NEW a \in Scalar, NEW b \in Scalar,
         NEW out, out = FoldResidual(g, h, p, a, b)
  PROVE  /\ out \in Points
         /\ \A c \in Bases : \A pn \in Int : Same(p[c], pn, FR_MODULUS) =>
              Same(out[c], pn - Term(g[c], a, h[c], b, HBlind[c]), FR_MODULUS)
<1>a. ASSUME NEW c \in Bases, NEW pn \in Int, Same(p[c], pn, FR_MODULUS)
      PROVE  /\ out \in Points
             /\ Same(out[c], pn - Term(g[c], a, h[c], b, HBlind[c]), FR_MODULUS)
  <2>1. PICK gc \in Int, hc \in Int, qc \in Int : /\ gc = g[c] /\ hc = h[c] /\ qc = HBlind[c]
           /\ Same(g[c], gc, FR_MODULUS) /\ Same(h[c], hc, FR_MODULUS) /\ Same(HBlind[c], qc, FR_MODULUS)
    <3>1. PICK gc \in Scalar, hc \in Scalar, qc \in Scalar : gc = g[c] /\ hc = h[c] /\ qc = HBlind[c]
      BY PointFacts DEF Points
    <3>2. gc \in Int /\ hc \in Int /\ qc \in Int /\ Same(gc, gc, FR_MODULUS) /\ Same(hc, hc, FR_MODULUS)
          /\ Same(qc, qc, FR_MODULUS)
      BY ScSame
    <3> QED BY <3>1, <3>2
  <2>2. a \in Int /\ b \in Int /\ Same(a, a, FR_MODULUS) /\ Same(b, b, FR_MODULUS) /\ HBlind \in Points
        /\ FR_MODULUS \in Nat /\ 1 \in Int /\ Same(1, 1, FR_MODULUS)
    <3>1. FR_MODULUS \in Nat /\ 1 \in Scalar
      BY ScalarFacts
    <3> QED BY <3>1, ScSame, PointFacts
  <2>3. PICK o : o = LinComb(g, a, h, b)
    OBVIOUS
  <2>4. o \in Points /\ Same(o[c], gc * a + hc * b, FR_MODULUS)
    BY <2>1, <2>2, <2>3, LinCombOf
  <2>5. PICK on \in Int, ab \in Int : on = gc * a + hc * b /\ ab = a * b
    <3>1. gc * a + hc * b \in Int /\ a * b \in Int
      BY <2>1, <2>2
    <3> QED BY <3>1, Zenon
  <2>6. PICK s : s = ScMul(a, b)
    OBVIOUS
  <2>7. s \in Scalar /\ s \in Int /\ Same(s, ab, FR_MODULUS)
    <3>1. s \in Scalar /\ Same(s, a * b, FR_MODULUS)
      BY <2>2, <2>6, ScMulIs
    <3> QED BY <3>1, <2>5, ScalarFacts
  <2>8. PICK o2 : o2 = AddScaled(o, HBlind, s)
    OBVIOUS
  <2>9. o2 \in Points /\ Same(o2[c], on + qc * ab, FR_MODULUS)
    <3>1. Same(o[c], on, FR_MODULUS)
      BY <2>4, <2>5
    <3> QED BY <2>1, <2>2, <2>4, <2>5, <2>7, <2>8, <3>1, AddScaledOf
  <2>10. PICK tn \in Int : tn = on + qc * ab
    <3>1. on + qc * ab \in Int
      BY <2>1, <2>5
    <3> QED BY <3>1, Zenon
  <2>11. PICK o3 : o3 = NegProj(o2)
    OBVIOUS
  <2>12. o3 \in Points /\ Same(o3[c], -tn, FR_MODULUS) /\ -tn \in Int
    <3>1. o3 \in Points /\ Same(o3[c], -o2[c], FR_MODULUS)
      BY <2>9, <2>11, NegProjIs
    <3>2. PICK u \in Int, w \in Int : u = o2[c] /\ w = o3[c]
      BY <2>9, <3>1, ScalarFacts DEF Points
    <3>3. Same((-1) * u, (-1) * tn, FR_MODULUS)
      <4>1. Same(u, tn, FR_MODULUS) /\ -1 \in Int
        BY <2>9, <2>10, <3>2
      <4> QED BY <2>2, <3>2, <4>1, SameTimes
    <3>4. (-1) * u = -u /\ (-1) * tn = -tn /\ -u \in Int /\ -tn \in Int
      BY <2>10, <3>2
    <3>5. Same(w, -u, FR_MODULUS) /\ Same(-u, -tn, FR_MODULUS)
      BY <3>1, <3>2, <3>3, <3>4
    <3>6. Same(w, -tn, FR_MODULUS)
      BY <2>2, <3>2, <3>4, <3>5, SameChain
    <3> QED BY <3>1, <3>2, <3>4, <3>6
  <2>13. out = AddScaled(p, o3, 1)
    BY <2>3, <2>6, <2>8, <2>11 DEF FoldResidual
  <2>14. out \in Points /\ Same(out[c], pn + (-tn) * 1, FR_MODULUS)
    BY <1>a, <2>2, <2>12, <2>13, AddScaledOf
  <2>15. pn + (-tn) * 1 = pn - tn
    BY <2>10
  <2>16. tn = Term(g[c], a, h[c], b, HBlind[c])
    BY <2>1, <2>5, <2>10 DEF Term
  <2> QED BY <2>14, <2>15, <2>16
<1>b. PICK c0 : c0 \in Bases
  BY PointFacts
<1>c. PICK pc \in Int : pc = p[c0] /\ Same(p[c0], pc, FR_MODULUS)
  <2>1. PICK s \in Scalar : s = p[c0]
    BY <1>b DEF Points
  <2> QED BY <2>1, ScSame
<1> QED BY <1>a, <1>b, <1>c

(* The sum of the two, given what each of them is.                          *)
Residual(r1, g, h, p, a, b) == AddScaled(r1, FoldResidual(g, h, p, a, b), 1)
Blinds(r1, u) == \A c \in Bases : Same(r1[c], HBlind[c] * u, FR_MODULUS)

LEMMA ResidualIs ==
  ASSUME NEW r1 \in Points, NEW u \in Int, Blinds(r1, u),
         NEW a0, NEW g, NEW b0, NEW h, Vectors(a0, g, b0, h, 1), NEW p, p = Cross(a0, g, b0, h),
         NEW a \in Scalar, NEW b \in Scalar, NEW out, out = Residual(r1, g[1], h[1], p, a, b)
  PROVE  /\ out \in Points
         /\ \A c \in Bases :
              /\ g[1][c] \in Int /\ h[1][c] \in Int /\ HBlind[c] \in Int
              /\ Same(out[c], HBlind[c] * u + (Term(g[1][c], a0[1], h[1][c], b0[1], HBlind[c])
                                              - Term(g[1][c], a, h[1][c], b, HBlind[c])), FR_MODULUS)
<1>1. /\ a0[1] \in Scalar /\ b0[1] \in Scalar /\ g[1] \in Points /\ h[1] \in Points /\ HBlind \in Points
      /\ a0[1] \in Int /\ b0[1] \in Int /\ a \in Int /\ b \in Int /\ FR_MODULUS \in Nat
  <2>1. 1 \in 1..1 /\ a0 \in [1..1 -> Scalar] /\ b0 \in [1..1 -> Scalar] /\ g \in [1..1 -> Points]
        /\ h \in [1..1 -> Points]
    BY DEF Vectors
  <2>2. a0[1] \in Scalar /\ b0[1] \in Scalar /\ g[1] \in Points /\ h[1] \in Points
    BY <2>1
  <2> QED BY <2>2, PointFacts, ScalarFacts
<1>2. PICK f : f = FoldResidual(g[1], h[1], p, a, b)
  OBVIOUS
<1>3. p \in Points
  BY CrossOfOne
<1>4. ASSUME NEW c \in Bases
      PROVE  /\ g[1][c] \in Int /\ h[1][c] \in Int /\ HBlind[c] \in Int
             /\ out \in Points
             /\ Same(out[c], HBlind[c] * u + (Term(g[1][c], a0[1], h[1][c], b0[1], HBlind[c])
                                              - Term(g[1][c], a, h[1][c], b, HBlind[c])), FR_MODULUS)
  <2>1. PICK gc \in Int, hc \in Int, qc \in Int : gc = g[1][c] /\ hc = h[1][c] /\ qc = HBlind[c]
    <3>1. g[1][c] \in Scalar /\ h[1][c] \in Scalar /\ HBlind[c] \in Scalar
      BY <1>1 DEF Points
    <3> QED BY <3>1, ScalarFacts
  <2>2. PICK t0 \in Int : t0 = Term(gc, a0[1], hc, b0[1], qc) /\ Same(p[c], t0, FR_MODULUS)
    BY <2>1, CrossOfOne
  <2>3. f \in Points /\ Same(f[c], t0 - Term(gc, a, hc, b, qc), FR_MODULUS)
    <3>1. PICK gp \in Points, hp \in Points : gp = g[1] /\ hp = h[1]
      BY <1>1
    <3>2. f = FoldResidual(gp, hp, p, a, b)
      BY <1>2, <3>1
    <3>3. f \in Points /\ Same(f[c], t0 - Term(gp[c], a, hp[c], b, HBlind[c]), FR_MODULUS)
      <4>1. PICK pp : pp = p
        OBVIOUS
      <4>2. pp \in Points /\ Same(pp[c], t0, FR_MODULUS) /\ f = FoldResidual(gp, hp, pp, a, b)
        BY <1>3, <2>2, <3>2, <4>1
      <4> QED BY <4>2, FoldResidualIs
    <3> QED BY <2>1, <3>1, <3>3
  <2>4. PICK t1 \in Int : t1 = Term(gc, a, hc, b, qc)
    <3>1. gc * a + hc * b + qc * (a * b) \in Int
      BY <1>1, <2>1
    <3> QED BY <3>1 DEF Term
  <2>5. PICK v \in Int, w \in Int : v = t0 - t1 /\ w = qc * u
    <3>1. t0 - t1 \in Int /\ qc * u \in Int
      OBVIOUS
    <3> QED BY <3>1, Zenon
  <2>6. Same(r1[c], w, FR_MODULUS) /\ Same(f[c], v, FR_MODULUS) /\ 1 \in Int /\ Same(1, 1, FR_MODULUS)
    BY <1>1, <2>1, <2>3, <2>4, <2>5, SameChain DEF Blinds
  <2>7. out = AddScaled(r1, f, 1)
    BY <1>2 DEF Residual
  <2>8. out \in Points /\ Same(out[c], w + v * 1, FR_MODULUS)
    BY <2>3, <2>6, <2>7, AddScaledOf
  <2>9. w + v * 1 = w + v
    OBVIOUS
  <2> QED BY <2>1, <2>2, <2>4, <2>5, <2>8, <2>9
<1>5. PICK c0 : c0 \in Bases
  BY PointFacts
<1> QED BY <1>4, <1>5


(* The first generators, which no other place of the vectors holds.         *)
Supports(g, h, n) ==
    /\ g[1][<<"g", 1>>] # 0 /\ h[1][<<"h", 1>>] # 0
    /\ \A k \in 1..n : /\ k # 1 => g[k][<<"g", 1>>] = 0 /\ h[k][<<"h", 1>>] = 0
                       /\ h[k][<<"g", 1>>] = 0 /\ g[k][<<"h", 1>>] = 0

LEMMA BlindGenerator ==
  /\ <<"g", 1>> \in Bases /\ <<"h", 1>> \in Bases /\ <<"H", 0>> \in Bases
  /\ HBlind[<<"g", 1>>] = 0 /\ HBlind[<<"h", 1>>] = 0 /\ HBlind[<<"H", 0>>] = 1
<1>1. 1 \in Index
  BY Length DEF Index
<1> QED BY <1>1, PointFacts DEF HBlind, Base

(* The residual of the prover's own last scalars is the origin.             *)
LEMMA HonestVanishes ==
  ASSUME NEW r1 \in Points, Blinds(r1, 0),
         NEW a0, NEW g, NEW b0, NEW h, Vectors(a0, g, b0, h, 1), NEW p, p = Cross(a0, g, b0, h)
  PROVE  Residual(r1, g[1], h[1], p, a0[1], b0[1]) = Origin
<1>1. PICK out : out = Residual(r1, g[1], h[1], p, a0[1], b0[1])
  OBVIOUS
<1>2. a0[1] \in Scalar /\ b0[1] \in Scalar /\ 0 \in Int /\ FR_MODULUS \in Nat /\ Origin \in Points
  <2>1. 1 \in 1..1 /\ a0 \in [1..1 -> Scalar] /\ b0 \in [1..1 -> Scalar]
    BY DEF Vectors
  <2> QED BY <2>1, ScalarFacts, PointFacts
<1>3. /\ out \in Points
      /\ \A c \in Bases :
           /\ g[1][c] \in Int /\ h[1][c] \in Int /\ HBlind[c] \in Int
           /\ Same(out[c], HBlind[c] * 0 + (Term(g[1][c], a0[1], h[1][c], b0[1], HBlind[c])
                                            - Term(g[1][c], a0[1], h[1][c], b0[1], HBlind[c])), FR_MODULUS)
  <2>1. PICK a \in Scalar, b \in Scalar : a = a0[1] /\ b = b0[1]
    BY <1>2
  <2>2. out = Residual(r1, g[1], h[1], p, a, b)
    BY <1>1, <2>1
  <2>3. /\ out \in Points
        /\ \A c \in Bases :
             /\ g[1][c] \in Int /\ h[1][c] \in Int /\ HBlind[c] \in Int
             /\ Same(out[c], HBlind[c] * 0 + (Term(g[1][c], a0[1], h[1][c], b0[1], HBlind[c])
                                              - Term(g[1][c], a, h[1][c], b, HBlind[c])), FR_MODULUS)
    BY <1>2, <2>2, ResidualIs
  <2> QED BY <2>1, <2>3
<1>4. ASSUME NEW c \in Bases PROVE Same(out[c], Origin[c], FR_MODULUS)
  <2>1. PICK t0 \in Int : t0 = Term(g[1][c], a0[1], h[1][c], b0[1], HBlind[c])
    BY CrossOfOne
  <2>2. HBlind[c] * 0 + (t0 - t0) = 0
    BY <1>3
  <2> QED BY <1>3, <2>1, <2>2 DEF Origin
<1> QED BY <1>1, <1>2, <1>3, <1>4, PointIs

(* A scalar and one more.                                                   *)
LEMMA OneMore ==
  ASSUME NEW a \in Scalar
  PROVE  ScAdd(a, 1) \in Scalar /\ Same(ScAdd(a, 1) - a, 1, FR_MODULUS) /\ Same(a - ScAdd(a, 1), -1, FR_MODULUS)
<1>1. PICK b : b = ScAdd(a, 1)
  OBVIOUS
<1>2. 1 \in Scalar /\ a \in Int /\ FR_MODULUS \in Nat
  BY ScalarFacts
<1>3. b \in Scalar /\ Same(b, a + 1, FR_MODULUS)
  BY <1>1, <1>2, ScAddIs
<1>4. b \in Int
  BY <1>3, ScalarFacts
<1>5. Same(b + (-a), (a + 1) + (-a), FR_MODULUS)
  <2>1. -a \in Int /\ a + 1 \in Int /\ Same(-a, -a, FR_MODULUS)
    BY <1>2, SameChain
  <2> QED BY <1>2, <1>3, <1>4, <2>1, SameSum
<1>6. PICK d \in Int : d = b - a
  BY <1>2, <1>4
<1>7. Same(d, 1, FR_MODULUS)
  <2>1. b + (-a) = d /\ (a + 1) + (-a) = 1
    BY <1>2, <1>4, <1>6
  <2> QED BY <1>5, <2>1
<1>8. Same((-1) * d, (-1) * 1, FR_MODULUS)
  <2>1. -1 \in Int /\ 1 \in Int
    OBVIOUS
  <2> QED BY <1>2, <1>7, <2>1, SameTimes
<1>9. (-1) * d = a - b /\ (-1) * 1 = -1
  BY <1>2, <1>4, <1>6
<1> QED BY <1>1, <1>3, <1>6, <1>7, <1>8, <1>9

(* A scalar not zero is not congruent to zero, nor is its opposite.         *)
LEMMA NotZero ==
  ASSUME NEW o \in Scalar, NEW s \in Scalar, s # 0, NEW d \in Int, Same(d, 1, FR_MODULUS) \/ Same(d, -1, FR_MODULUS),
         Same(o, s * d, FR_MODULUS)
  PROVE  o # 0
<1> SUFFICES ASSUME o = 0 PROVE FALSE
  OBVIOUS
<1>1. FR_MODULUS \in Nat /\ s \in Int /\ 0 \in Int /\ 0 \in Scalar /\ -1 \in Int /\ 1 \in Int
  BY ScalarFacts
<1>2. PICK sd \in Int : sd = s * d
  BY <1>1
<1>3. Same(sd, 0, FR_MODULUS)
  BY <1>1, <1>2, SameChain
<1>4. CASE Same(d, 1, FR_MODULUS)
  <2>1. Same(s * d, s, FR_MODULUS)
    <3>1. Same(s * d, s * 1, FR_MODULUS)
      BY <1>1, <1>4, SameTimes
    <3>2. s * 1 = s
      BY <1>1
    <3> QED BY <3>1, <3>2
  <2>2. Same(s, sd, FR_MODULUS)
    BY <1>1, <1>2, <2>1, SameChain
  <2>3. Same(s, 0, FR_MODULUS)
    BY <1>1, <1>3, <2>2, SameChain
  <2> QED BY <1>1, <2>3, ScalarIs
<1>5. CASE Same(d, -1, FR_MODULUS)
  <2>1. Same(s * d, s * (-1), FR_MODULUS)
    BY <1>1, <1>5, SameTimes
  <2>2. PICK ns \in Int : ns = s * (-1)
    BY <1>1
  <2>3. Same(ns, sd, FR_MODULUS)
    BY <1>1, <1>2, <2>1, <2>2, SameChain
  <2>4. Same(ns, 0, FR_MODULUS)
    BY <1>1, <1>3, <2>2, <2>3, SameChain
  <2>5. Same((-1) * ns, (-1) * 0, FR_MODULUS)
    BY <1>1, <2>2, <2>4, SameTimes
  <2>6. (-1) * ns = s /\ (-1) * 0 = 0
    BY <1>1, <2>2
  <2>7. Same(s, 0, FR_MODULUS)
    BY <2>5, <2>6
  <2> QED BY <1>1, <2>7, ScalarIs
<1> QED BY <1>4, <1>5

(* The residual of other last scalars is not the origin.                    *)
LEMMA AlteredBlinding ==
  ASSUME NEW r1 \in Points, NEW u \in Int, Same(u, 1, FR_MODULUS), Blinds(r1, u),
         NEW a0, NEW g, NEW b0, NEW h, Vectors(a0, g, b0, h, 1), NEW p, p = Cross(a0, g, b0, h)
  PROVE  /\ Residual(r1, g[1], h[1], p, a0[1], b0[1]) \in Points
         /\ Residual(r1, g[1], h[1], p, a0[1], b0[1]) # Origin
<1> DEFINE c == <<"H", 0>>
<1>1. PICK a \in Scalar, b \in Scalar : a = a0[1] /\ b = b0[1]
  <2>1. 1 \in 1..1 /\ a0 \in [1..1 -> Scalar] /\ b0 \in [1..1 -> Scalar]
    BY DEF Vectors
  <2> QED BY <2>1
<1>2. PICK out : out = Residual(r1, g[1], h[1], p, a, b)
  OBVIOUS
<1>3. c \in Bases /\ HBlind[c] = 1
  BY BlindGenerator
<1> HIDE DEF c
<1>4. /\ out \in Points
      /\ Same(out[c], HBlind[c] * u + (Term(g[1][c], a0[1], h[1][c], b0[1], HBlind[c])
                                       - Term(g[1][c], a, h[1][c], b, HBlind[c])), FR_MODULUS)
  BY <1>2, <1>3, ResidualIs
<1>5. PICK t0 \in Int : t0 = Term(g[1][c], a0[1], h[1][c], b0[1], HBlind[c])
  BY <1>3, CrossOfOne
<1>6. HBlind[c] * u + (t0 - t0) = 1 * u
  BY <1>3
<1>7. Same(out[c], 1 * u, FR_MODULUS)
  BY <1>1, <1>4, <1>5, <1>6
<1>8. PICK o \in Scalar : o = out[c]
  BY <1>3, <1>4 DEF Points
<1>9. 1 \in Scalar /\ 1 # 0
  BY ScalarFacts
<1>10. o # 0
  BY <1>7, <1>8, <1>9, NotZero
<1>11. Origin[c] = 0
  BY <1>3 DEF Origin
<1> QED BY <1>1, <1>2, <1>4, <1>8, <1>10, <1>11

LEMMA AlteredLeft ==
  ASSUME NEW r1 \in Points, Blinds(r1, 0),
         NEW a0, NEW g, NEW b0, NEW h, Vectors(a0, g, b0, h, 1), NEW p, p = Cross(a0, g, b0, h),
         Supports(g, h, 1), NEW a, a = ScAdd(a0[1], 1)
  PROVE  /\ Residual(r1, g[1], h[1], p, a, b0[1]) \in Points
         /\ Residual(r1, g[1], h[1], p, a, b0[1]) # Origin
<1> DEFINE c == <<"g", 1>>
<1>1. PICK s \in Scalar, b \in Scalar : s = a0[1] /\ b = b0[1]
  <2>1. 1 \in 1..1 /\ a0 \in [1..1 -> Scalar] /\ b0 \in [1..1 -> Scalar]
    BY DEF Vectors
  <2> QED BY <2>1
<1>2. a \in Scalar /\ Same(s - a, -1, FR_MODULUS)
  BY <1>1, OneMore
<1>3. PICK out : out = Residual(r1, g[1], h[1], p, a, b)
  OBVIOUS
<1>4. c \in Bases /\ HBlind[c] = 0 /\ h[1][c] = 0 /\ g[1][c] # 0
  <2>1. 1 \in 1..1
    OBVIOUS
  <2> QED BY <2>1, BlindGenerator DEF Supports
<1>5. PICK gc \in Scalar : gc = g[1][c]
  <2>1. 1 \in 1..1 /\ g \in [1..1 -> Points]
    BY DEF Vectors
  <2>2. g[1] \in Points
    BY <2>1
  <2> QED BY <1>4, <2>2 DEF Points
<1> HIDE DEF c
<1>6. /\ out \in Points
      /\ Same(out[c], HBlind[c] * 0 + (Term(g[1][c], a0[1], h[1][c], b0[1], HBlind[c])
                                       - Term(g[1][c], a, h[1][c], b, HBlind[c])), FR_MODULUS)
  <2>1. 0 \in Int
    OBVIOUS
  <2> QED BY <1>2, <1>3, <1>4, <2>1, ResidualIs
<1>7. Same(out[c], 0 * 0 + (Term(gc, s, 0, b, 0) - Term(gc, a, 0, b, 0)), FR_MODULUS)
  BY <1>1, <1>4, <1>5, <1>6
<1>8. 0 * 0 + (Term(gc, s, 0, b, 0) - Term(gc, a, 0, b, 0)) = gc * (s - a)
  <2>1. gc \in Int /\ s \in Int /\ a \in Int /\ b \in Int
    BY <1>2, ScalarFacts
  <2>2. Term(gc, s, 0, b, 0) = gc * s
    <3>1. 0 * b = 0 /\ 0 * (s * b) = 0 /\ gc * s \in Int
      BY <2>1
    <3> QED BY <3>1 DEF Term
  <2>3. Term(gc, a, 0, b, 0) = gc * a
    <3>1. 0 * b = 0 /\ 0 * (a * b) = 0 /\ gc * a \in Int
      BY <2>1
    <3> QED BY <3>1 DEF Term
  <2>4. gc * (s - a) = gc * s - gc * a
    BY <2>1, Z3
  <2>5. PICK u1 \in Int, u2 \in Int : u1 = gc * s /\ u2 = gc * a
    BY <2>1
  <2> QED BY <2>2, <2>3, <2>4, <2>5
<1>9. PICK o \in Scalar : o = out[c]
  BY <1>4, <1>6 DEF Points
<1>10. PICK d \in Int : d = s - a
  BY <1>2, ScalarFacts
<1>11. o # 0
  BY <1>2, <1>4, <1>5, <1>7, <1>8, <1>9, <1>10, NotZero
<1>12. Origin[c] = 0
  BY <1>4 DEF Origin
<1> QED BY <1>1, <1>3, <1>6, <1>9, <1>11, <1>12

LEMMA AlteredRight ==
  ASSUME NEW r1 \in Points, Blinds(r1, 0),
         NEW a0, NEW g, NEW b0, NEW h, Vectors(a0, g, b0, h, 1), NEW p, p = Cross(a0, g, b0, h),
         Supports(g, h, 1), NEW b, b = ScAdd(b0[1], 1)
  PROVE  /\ Residual(r1, g[1], h[1], p, a0[1], b) \in Points
         /\ Residual(r1, g[1], h[1], p, a0[1], b) # Origin
<1> DEFINE c == <<"h", 1>>
<1>1. PICK a \in Scalar, s \in Scalar : a = a0[1] /\ s = b0[1]
  <2>1. 1 \in 1..1 /\ a0 \in [1..1 -> Scalar] /\ b0 \in [1..1 -> Scalar]
    BY DEF Vectors
  <2> QED BY <2>1
<1>2. b \in Scalar /\ Same(s - b, -1, FR_MODULUS)
  BY <1>1, OneMore
<1>3. PICK out : out = Residual(r1, g[1], h[1], p, a, b)
  OBVIOUS
<1>4. c \in Bases /\ HBlind[c] = 0 /\ g[1][c] = 0 /\ h[1][c] # 0
  <2>1. 1 \in 1..1
    OBVIOUS
  <2> QED BY <2>1, BlindGenerator DEF Supports
<1>5. PICK hc \in Scalar : hc = h[1][c]
  <2>1. 1 \in 1..1 /\ h \in [1..1 -> Points]
    BY DEF Vectors
  <2>2. h[1] \in Points
    BY <2>1
  <2> QED BY <1>4, <2>2 DEF Points
<1> HIDE DEF c
<1>6. /\ out \in Points
      /\ Same(out[c], HBlind[c] * 0 + (Term(g[1][c], a0[1], h[1][c], b0[1], HBlind[c])
                                       - Term(g[1][c], a, h[1][c], b, HBlind[c])), FR_MODULUS)
  <2>1. 0 \in Int
    OBVIOUS
  <2> QED BY <1>2, <1>3, <1>4, <2>1, ResidualIs
<1>7. Same(out[c], 0 * 0 + (Term(0, a, hc, s, 0) - Term(0, a, hc, b, 0)), FR_MODULUS)
  BY <1>1, <1>4, <1>5, <1>6
<1>8. 0 * 0 + (Term(0, a, hc, s, 0) - Term(0, a, hc, b, 0)) = hc * (s - b)
  <2>1. hc \in Int /\ s \in Int /\ a \in Int /\ b \in Int
    BY <1>2, ScalarFacts
  <2>2. Term(0, a, hc, s, 0) = hc * s
    <3>1. 0 * a = 0 /\ 0 * (a * s) = 0 /\ hc * s \in Int
      BY <2>1
    <3> QED BY <3>1 DEF Term
  <2>3. Term(0, a, hc, b, 0) = hc * b
    <3>1. 0 * a = 0 /\ 0 * (a * b) = 0 /\ hc * b \in Int
      BY <2>1
    <3> QED BY <3>1 DEF Term
  <2>4. hc * (s - b) = hc * s - hc * b
    BY <2>1, Z3
  <2>5. PICK u1 \in Int, u2 \in Int : u1 = hc * s /\ u2 = hc * b
    BY <2>1
  <2> QED BY <2>2, <2>3, <2>4, <2>5
<1>9. PICK o \in Scalar : o = out[c]
  BY <1>4, <1>6 DEF Points
<1>10. PICK d \in Int : d = s - b
  BY <1>2, ScalarFacts
<1>11. o # 0
  BY <1>2, <1>4, <1>5, <1>7, <1>8, <1>9, <1>10, NotZero
<1>12. Origin[c] = 0
  BY <1>4 DEF Origin
<1> QED BY <1>1, <1>3, <1>6, <1>9, <1>11, <1>12


-----------------------------------------------------------------------------
(* A batch of residuals that are all zero, whatever the weights.            *)
LEMMA BatchOfOrigins ==
  ASSUME NEW n \in Nat, NEW rs, Len(rs) = n, NEW ws, \A k \in 1..n : rs[k] = Origin /\ ws[k] \in Int
  PROVE  Msm(rs, ws) = Origin
<1>1. Origin \in Points /\ FR_MODULUS \in Nat
  BY PointFacts, ScalarFacts
<1>2. PICK out : out = Msm(rs, ws)
  OBVIOUS
<1>3. /\ out \in Points
      /\ \A c \in Bases : Same(out[c], SumOf([k \in 1..n |-> rs[k][c] * ws[k]], n), FR_MODULUS)
  BY <1>1, <1>2, MsmIs
<1>4. ASSUME NEW c \in Bases PROVE Same(out[c], Origin[c], FR_MODULUS)
  <2>1. PICK hs : hs = [k \in 1..n |-> rs[k][c] * ws[k]]
    OBVIOUS
  <2>2. \A k \in 1..n : hs[k] = 0
    BY <2>1 DEF Origin
  <2>3. SumOf(hs, n) = 0
    BY <2>2, SumOfZeros
  <2>4. Origin[c] = 0
    BY DEF Origin
  <2> QED BY <1>3, <2>1, <2>3, <2>4
<1> QED BY <1>1, <1>2, <1>3, <1>4, PointIs

LEMMA BatchWithOneWrong ==
  ASSUME NEW n \in Nat, NEW rs, Len(rs) = n, NEW ws, NEW j \in 1..n,
         \A k \in 1..n : rs[k] \in Points /\ ws[k] \in Scalar,
         \A k \in 1..n : k # j => rs[k] = Origin,
         rs[j] # Origin, ws[j] # 0
  PROVE  Msm(rs, ws) # Origin
<1> SUFFICES ASSUME Msm(rs, ws) = Origin PROVE FALSE
  OBVIOUS
<1>1. Origin \in Points /\ FR_MODULUS \in Nat /\ \A k \in 1..n : ws[k] \in Int
  BY PointFacts, ScalarFacts
<1>2. \A c \in Bases : Same(Origin[c], SumOf([k \in 1..n |-> rs[k][c] * ws[k]], n), FR_MODULUS)
  BY <1>1, MsmIs
<1>3. ASSUME NEW c \in Bases PROVE rs[j][c] = 0
  <2>1. PICK hs : hs = [k \in 1..n |-> rs[k][c] * ws[k]]
    OBVIOUS
  <2>2. PICK s \in Scalar, w \in Scalar : s = rs[j][c] /\ w = ws[j]
    <3>1. rs[j] \in Points /\ ws[j] \in Scalar
      OBVIOUS
    <3>2. rs[j] \in [Bases -> Scalar]
      BY <3>1 DEF Points
    <3>3. rs[j][c] \in Scalar
      BY <3>2
    <3> QED BY <3>1, <3>3
  <2>3. s * w \in Int /\ hs[j] = s * w
    <3>1. s \in Int /\ w \in Int
      BY ScalarFacts
    <3>2. hs[j] = rs[j][c] * ws[j]
      BY <2>1
    <3>3. hs[j] = s * w
      BY <2>2, <3>2
    <3>4. s * w \in Int
      BY <3>1
    <3> QED BY <3>3, <3>4
  <2>4. ASSUME NEW k \in 1..n, k # j PROVE hs[k] = 0
    <3>1. rs[k][c] = 0
      BY <2>4 DEF Origin
    <3>2. 0 * ws[k] = 0
      BY <1>1
    <3> QED BY <2>1, <3>1, <3>2
  <2>5. SumOf(hs, n) = s * w
    <3>1. hs[j] \in Int
      BY <2>3
    <3>2. SumOf(hs, n) = hs[j]
      BY <2>4, <3>1, SumOfOne
    <3> QED BY <2>3, <3>2
  <2>6. Origin[c] = 0
    BY DEF Origin
  <2>7. Same(0, s * w, FR_MODULUS)
    BY <1>2, <2>1, <2>5, <2>6
  <2>8. PICK sw \in Int : sw = s * w
    BY <2>3
  <2>9. Same(sw, 0, FR_MODULUS)
    <3>1. 0 \in Int
      OBVIOUS
    <3> QED BY <1>1, <2>7, <2>8, <3>1, SameChain
  <2>10. s = 0 \/ w = 0
    BY <2>8, <2>9, NoZeroDivisors
  <2> QED BY <2>2, <2>10
<1>4. rs[j] = Origin
  <2>1. rs[j] \in [Bases -> Scalar]
    BY DEF Points
  <2> QED BY <1>3, <2>1 DEF Origin
<1> QED BY <1>4

-----------------------------------------------------------------------------
(* The folding by the verifier, round by round.                             *)

FoldStep(prev, e, l, r) ==
    [g |-> Halve(prev.g, ScInv[e], e), h |-> Halve(prev.h, e, ScInv[e]),
     p |-> FoldCommitments(prev.p, l, r, e)]
Chain(f, n, dr, pl, pr, start) ==
    /\ f = [k \in 0..n |-> f[k]] /\ f[0] = start
    /\ \A k \in 1..n : f[k] = FoldStep(f[k - 1], dr[3 + k], pl[k], pr[k])

(* A round more.                                                            *)
LEMMA ChainExtends ==
  ASSUME NEW n \in Nat, NEW dr \in Seq(Scalar), Len(dr) = 3 + n,
         NEW pl \in Seq(Points), Len(pl) = n, NEW pr \in Seq(Points), Len(pr) = n,
         NEW start, NEW f, Chain(f, n, dr, pl, pr, start),
         NEW e \in Scalar, NEW l \in Points, NEW r \in Points
  PROVE  \E f1 : /\ Chain(f1, n + 1, Append(dr, e), Append(pl, l), Append(pr, r), start)
                 /\ f1[n + 1] = FoldStep(f[n], e, l, r)
<1> DEFINE last == FoldStep(f[n], e, l, r)
           f1 == [k \in 0..(n + 1) |-> IF k = n + 1 THEN last ELSE f[k]]
<1>1. /\ \A k \in 1..n : Append(dr, e)[3 + k] = dr[3 + k] /\ Append(pl, l)[k] = pl[k]
                         /\ Append(pr, r)[k] = pr[k]
      /\ Append(dr, e)[3 + (n + 1)] = e /\ Append(pl, l)[n + 1] = l /\ Append(pr, r)[n + 1] = r
  OBVIOUS
<1> HIDE DEF last
<1>2. f1 = [k \in 0..(n + 1) |-> f1[k]] /\ f1[0] = f[0] /\ f1[n + 1] = last
      /\ \A k \in 0..n : f1[k] = f[k]
  OBVIOUS
<1> HIDE DEF f1
<1>3. ASSUME NEW k \in 1..(n + 1)
      PROVE  f1[k] = FoldStep(f1[k - 1], Append(dr, e)[3 + k], Append(pl, l)[k], Append(pr, r)[k])
  <2>1. k - 1 \in 0..n /\ (k \in 1..n \/ k = n + 1)
    OBVIOUS
  <2>2. CASE k \in 1..n
    <3>1. f[k] = FoldStep(f[k - 1], dr[3 + k], pl[k], pr[k])
      BY <2>2 DEF Chain
    <3>2. f1[k] = f[k] /\ f1[k - 1] = f[k - 1]
      <4>1. k \in 0..n
        BY <2>2
      <4> QED BY <1>2, <2>1, <4>1
    <3> QED BY <1>1, <2>2, <3>1, <3>2
  <2>3. CASE k = n + 1
    <3>1. k - 1 = n /\ n \in 0..n
      BY <2>3
    <3>2. f1[k - 1] = f[n]
      BY <1>2, <3>1
    <3> QED BY <1>1, <1>2, <2>3, <3>2 DEF last
  <2> QED BY <2>1, <2>2, <2>3
<1>4. f[0] = start
  BY DEF Chain
<1>5. Chain(f1, n + 1, Append(dr, e), Append(pl, l), Append(pr, r), start)
  BY <1>2, <1>3, <1>4 DEF Chain
<1> QED BY <1>2, <1>5 DEF last

(* What the verifier folds is the end of the chain.                         *)
LEMMA FoldIsChain ==
  ASSUME NEW p0, NEW g0, NEW h0, NEW f,
         Chain(f, IP_ROUNDS, drawn, proof.l, proof.r, [g |-> g0, h |-> h0, p |-> p0])
  PROVE  IpaFold(p0, g0, h0) = f[IP_ROUNDS]
<1> DEFINE n == IP_ROUNDS
           start == [g |-> g0, h |-> h0, p |-> p0]
           Step(v, k) == IF k = 0 THEN start ELSE FoldStep(v[k - 1], drawn[3 + k], proof.l[k], proof.r[k])
           Follows(v) == v = [k \in 0..n |-> Step(v, k)]
           choice == CHOOSE v : Follows(v)
<1>1. IpaFold(p0, g0, h0) = choice[n]
  BY DEF IpaFold, FoldStep
<1>2. n \in Nat
  BY Length
<1> HIDE DEF start
<1>3. Follows(f)
  <2>1. f = [k \in 0..n |-> f[k]] /\ f[0] = start
        /\ \A k \in 1..n : f[k] = FoldStep(f[k - 1], drawn[3 + k], proof.l[k], proof.r[k])
    BY DEF Chain, start
  <2>2. ASSUME NEW k \in 0..n PROVE f[k] = Step(f, k)
    <3>1. k = 0 \/ (k # 0 /\ k \in 1..n)
      BY <1>2
    <3> QED BY <2>1, <3>1
  <2> QED BY <2>1, <2>2
<1>4. Follows(choice)
  <2>1. \E v : Follows(v)
    BY <1>3
  <2> HIDE DEF Follows
  <2> QED BY <2>1
<1>5. \A k \in 0..n : choice[k] = Step(choice, k) /\ f[k] = Step(f, k)
  BY <1>3, <1>4
<1> DEFINE Q == {k \in Nat : k <= n => choice[k] = f[k]}
<1>6. 0 \in Q
  <2>1. 0 \in 0..n
    BY <1>2
  <2> QED BY <1>5, <2>1
<1>7. ASSUME NEW k \in Q PROVE k + 1 \in Q
  <2> SUFFICES ASSUME k + 1 <= n PROVE choice[k + 1] = f[k + 1]
    OBVIOUS
  <2>1. k \in Nat /\ k <= n /\ k + 1 \in 0..n /\ (k + 1) - 1 = k /\ k + 1 # 0
    BY <1>2
  <2>2. choice[k] = f[k]
    BY <2>1
  <2> HIDE DEF choice, Q
  <2> QED BY <1>5, <2>1, <2>2
<1>8. n \in Q
  <2>1. Q \in SUBSET Nat
    OBVIOUS
  <2>2. Q = Nat
    <3> HIDE DEF Q
    <3> QED BY <1>6, <1>7, <2>1, Inductive
  <2> QED BY <1>2, <2>2
<1>9. choice[n] = f[n]
  BY <1>2, <1>8
<1> QED BY <1>1, <1>9


-----------------------------------------------------------------------------
(* Folding keeps the first generators apart from all others.                *)

LEMMA HalvedPlaces ==
  ASSUME NEW n \in Nat, NEW v \in [1..(2 * n) -> Points], NEW lo \in Scalar, NEW hi \in Scalar,
         NEW c \in Bases, NEW k \in 1..n, v[n + k][c] = 0
  PROVE  /\ v[k][c] = 0 => Halve(v, lo, hi)[k][c] = 0
         /\ v[k][c] # 0 /\ lo # 0 => Halve(v, lo, hi)[k][c] # 0
<1>1. PICK w : w = Halve(v, lo, hi)
  OBVIOUS
<1>2. w \in [1..n -> Points] /\ Same(w[k][c], v[k][c] * lo + v[n + k][c] * hi, FR_MODULUS)
  BY <1>1, HalveIs
<1>3. PICK o \in Scalar, s \in Scalar : o = w[k][c] /\ s = v[k][c]
  <2>1. k \in 1..(2 * n)
    OBVIOUS
  <2>2. w[k] \in Points /\ v[k] \in Points
    BY <1>2, <2>1
  <2> QED BY <2>2 DEF Points
<1>4. o \in Int /\ s \in Int /\ lo \in Int /\ hi \in Int /\ 0 \in Int /\ 0 \in Scalar /\ FR_MODULUS \in Nat
  BY ScalarFacts
<1>5. Same(o, s * lo, FR_MODULUS)
  <2>1. s * lo + 0 * hi = s * lo
    <3>1. s * lo \in Int /\ 0 * hi = 0
      BY <1>4
    <3> QED BY <3>1
  <2> QED BY <1>2, <1>3, <2>1
<1>6. PICK p \in Int : p = s * lo
  BY <1>4
<1>7. ASSUME s = 0 PROVE o = 0
  <2>1. p = 0
    BY <1>4, <1>6, <1>7
  <2> QED BY <1>4, <1>5, <1>6, <2>1, ScalarIs
<1>8. ASSUME s # 0, lo # 0, o = 0 PROVE FALSE
  <2>1. Same(p, 0, FR_MODULUS)
    BY <1>4, <1>5, <1>6, <1>8, SameChain
  <2>2. Same(s * lo, 0, FR_MODULUS)
    BY <1>6, <2>1
  <2> QED BY <1>8, <2>2, NoZeroDivisors
<1> QED BY <1>1, <1>3, <1>7, <1>8

LEMMA SupportsHalved ==
  ASSUME NEW n \in Nat, n > 0, NEW g \in [1..(2 * n) -> Points], NEW h \in [1..(2 * n) -> Points],
         NEW e \in Scalar, e # 0, NEW d, d = ScInv[e], Supports(g, h, 2 * n)
  PROVE  Supports(Halve(g, d, e), Halve(h, e, d), n)
<1> DEFINE cg == <<"g", 1>>
           ch == <<"h", 1>>
<1>1. d \in Scalar /\ d # 0
  <2>1. d \in Scalar /\ Same(e * d, 1, FR_MODULUS)
    BY ScInvIs
  <2> SUFFICES ASSUME d = 0 PROVE FALSE
    BY <2>1
  <2>2. e * 0 = 0 /\ 0 \in Scalar /\ 1 \in Scalar
    BY ScalarFacts
  <2>3. Same(0, 1, FR_MODULUS)
    BY <2>1, <2>2
  <2> QED BY <2>2, <2>3, ScalarIs
<1>2. cg \in Bases /\ ch \in Bases
  BY BlindGenerator
<1>3. /\ g[1][cg] # 0 /\ h[1][ch] # 0
      /\ \A k \in 1..(2 * n) : /\ k # 1 => g[k][cg] = 0 /\ h[k][ch] = 0
                               /\ h[k][cg] = 0 /\ g[k][ch] = 0
  BY DEF Supports
<1> HIDE DEF cg, ch
<1>4. ASSUME NEW k \in 1..n
      PROVE  /\ k # 1 => Halve(g, d, e)[k][cg] = 0 /\ Halve(h, e, d)[k][ch] = 0
             /\ k = 1 => Halve(g, d, e)[k][cg] # 0 /\ Halve(h, e, d)[k][ch] # 0
             /\ Halve(h, e, d)[k][cg] = 0 /\ Halve(g, d, e)[k][ch] = 0
  <2>1. k \in 1..(2 * n) /\ n + k \in 1..(2 * n) /\ n + k # 1
    OBVIOUS
  <2>2. g[n + k][cg] = 0 /\ h[n + k][ch] = 0 /\ h[n + k][cg] = 0 /\ g[n + k][ch] = 0
        /\ h[k][cg] = 0 /\ g[k][ch] = 0
    BY <1>3, <2>1
  <2>3. Halve(h, e, d)[k][cg] = 0 /\ Halve(g, d, e)[k][ch] = 0
    <3>1. Halve(h, e, d)[k][cg] = 0
      <4>1. d \in Scalar /\ cg \in Bases /\ h[n + k][cg] = 0 /\ h[k][cg] = 0
        BY <1>1, <1>2, <2>2
      <4>2. h[k][cg] = 0 => Halve(h, e, d)[k][cg] = 0
        BY <4>1, HalvedPlaces
      <4> QED BY <4>1, <4>2
    <3>2. Halve(g, d, e)[k][ch] = 0
      <4>1. d \in Scalar /\ ch \in Bases /\ g[n + k][ch] = 0 /\ g[k][ch] = 0
        BY <1>1, <1>2, <2>2
      <4>2. g[k][ch] = 0 => Halve(g, d, e)[k][ch] = 0
        BY <4>1, HalvedPlaces
      <4> QED BY <4>1, <4>2
    <3> QED BY <3>1, <3>2
  <2>4. CASE k # 1
    <3>1. g[k][cg] = 0 /\ h[k][ch] = 0
      BY <1>3, <2>1, <2>4
    <3>2. Halve(g, d, e)[k][cg] = 0 /\ Halve(h, e, d)[k][ch] = 0
      BY <1>1, <1>2, <2>2, <3>1, HalvedPlaces
    <3> QED BY <2>3, <2>4, <3>2
  <2>5. CASE k = 1
    <3>1. g[k][cg] # 0 /\ h[k][ch] # 0
      BY <1>3, <2>5
    <3>2. Halve(g, d, e)[k][cg] # 0 /\ Halve(h, e, d)[k][ch] # 0
      BY <1>1, <1>2, <2>2, <3>1, HalvedPlaces
    <3> QED BY <2>3, <2>5, <3>2
  <2> QED BY <2>4, <2>5
<1>5. 1 \in 1..n
  OBVIOUS
<1> QED BY <1>4, <1>5 DEF Supports, cg, ch

LEMMA SupportsAtStart ==
  ASSUME NEW w \in Scalar
  PROVE  Supports(GVec, ComputeHTilde(w), BITS)
<1> DEFINE cg == <<"g", 1>>
           ch == <<"h", 1>>
<1>1. cg \in Bases /\ ch \in Bases /\ 1 \in Index /\ Index = 1..BITS
  BY BlindGenerator, Length DEF Index
<1>2. \A k \in Index : /\ GVec[k][cg] = (IF k = 1 THEN 1 ELSE 0) /\ GVec[k][ch] = 0
                       /\ HVec[k][ch] = (IF k = 1 THEN 1 ELSE 0) /\ HVec[k][cg] = 0
  BY <1>1 DEF GVec, HVec, Base
<1> HIDE DEF cg, ch
<1>3. PICK ht : ht = ComputeHTilde(w)
  OBVIOUS
<1>4. PICK pw : pw = Powers(ScInv[w])
  OBVIOUS
<1>5. ht \in [Index -> Points] /\ \A k \in Index : \A c \in Bases : Same(ht[k][c], HVec[k][c] * pw[k], FR_MODULUS)
  BY <1>3, <1>4, Generators
<1>6. pw \in [Index -> Scalar] /\ pw[1] = 1
  <2>1. PICK v \in Scalar : v = ScInv[w]
    BY ScInvIs
  <2>2. pw = Powers(v)
    BY <1>4, <2>1
  <2> QED BY <2>2, PowersAre
<1>7. ASSUME NEW k \in Index
      PROVE  ht[k][cg] = 0 /\ ht[k][ch] = (IF k = 1 THEN 1 ELSE 0)
  <2>1. PICK s \in Scalar, u1 \in Scalar, u2 \in Scalar : s = pw[k] /\ u1 = ht[k][cg] /\ u2 = ht[k][ch]
    <3>1. ht[k] \in Points
      BY <1>5
    <3> QED BY <1>1, <1>6, <3>1 DEF Points
  <2>2. s \in Int /\ 0 \in Scalar /\ 1 \in Scalar
    BY ScalarFacts
  <2>3. Same(u1, HVec[k][cg] * s, FR_MODULUS) /\ Same(u2, HVec[k][ch] * s, FR_MODULUS)
    BY <1>1, <1>5, <2>1
  <2>4. 0 * s = 0 /\ (k = 1 => 1 * s = 1)
    BY <1>6, <2>1, <2>2
  <2>5. Same(u1, 0, FR_MODULUS)
    BY <1>2, <2>3, <2>4
  <2>6. u1 = 0
    BY <2>2, <2>5, ScalarIs
  <2>7. Same(u2, IF k = 1 THEN 1 ELSE 0, FR_MODULUS)
    BY <1>2, <2>3, <2>4
  <2>8. u2 = IF k = 1 THEN 1 ELSE 0
    BY <2>2, <2>7, ScalarIs
  <2> QED BY <2>1, <2>6, <2>8
<1>8. /\ GVec[1][cg] # 0 /\ ht[1][ch] # 0
      /\ \A k \in 1..BITS : /\ k # 1 => GVec[k][cg] = 0 /\ ht[k][ch] = 0
                            /\ ht[k][cg] = 0 /\ GVec[k][ch] = 0
  BY <1>1, <1>2, <1>7
<1> QED BY <1>3, <1>8 DEF Supports, cg, ch


-----------------------------------------------------------------------------
(* The state of the argument after n rounds, of the proof and the           *)
(* challenges so far: what the verifier folds is what the prover folded,    *)
(* and the value residual leaves the difference of the blindings.           *)

StartOf(dr, pf) ==
    [g |-> GVec, h |-> ComputeHTilde(dr[1]),
     p |-> ComputeP(pf.a, pf.s, dr[1], dr[2], dr[3], pf.tHat, pf.mu)]
EndOf(ip) == [g |-> ip.g, h |-> ip.h, p |-> ip.p]
FoldedTo(n, dr, pf, ip) ==
    \E f : Chain(f, n, dr, pf.l, pf.r, StartOf(dr, pf)) /\ f[n] = EndOf(ip)
FirstResidual(dr, pf, u) == ValueResidual(pf.t1, pf.t2, pf.v, pf.tHat, dr[1], dr[2], dr[3], u)
ValueChecks(dr, pf) ==
    /\ pf.taux \in Scalar
    /\ \A u \in Scalar : /\ FirstResidual(dr, pf, u) \in Points
                         /\ Blinds(FirstResidual(dr, pf, u), u - pf.taux)
InvertibleBy(dr) == dr[1] # 0 /\ \A k \in 4..Len(dr) : dr[k] # 0
Whole(pf) ==
    pf = [v |-> pf.v, a |-> pf.a, s |-> pf.s, t1 |-> pf.t1, t2 |-> pf.t2, l |-> pf.l, r |-> pf.r,
          tHat |-> pf.tHat, mu |-> pf.mu, taux |-> pf.taux]
Lengths(n, dr, pf) ==
    /\ n \in 0..IP_ROUNDS /\ dr \in Seq(Scalar) /\ Len(dr) = 3 + n
    /\ pf.l \in Seq(Points) /\ Len(pf.l) = n /\ pf.r \in Seq(Points) /\ Len(pf.r) = n
Commits(dr, ip, size) ==
    InvertibleBy(dr) => ip.p = Cross(ip.a, ip.g, ip.b, ip.h) /\ Supports(ip.g, ip.h, size)
ArgumentHolds(n, dr, pf, ip) ==
    /\ Lengths(n, dr, pf) /\ Whole(pf) /\ ValueChecks(dr, pf) /\ FoldedTo(n, dr, pf, ip)
    /\ Vectors(ip.a, ip.g, ip.b, ip.h, TwoTo[IP_ROUNDS - n]) /\ ip.p \in Points
    /\ Commits(dr, ip, TwoTo[IP_ROUNDS - n])

LEMMA ComputePIs ==
  ASSUME NEW a \in Points, NEW s \in Points, NEW w \in Scalar, NEW z \in Scalar, NEW e \in Scalar,
         NEW tHat \in Scalar, NEW mu \in Scalar
  PROVE  ComputeP(a, s, w, z, e, tHat, mu) \in Points
<1>1. GVec \in [Index -> Points] /\ HVec \in [Index -> Points] /\ ComputeHTilde(w) \in [Index -> Points]
  BY Generators
<1>2. 0 \in Scalar /\ 2 \in Scalar /\ 1 \in Int /\ \A u \in Scalar : u \in Int
  <2>1. FR_MODULUS \in Nat /\ FR_MODULUS > 2
    BY ScalarFacts
  <2> QED BY <2>1 DEF Scalar
<1>3. SumPoints(GVec) \in Points /\ SumPoints(HVec) \in Points
  <2>1. Ones \in [Index -> Scalar] /\ SumPoints(GVec) = Msm(GVec, Ones) /\ SumPoints(HVec) = Msm(HVec, Ones)
    BY <1>1, SumPointsOf
  <2> QED BY <1>1, <2>1, MsmOf
<1>4. Msm(ComputeHTilde(w), Powers(2)) \in Points
  <2>1. Powers(2) \in [Index -> Scalar]
    BY <1>2, PowersAre
  <2> QED BY <1>1, <2>1, MsmOf
<1>5. PICK s1 \in Int, s2 \in Int, s3 \in Int : s1 = ScSub(tHat, mu) /\ s2 = ScSub(0, z) /\ s3 = ScMul(z, z)
  <2>1. ScSub(tHat, mu) \in Scalar /\ ScSub(0, z) \in Scalar
    BY <1>2, ScSubIs
  <2>2. ScMul(z, z) \in Scalar
    BY <1>2, ScMulIs
  <2> QED BY <1>2, <2>1, <2>2
<1>6. PICK ones \in Points : ones = LinComb(SumPoints(GVec), s2, SumPoints(HVec), z)
  BY <1>2, <1>3, LinCombIs
<1>7. PICK o1 \in Points : o1 = AddScaled(a, s, e)
  BY <1>2, AddScaledIs
<1>8. PICK o2 \in Points : o2 = AddScaled(o1, HBlind, s1)
  BY PointFacts, AddScaledIs
<1>9. PICK o3 \in Points : o3 = AddScaled(o2, ones, 1)
  BY <1>2, AddScaledIs
<1>10. AddScaled(o3, Msm(ComputeHTilde(w), Powers(2)), s3) \in Points
  BY <1>4, AddScaledIs
<1> QED BY <1>5, <1>6, <1>7, <1>8, <1>9, <1>10 DEF ComputeP

LEMMA CommittedBits ==
  ASSUME NEW v \in Nat
  PROVE  BitsOf(v) \in [Index -> Scalar] /\ RightOf(v) \in [Index -> Scalar]
<1>1. 0 \in Scalar /\ 1 \in Scalar /\ FR_MODULUS - 1 \in Scalar
  BY ScalarFacts DEF Scalar
<1>2. ASSUME NEW k \in Index PROVE BitOf(v, k) \in Scalar
  <2>1. k \in 1..(2 * HalfBits)
    BY Length
  <2>2. BitOf(v, k) \in {0, 1}
    BY <2>1, BitsAre
  <2> QED BY <1>1, <2>2
<1> QED BY <1>1, <1>2 DEF BitsOf, RightOf

(* Before the first round.                                                  *)
LEMMA ArgumentStarts ==
  ASSUME NEW v \in Nat, v < TwoTo[BITS], NEW gamma \in Scalar, NEW st \in ScalarStreams,
         NEW w \in Scalar, NEW z \in Scalar, NEW e \in Scalar,
         NEW dr \in Seq(Scalar), Len(dr) = 3, dr[1] = w, dr[2] = z, dr[3] = e,
         NEW pf, Whole(pf), pf.l = <<>>, pf.r = <<>>,
         pf.v = CommitValue(v, gamma), pf.a = CommitmentA(v, st), pf.s = CommitmentS(st),
         pf.t1 = LinComb(GValue, SumT1(v, st, w, z), HBlind, st.tau1),
         pf.t2 = LinComb(GValue, SumT2(st, w), HBlind, st.tau2),
         NEW ip, ip.a = LeftAt(v, st, z, e), ip.b = RightAt(v, st, w, z, e),
         pf.tHat = InnerProd(ip.a, ip.b), pf.mu = ScAdd(st.alpha, ScMul(e, st.rho)),
         pf.taux = Blinding(st, gamma, z, e),
         ip.g = GVec, ip.h = ComputeHTilde(w),
         ip.p = ComputeP(pf.a, pf.s, w, z, e, pf.tHat, pf.mu)
  PROVE  ArgumentHolds(0, dr, pf, ip)
<1> DEFINE lv == LeftAt(v, st, z, e)
           rv == RightAt(v, st, w, z, e)
           ta == SumT1(v, st, w, z)
           tb == SumT2(st, w)
<1>1. /\ lv \in [Index -> Scalar] /\ rv \in [Index -> Scalar] /\ InnerProd(lv, rv) \in Scalar
      /\ ta \in Scalar /\ tb \in Scalar /\ Delta(w, z) \in Scalar
      /\ Same(InnerProd(lv, rv), (Delta(w, z) + (z * z) * v) + (e * ta + (e * e) * tb), FR_MODULUS)
  BY EvaluationIdentity
<1>2. st.alpha \in Scalar /\ st.rho \in Scalar /\ st.sL \in [Index -> Scalar] /\ st.sR \in [Index -> Scalar]
  BY DEF ScalarStreams
<1> HIDE DEF lv, rv, ta, tb
<1>3. Lengths(0, dr, pf)
  <2>1. 0 \in 0..IP_ROUNDS
    BY Length
  <2> QED BY <2>1 DEF Lengths
<1>4. ValueChecks(dr, pf)
  <2>1. pf.taux \in Scalar
    BY BlindingIs
  <2>2. ASSUME NEW u \in Scalar
        PROVE  FirstResidual(dr, pf, u) \in Points /\ Blinds(FirstResidual(dr, pf, u), u - pf.taux)
    <3>1. PICK out : out = ValueResidual(LinComb(GValue, ta, HBlind, st.tau1), LinComb(GValue, tb, HBlind, st.tau2),
                                         CommitValue(v, gamma), InnerProd(lv, rv), w, z, e, u)
      OBVIOUS
    <3>2. PICK p \in Scalar : p = InnerProd(lv, rv)
      BY <1>1
    <3>3. /\ out \in Points
          /\ \A c \in Bases : Same(out[c], HBlind[c] * (u - Blinding(st, gamma, z, e)), FR_MODULUS)
      <4>1. /\ out = ValueResidual(LinComb(GValue, ta, HBlind, st.tau1), LinComb(GValue, tb, HBlind, st.tau2),
                                   CommitValue(v, gamma), p, w, z, e, u)
            /\ Same(p, (Delta(w, z) + (z * z) * v) + (e * ta + (e * e) * tb), FR_MODULUS)
        BY <1>1, <3>1, <3>2
      <4>2. ta \in Scalar /\ tb \in Scalar /\ Delta(w, z) \in Scalar
        BY <1>1
      <4> QED BY <4>1, <4>2, ValueResidualIs
    <3>4. FirstResidual(dr, pf, u) = out
      BY <3>1 DEF FirstResidual, lv, rv, ta, tb
    <3> QED BY <3>3, <3>4 DEF Blinds
  <2> QED BY <2>1, <2>2 DEF ValueChecks
<1>5. FoldedTo(0, dr, pf, ip)
  <2> DEFINE f == [k \in 0..0 |-> StartOf(dr, pf)]
  <2>1. f[0] = EndOf(ip)
    BY DEF StartOf, EndOf
  <2>2. f = [k \in 0..0 |-> f[k]] /\ f[0] = StartOf(dr, pf) /\ 1..0 = {}
    OBVIOUS
  <2> HIDE DEF f
  <2>3. Chain(f, 0, dr, pf.l, pf.r, StartOf(dr, pf))
    BY <2>2 DEF Chain
  <2> QED BY <2>1, <2>3 DEF FoldedTo
<1>6. TwoTo[IP_ROUNDS - 0] = BITS /\ Index = 1..BITS /\ BITS \in Nat
  BY Length DEF Index
<1>7. Vectors(ip.a, ip.g, ip.b, ip.h, BITS)
  <2>1. GVec \in [Index -> Points] /\ ComputeHTilde(w) \in [Index -> Points]
    BY Generators
  <2> QED BY <1>1, <1>6, <2>1 DEF Vectors, lv, rv
<1>8. PICK mu \in Scalar : mu = ScAdd(st.alpha, ScMul(e, st.rho))
  <2>1. PICK s1 \in Scalar, s2 \in Scalar : s1 = st.alpha /\ s2 = st.rho
    BY <1>2
  <2>2. ScMul(e, s2) \in Scalar
    BY ScalarFacts, ScMulIs
  <2>3. ScAdd(s1, ScMul(e, s2)) \in Scalar
    BY <2>2, ScAddIs
  <2> QED BY <2>1, <2>3
<1>9. ip.p \in Points
  <2>1. CommitmentA(v, st) \in Points /\ CommitmentS(st) \in Points
    <3>1. BitsOf(v) \in [Index -> Scalar] /\ RightOf(v) \in [Index -> Scalar]
      BY CommittedBits
    <3> QED BY <1>2, <3>1, CommittedIs DEF CommitmentA, CommitmentS
  <2>2. ComputeP(CommitmentA(v, st), CommitmentS(st), w, z, e, InnerProd(lv, rv), mu) \in Points
    BY <1>1, <2>1, ComputePIs
  <2> QED BY <1>8, <2>2 DEF lv, rv
<1>10. Commits(dr, ip, BITS)
  <2> SUFFICES ASSUME w # 0
               PROVE  ip.p = Cross(ip.a, ip.g, ip.b, ip.h) /\ Supports(ip.g, ip.h, BITS)
    BY DEF Commits, InvertibleBy
  <2>1. ComputeP(CommitmentA(v, st), CommitmentS(st), w, z, e, InnerProd(lv, rv),
                 ScAdd(st.alpha, ScMul(e, st.rho)))
          = Cross(lv, GVec, rv, ComputeHTilde(w))
    BY <1>1, CommitmentOfEvaluation DEF lv, rv
  <2>2. ip.p = Cross(ip.a, ip.g, ip.b, ip.h)
    BY <2>1 DEF lv, rv
  <2>3. Supports(GVec, ComputeHTilde(w), BITS)
    BY SupportsAtStart
  <2> QED BY <2>2, <2>3
<1> QED BY <1>3, <1>4, <1>5, <1>6, <1>7, <1>9, <1>10 DEF ArgumentHolds


(* A round more.                                                            *)
WithRound(pf1, pf, l, r) == pf1 = [pf EXCEPT !.l = Append(@, l), !.r = Append(@, r)]
WithChallenge(dr1, dr, e) == dr1 = Append(dr, e)

LEMMA RoundOfProof ==
  ASSUME NEW pf, Whole(pf), NEW l, NEW r, NEW pf1, WithRound(pf1, pf, l, r)
  PROVE  /\ pf1.l = Append(pf.l, l) /\ pf1.r = Append(pf.r, r)
         /\ pf1.v = pf.v /\ pf1.a = pf.a /\ pf1.s = pf.s /\ pf1.t1 = pf.t1 /\ pf1.t2 = pf.t2
         /\ pf1.tHat = pf.tHat /\ pf1.mu = pf.mu /\ pf1.taux = pf.taux /\ Whole(pf1)
<1>1. pf1 = [v |-> pf.v, a |-> pf.a, s |-> pf.s, t1 |-> pf.t1, t2 |-> pf.t2,
             l |-> Append(pf.l, l), r |-> Append(pf.r, r),
             tHat |-> pf.tHat, mu |-> pf.mu, taux |-> pf.taux]
  BY DEF Whole, WithRound
<1> QED BY <1>1 DEF Whole

LEMMA ChallengeMore ==
  ASSUME NEW n \in Nat, NEW dr \in Seq(Scalar), Len(dr) = 3 + n, NEW e \in Scalar,
         NEW dr1, WithChallenge(dr1, dr, e)
  PROVE  /\ dr1 \in Seq(Scalar) /\ Len(dr1) = 3 + (n + 1)
         /\ dr1[1] = dr[1] /\ dr1[2] = dr[2] /\ dr1[3] = dr[3]
         /\ InvertibleBy(dr1) => InvertibleBy(dr) /\ e # 0
<1>1. /\ dr1 \in Seq(Scalar) /\ Len(dr1) = 3 + (n + 1)
      /\ \A k \in 1..(3 + n) : dr1[k] = dr[k]
      /\ dr1[3 + (n + 1)] = e
  BY DEF WithChallenge
<1>2. 1 \in 1..(3 + n) /\ 2 \in 1..(3 + n) /\ 3 \in 1..(3 + n) /\ 3 + (n + 1) \in 4..Len(dr1)
  BY <1>1
<1>3. \A k \in 4..Len(dr) : k \in 1..(3 + n) /\ k \in 4..Len(dr1)
  BY <1>1
<1> QED BY <1>1, <1>2, <1>3 DEF InvertibleBy

LEMMA ArgumentFolds ==
  ASSUME NEW n \in Nat, n < IP_ROUNDS, NEW dr, NEW pf, NEW ip, ArgumentHolds(n, dr, pf, ip),
         NEW e \in Scalar, NEW d, d = ScInv[e], NEW half \in Nat, Len(ip.a) = 2 * half,
         NEW l, l = Cross(Lower(ip.a, half), Upper(ip.g, half), Upper(ip.b, half), Lower(ip.h, half)),
         NEW r, r = Cross(Upper(ip.a, half), Lower(ip.g, half), Lower(ip.b, half), Upper(ip.h, half)),
         NEW dr1, WithChallenge(dr1, dr, e), NEW pf1, WithRound(pf1, pf, l, r),
         NEW ip1, ip1 = [a |-> HalveScalars(ip.a, e, d), b |-> HalveScalars(ip.b, d, e),
                         g |-> Halve(ip.g, d, e), h |-> Halve(ip.h, e, d),
                         p |-> FoldCommitments(ip.p, l, r, e)]
  PROVE  ArgumentHolds(n + 1, dr1, pf1, ip1)
<1>1. /\ Lengths(n, dr, pf) /\ Whole(pf) /\ ValueChecks(dr, pf) /\ FoldedTo(n, dr, pf, ip)
      /\ Vectors(ip.a, ip.g, ip.b, ip.h, TwoTo[IP_ROUNDS - n]) /\ ip.p \in Points
      /\ Commits(dr, ip, TwoTo[IP_ROUNDS - n])
  BY DEF ArgumentHolds
<1>2. PICK size \in Nat : size = TwoTo[IP_ROUNDS - n] /\ size = 2 * half
  <2>1. ip.a \in [1..TwoTo[IP_ROUNDS - n] -> Scalar] /\ TwoTo[IP_ROUNDS - n] \in Nat
    BY <1>1 DEF Vectors
  <2>2. Len(ip.a) = TwoTo[IP_ROUNDS - n]
    BY <2>1, VectorLength
  <2> QED BY <2>1, <2>2
<1>3. half = TwoTo[IP_ROUNDS - (n + 1)] /\ half > 0 /\ n + 1 \in 0..IP_ROUNDS
  <2>1. PICK k \in 0..(2 * HalfBits) : k = IP_ROUNDS - (n + 1) /\ k + 1 = IP_ROUNDS - n /\ k + 1 \in 0..(2 * HalfBits)
    BY Length
  <2>2. TwoTo[k] \in Nat /\ TwoTo[k] > 0 /\ TwoTo[k + 1] = 2 * TwoTo[k]
    <3>1. k + 1 \in 1..(2 * HalfBits) /\ (k + 1) - 1 = k
      BY <2>1, Length
    <3> QED BY <3>1, TwoToFacts
  <2>3. half = TwoTo[k]
    <3>1. PICK w \in Nat : w = TwoTo[k]
      BY <2>2
    <3>2. size = 2 * w
      BY <1>2, <2>1, <2>2, <3>1
    <3> QED BY <1>2, <3>1, <3>2
  <2> QED BY <2>1, <2>2, <2>3, Length
<1>4. Vectors(ip.a, ip.g, ip.b, ip.h, 2 * half)
  BY <1>1, <1>2
<1>5. /\ dr \in Seq(Scalar) /\ Len(dr) = 3 + n /\ pf.l \in Seq(Points) /\ Len(pf.l) = n
      /\ pf.r \in Seq(Points) /\ Len(pf.r) = n
  BY <1>1 DEF Lengths
<1>6. /\ pf1.l = Append(pf.l, l) /\ pf1.r = Append(pf.r, r)
      /\ pf1.v = pf.v /\ pf1.a = pf.a /\ pf1.s = pf.s /\ pf1.t1 = pf.t1 /\ pf1.t2 = pf.t2
      /\ pf1.tHat = pf.tHat /\ pf1.mu = pf.mu /\ pf1.taux = pf.taux /\ Whole(pf1)
  BY <1>1, RoundOfProof
<1>7. /\ dr1 \in Seq(Scalar) /\ Len(dr1) = 3 + (n + 1)
      /\ dr1[1] = dr[1] /\ dr1[2] = dr[2] /\ dr1[3] = dr[3]
      /\ InvertibleBy(dr1) => InvertibleBy(dr) /\ e # 0
  BY <1>5, ChallengeMore
<1>8. PICK p \in Points : p = ip.p
  BY <1>1
<1>9. /\ l \in Points /\ r \in Points
      /\ Vectors(HalveScalars(ip.a, e, d), Halve(ip.g, d, e), HalveScalars(ip.b, d, e), Halve(ip.h, e, d), half)
      /\ FoldCommitments(p, l, r, e) \in Points
      /\ e # 0 /\ p = Cross(ip.a, ip.g, ip.b, ip.h) =>
           FoldCommitments(p, l, r, e)
             = Cross(HalveScalars(ip.a, e, d), Halve(ip.g, d, e), HalveScalars(ip.b, d, e), Halve(ip.h, e, d))
  BY <1>4, RoundIdentity
<1>10. Lengths(n + 1, dr1, pf1)
  <2>1. pf1.l \in Seq(Points) /\ Len(pf1.l) = n + 1 /\ pf1.r \in Seq(Points) /\ Len(pf1.r) = n + 1
    <3>1. Append(pf.l, l) \in Seq(Points) /\ Len(Append(pf.l, l)) = n + 1
      BY <1>5, <1>9
    <3>2. Append(pf.r, r) \in Seq(Points) /\ Len(Append(pf.r, r)) = n + 1
      BY <1>5, <1>9
    <3> QED BY <1>6, <3>1, <3>2
  <2> QED BY <1>3, <1>7, <2>1 DEF Lengths
<1>11. ValueChecks(dr1, pf1)
  <2>1. \A u \in Scalar : FirstResidual(dr1, pf1, u) = FirstResidual(dr, pf, u)
    BY <1>6, <1>7 DEF FirstResidual
  <2> QED BY <1>1, <1>6, <2>1 DEF ValueChecks
<1>12. FoldedTo(n + 1, dr1, pf1, ip1)
  <2>1. PICK f : Chain(f, n, dr, pf.l, pf.r, StartOf(dr, pf)) /\ f[n] = EndOf(ip)
    BY <1>1 DEF FoldedTo
  <2>2. PICK f1 : /\ Chain(f1, n + 1, Append(dr, e), Append(pf.l, l), Append(pf.r, r), StartOf(dr, pf))
                  /\ f1[n + 1] = FoldStep(f[n], e, l, r)
    BY <1>5, <1>9, <2>1, ChainExtends
  <2>3. StartOf(dr1, pf1) = StartOf(dr, pf)
    BY <1>6, <1>7 DEF StartOf
  <2>4. FoldStep(EndOf(ip), e, l, r) = EndOf(ip1)
    BY DEF FoldStep, EndOf
  <2> QED BY <1>6, <2>1, <2>2, <2>3, <2>4 DEF FoldedTo, WithChallenge
<1>13. Vectors(ip1.a, ip1.g, ip1.b, ip1.h, half) /\ ip1.p \in Points
  BY <1>8, <1>9
<1>14. Commits(dr1, ip1, half)
  <2> SUFFICES ASSUME InvertibleBy(dr1)
               PROVE  ip1.p = Cross(ip1.a, ip1.g, ip1.b, ip1.h) /\ Supports(ip1.g, ip1.h, half)
    BY DEF Commits
  <2>1. e # 0 /\ ip.p = Cross(ip.a, ip.g, ip.b, ip.h) /\ Supports(ip.g, ip.h, 2 * half)
    BY <1>1, <1>2, <1>7 DEF Commits
  <2>2. ip1.p = Cross(ip1.a, ip1.g, ip1.b, ip1.h)
    BY <1>8, <1>9, <2>1
  <2>3. PICK g \in [1..(2 * half) -> Points], h \in [1..(2 * half) -> Points] : g = ip.g /\ h = ip.h
    BY <1>4 DEF Vectors
  <2>4. Supports(Halve(g, d, e), Halve(h, e, d), half)
    BY <1>3, <2>1, <2>3, SupportsHalved
  <2> QED BY <2>2, <2>3, <2>4
<1> QED BY <1>3, <1>6, <1>10, <1>11, <1>12, <1>13, <1>14 DEF ArgumentHolds


-----------------------------------------------------------------------------
(* What the verifier computes when the rounds are over.                     *)

LEMMA LastRound ==
  ASSUME NEW n, NEW dr, NEW pf, NEW ip, ArgumentHolds(n, dr, pf, ip)
  PROVE  /\ n \in Nat /\ n <= IP_ROUNDS /\ Len(ip.a) = TwoTo[IP_ROUNDS - n]
         /\ Len(ip.a) = 1 => n = IP_ROUNDS
         /\ n = IP_ROUNDS => Len(ip.a) = 1
         /\ n < IP_ROUNDS => Len(ip.a) = 2 * (Len(ip.a) \div 2) /\ Len(ip.a) \div 2 \in Nat
<1>1. n \in Nat /\ n <= IP_ROUNDS
  BY Length DEF ArgumentHolds, Lengths
<1>2. PICK size : size = TwoTo[IP_ROUNDS - n]
  OBVIOUS
<1>3. size \in Nat /\ ip.a \in [1..size -> Scalar]
  BY <1>2 DEF ArgumentHolds, Vectors
<1>4. Len(ip.a) = size
  BY <1>3, VectorLength
<1>5. CASE n = IP_ROUNDS
  <2>1. IP_ROUNDS - n = 0
    BY <1>1, <1>5
  <2>2. size = 1
    BY <1>2, <2>1, TwoToFacts
  <2> QED BY <1>1, <1>2, <1>4, <1>5, <2>2
<1>6. CASE n # IP_ROUNDS
  <2>1. PICK k \in 1..(2 * HalfBits) : k = IP_ROUNDS - n
    BY <1>1, <1>6, Length
  <2>2. k - 1 \in 0..(2 * HalfBits)
    BY <2>1, Length
  <2>3. PICK w \in Nat : w = TwoTo[k - 1] /\ w > 0 /\ size = 2 * w
    <3>1. TwoTo[k - 1] \in Nat /\ TwoTo[k - 1] > 0 /\ TwoTo[k] = 2 * TwoTo[k - 1]
      BY <2>1, <2>2, TwoToFacts
    <3> QED BY <1>2, <2>1, <3>1
  <2>4. size # 1 /\ (2 * w) \div 2 = w
    BY <2>3
  <2> QED BY <1>1, <1>2, <1>4, <1>6, <2>3, <2>4
<1> QED BY <1>5, <1>6

LEMMA ResidualOfState ==
  ASSUME ArgumentHolds(IP_ROUNDS, drawn, proof, ipa), NEW last
  PROVE  ComputeResidual(last)
           = Residual(FirstResidual(drawn, proof, last.taux), ipa.g[1], ipa.h[1], ipa.p, last.a, last.b)
<1> DEFINE p0 == ComputeP(proof.a, proof.s, drawn[1], drawn[2], drawn[3], proof.tHat, proof.mu)
           ended == IpaFold(p0, GVec, ComputeHTilde(drawn[1]))
<1>1. PICK f : /\ Chain(f, IP_ROUNDS, drawn, proof.l, proof.r, StartOf(drawn, proof))
               /\ f[IP_ROUNDS] = EndOf(ipa)
  BY DEF ArgumentHolds, FoldedTo
<1>2. StartOf(drawn, proof) = [g |-> GVec, h |-> ComputeHTilde(drawn[1]), p |-> p0]
  BY DEF StartOf
<1>3. ComputeResidual(last)
        = Residual(FirstResidual(drawn, proof, last.taux), ended.g[1], ended.h[1], ended.p, last.a, last.b)
  <2> HIDE DEF ended
  <2>1. ComputeResidual(last)
          = AddScaled(FirstResidual(drawn, proof, last.taux),
                      FoldResidual(ended.g[1], ended.h[1], ended.p, last.a, last.b), 1)
    BY DEF ComputeResidual, FirstResidual, ValueResidual, Delta, Ones, FoldResidual, ended
  <2> QED BY <2>1 DEF Residual
<1> HIDE DEF p0
<1>4. ended = EndOf(ipa)
  BY <1>1, <1>2, FoldIsChain
<1>5. ended.g = ipa.g /\ ended.h = ipa.h /\ ended.p = ipa.p
  BY <1>4 DEF EndOf
<1> QED BY <1>3, <1>5

LEMMA HonestResidual ==
  ASSUME ArgumentHolds(IP_ROUNDS, drawn, proof, ipa), Invertible
  PROVE  /\ ComputeResidual(LastScalars) = Origin
         /\ \A last \in Altered : last # LastScalars =>
              ComputeResidual(last) \in Points /\ ComputeResidual(last) # Origin
<1>1. TwoTo[IP_ROUNDS - IP_ROUNDS] = 1
  <2>1. IP_ROUNDS - IP_ROUNDS = 0
    BY Length
  <2> QED BY <2>1, TwoToFacts
<1>2. /\ ValueChecks(drawn, proof) /\ Vectors(ipa.a, ipa.g, ipa.b, ipa.h, 1)
      /\ ipa.p = Cross(ipa.a, ipa.g, ipa.b, ipa.h) /\ Supports(ipa.g, ipa.h, 1)
  BY <1>1 DEF ArgumentHolds, Commits, Invertible, InvertibleBy
<1>3. PICK tau, a0, b0, g, h, p : /\ tau = proof.taux /\ a0 = ipa.a /\ b0 = ipa.b
                                  /\ g = ipa.g /\ h = ipa.h /\ p = ipa.p
  OBVIOUS
<1>4. PICK r1 : r1 = FirstResidual(drawn, proof, tau)
  OBVIOUS
<1>5. /\ tau \in Scalar /\ tau \in Int /\ 0 \in Int /\ tau - tau = 0
      /\ r1 \in Points /\ Blinds(r1, 0)
  <2>1. tau \in Scalar
    BY <1>2, <1>3 DEF ValueChecks
  <2>2. tau \in Int
    BY <2>1, ScalarFacts
  <2>3. r1 \in Points /\ Blinds(r1, tau - tau)
    BY <1>2, <1>3, <1>4, <2>1 DEF ValueChecks
  <2>4. tau - tau = 0
    BY <2>2
  <2> QED BY <2>1, <2>2, <2>3, <2>4
<1>6. Vectors(a0, g, b0, h, 1) /\ p = Cross(a0, g, b0, h) /\ Supports(g, h, 1)
  BY <1>2, <1>3
<1>7. LastScalars = [taux |-> tau, a |-> a0[1], b |-> b0[1]]
  BY <1>3 DEF LastScalars
<1>8. ComputeResidual(LastScalars) = Origin
  <2>1. Residual(r1, g[1], h[1], p, a0[1], b0[1]) = Origin
    BY <1>5, <1>6, HonestVanishes
  <2>2. ComputeResidual(LastScalars)
          = Residual(FirstResidual(drawn, proof, LastScalars.taux), ipa.g[1], ipa.h[1], ipa.p,
                     LastScalars.a, LastScalars.b)
    BY ResidualOfState
  <2>3. LastScalars.taux = tau /\ LastScalars.a = a0[1] /\ LastScalars.b = b0[1]
    BY <1>7
  <2> QED BY <1>3, <1>4, <2>1, <2>2, <2>3
<1>9. ASSUME NEW last \in Altered, last # LastScalars
      PROVE  ComputeResidual(last) \in Points /\ ComputeResidual(last) # Origin
  <2>1. ComputeResidual(last)
          = Residual(FirstResidual(drawn, proof, last.taux), g[1], h[1], p, last.a, last.b)
    BY <1>3, ResidualOfState
  <2>2. \E f \in {"taux", "a", "b"} : last = [LastScalars EXCEPT ![f] = ScAdd(@, 1)]
    BY <1>9 DEF Altered
  <2>3. \/ last = [taux |-> ScAdd(tau, 1), a |-> a0[1], b |-> b0[1]]
        \/ last = [taux |-> tau, a |-> ScAdd(a0[1], 1), b |-> b0[1]]
        \/ last = [taux |-> tau, a |-> a0[1], b |-> ScAdd(b0[1], 1)]
    <3>1. PICK s, a1, b1 : s = ScAdd(tau, 1) /\ a1 = ScAdd(a0[1], 1) /\ b1 = ScAdd(b0[1], 1)
      OBVIOUS
    <3>2. PICK f \in {"taux", "a", "b"} : last = [LastScalars EXCEPT ![f] = ScAdd(@, 1)]
      BY <2>2
    <3>3. CASE f = "taux"
      <4>1. last = [LastScalars EXCEPT !["taux"] = s]
        BY <1>7, <3>1, <3>2, <3>3
      <4>2. last = [taux |-> s, a |-> a0[1], b |-> b0[1]]
        BY <1>7, <4>1
      <4> QED BY <3>1, <4>2
    <3>4. CASE f = "a"
      <4>1. last = [LastScalars EXCEPT !["a"] = a1]
        BY <1>7, <3>1, <3>2, <3>4
      <4>2. last = [taux |-> tau, a |-> a1, b |-> b0[1]]
        BY <1>7, <4>1
      <4> QED BY <3>1, <4>2
    <3>5. CASE f = "b"
      <4>1. last = [LastScalars EXCEPT !["b"] = b1]
        BY <1>7, <3>1, <3>2, <3>5
      <4>2. last = [taux |-> tau, a |-> a0[1], b |-> b1]
        BY <1>7, <4>1
      <4> QED BY <3>1, <4>2
    <3> QED BY <3>3, <3>4, <3>5
  <2>4. CASE last = [taux |-> ScAdd(tau, 1), a |-> a0[1], b |-> b0[1]]
    <3>1. PICK u : u = ScAdd(tau, 1)
      OBVIOUS
    <3>2. u \in Scalar /\ Same(u - tau, 1, FR_MODULUS)
      BY <1>5, <3>1, OneMore
    <3>3. PICK d \in Int : d = u - tau
      BY <1>5, <3>2, ScalarFacts
    <3>4. PICK r2 : r2 = FirstResidual(drawn, proof, u)
      OBVIOUS
    <3>5. r2 \in Points /\ Blinds(r2, d) /\ Same(d, 1, FR_MODULUS)
      BY <1>2, <1>3, <3>2, <3>3, <3>4 DEF ValueChecks
    <3>6. /\ Residual(r2, g[1], h[1], p, a0[1], b0[1]) \in Points
          /\ Residual(r2, g[1], h[1], p, a0[1], b0[1]) # Origin
      BY <1>6, <3>5, AlteredBlinding
    <3>7. last.taux = u /\ last.a = a0[1] /\ last.b = b0[1]
      BY <2>4, <3>1
    <3> QED BY <2>1, <3>4, <3>6, <3>7
  <2>5. CASE last = [taux |-> tau, a |-> ScAdd(a0[1], 1), b |-> b0[1]]
    <3>1. PICK a : a = ScAdd(a0[1], 1)
      OBVIOUS
    <3>2. /\ Residual(r1, g[1], h[1], p, a, b0[1]) \in Points
          /\ Residual(r1, g[1], h[1], p, a, b0[1]) # Origin
      BY <1>5, <1>6, <3>1, AlteredLeft
    <3>3. last.taux = tau /\ last.a = a /\ last.b = b0[1]
      BY <2>5, <3>1
    <3> QED BY <1>4, <2>1, <3>2, <3>3
  <2>6. CASE last = [taux |-> tau, a |-> a0[1], b |-> ScAdd(b0[1], 1)]
    <3>1. PICK b : b = ScAdd(b0[1], 1)
      OBVIOUS
    <3>2. /\ Residual(r1, g[1], h[1], p, a0[1], b) \in Points
          /\ Residual(r1, g[1], h[1], p, a0[1], b) # Origin
      BY <1>5, <1>6, <3>1, AlteredRight
    <3>3. last.taux = tau /\ last.a = a0[1] /\ last.b = b
      BY <2>6, <3>1
    <3> QED BY <1>4, <2>1, <3>2, <3>3
  <2> QED BY <2>3, <2>4, <2>5, <2>6
<1> QED BY <1>8, <1>9


-----------------------------------------------------------------------------
(* The invariant of the prover and the verifier.                            *)

SecretHolds(sc) ==
    sc.v \in Nat /\ sc.v < TwoTo[BITS] /\ sc.gamma \in Scalar /\ sc.stream \in ScalarStreams
CommitmentsHold(sc, pf) ==
    /\ pf.v = CommitValue(sc.v, sc.gamma)
    /\ pf.a = CommitmentA(sc.v, sc.stream) /\ pf.s = CommitmentS(sc.stream)
PolynomialHolds(sc, dr, pf) ==
    /\ pf.t1 = LinComb(GValue, SumT1(sc.v, sc.stream, dr[1], dr[2]), HBlind, sc.stream.tau1)
    /\ pf.t2 = LinComb(GValue, SumT2(sc.stream, dr[1]), HBlind, sc.stream.tau2)
AnswersAreRight ==
    verdict.call \in {"verify", "batch"} /\ Invertible =>
         LET bad == {j \in DOMAIN verdict.batch : verdict.batch[j] # LastScalars}
         IN  /\ bad = {} => verdict.ok
             /\ (\E j \in bad : bad = {j} /\ verdict.weights[j] # 0) => ~verdict.ok
RangeInv ==
    /\ pending \in {"idle", "commit", "polynomial", "evaluate", "fold", "proved"}
    /\ pending \notin {"idle", "proved"} => verdict = NoVerdict
    /\ pending = "idle" => verdict.call \notin {"verify", "batch"}
    /\ pending \in {"commit", "polynomial", "evaluate"} => SecretHolds(secret)
    /\ pending \in {"polynomial", "evaluate"} => CommitmentsHold(secret, proof)
    /\ pending = "polynomial" => drawn \in Seq(Scalar) /\ Len(drawn) = 2
    /\ pending = "evaluate" => /\ drawn \in Seq(Scalar) /\ Len(drawn) = 3
                               /\ PolynomialHolds(secret, drawn, proof)
    /\ pending = "fold" => \E n : ArgumentHolds(n, drawn, proof, ipa)
    /\ pending = "proved" => ArgumentHolds(IP_ROUNDS, drawn, proof, ipa)
    /\ AnswersAreRight

(* The vectors of the prover are those of its value and its challenges.     *)
LEMMA ProverVectors ==
  /\ BitsOf(secret.v) = [k \in Index |-> Bit(k)] /\ RightOf(secret.v) = [k \in Index |-> ARight(k)]
  /\ BaseR = BaseROf(secret.v, drawn[1], drawn[2]) /\ BaseRs = BaseRsOf(secret.stream, drawn[1])
<1>1. \A k \in Index : Bit(k) = BitOf(secret.v, k)
  BY DEF Bit, BitOf
<1>2. \A k \in Index : ARight(k) = IF BitOf(secret.v, k) = 0 THEN FR_MODULUS - 1 ELSE 0
  BY <1>1 DEF ARight
<1>3. BitsOf(secret.v) = [k \in Index |-> Bit(k)] /\ RightOf(secret.v) = [k \in Index |-> ARight(k)]
  BY <1>1, <1>2 DEF BitsOf, RightOf
<1>4. \A k \in Index : RightOf(secret.v)[k] = ARight(k)
  BY <1>3
<1>5. BaseR = BaseROf(secret.v, drawn[1], drawn[2])
  BY <1>4 DEF BaseR, BaseROf
<1>6. BaseRs = BaseRsOf(secret.stream, drawn[1])
  BY DEF BaseRs, BaseRsOf
<1> QED BY <1>3, <1>5, <1>6

(* No answer yet.                                                           *)
LEMMA Unanswered ==
  ASSUME verdict.call \notin {"verify", "batch"}
  PROVE  AnswersAreRight
BY DEF AnswersAreRight

LEMMA BeginProofKeeps == RangeInv /\ BeginProof => RangeInv'
<1> SUFFICES ASSUME RangeInv, BeginProof PROVE RangeInv'
  OBVIOUS
<1>1. pending = "idle" /\ verdict = NoVerdict
  BY DEF BeginProof
<1>2. PICK v \in RangeValues, gamma \in Blindings, st \in Streams :
         \/ verdict' = [call |-> "prove", ok |-> FALSE] /\ pending' = pending
         \/ /\ v < TwoTo[BITS] /\ pending' = "commit" /\ verdict' = verdict
            /\ secret' = [v |-> v, gamma |-> gamma, stream |-> st]
  <2>1. PICK v \in RangeValues, gamma \in Blindings, st \in Streams :
         IF v >= TwoTo[BITS] \/ 0 \in {st.alpha, st.rho, st.tau1, st.tau2}
                \/ \E k \in Index : 0 \in {st.sL[k], st.sR[k]}
          THEN /\ verdict' = [call |-> "prove", ok |-> FALSE]
               /\ UNCHANGED <<pending, secret, proof, drawn, ipa>>
          ELSE /\ pending' = "commit"
               /\ secret' = [v |-> v, gamma |-> gamma, stream |-> st]
               /\ UNCHANGED <<proof, drawn, ipa, verdict>>
    BY DEF BeginProof
  <2>2. v \in Nat /\ TwoTo[BITS] \in Nat
    <3>1. BITS \in 0..(2 * HalfBits)
      BY Length
    <3>2. TwoTo[BITS] \in Nat
      BY <3>1, TwoToFacts
    <3>3. v \in U256
      BY RangeAssumption
    <3> QED BY <3>2, <3>3 DEF U256
  <2>3. ~(v >= TwoTo[BITS]) => v < TwoTo[BITS]
    BY <2>2
  <2> QED BY <2>1, <2>3
<1>3. CASE verdict' = [call |-> "prove", ok |-> FALSE] /\ pending' = pending
  <2>1. verdict'.call \notin {"verify", "batch"} /\ pending' = "idle"
    BY <1>1, <1>3
  <2>2. AnswersAreRight'
    BY <2>1, Unanswered DEF AnswersAreRight
  <2> QED BY <2>1, <2>2 DEF RangeInv
<1>4. CASE /\ v < TwoTo[BITS] /\ pending' = "commit" /\ verdict' = verdict
           /\ secret' = [v |-> v, gamma |-> gamma, stream |-> st]
  <2>1. verdict' = NoVerdict /\ verdict'.call \notin {"verify", "batch"}
    BY <1>1, <1>4 DEF NoVerdict
  <2>2. AnswersAreRight'
    BY <2>1 DEF AnswersAreRight
  <2>3. v \in Nat /\ gamma \in Scalar /\ st \in ScalarStreams
    <3>1. v \in U256
      BY RangeAssumption
    <3>2. gamma \in Scalar /\ st \in ScalarStreams
      BY RangeAssumption
    <3> QED BY <3>1, <3>2 DEF U256
  <2>4. SecretHolds(secret')
    BY <1>4, <2>3 DEF SecretHolds
  <2>5. SecretHolds(secret)'
    BY <2>4
  <2> QED BY <1>4, <2>1, <2>2, <2>5 DEF RangeInv
<1> QED BY <1>2, <1>3, <1>4

LEMMA SendCommitmentsKeeps == RangeInv /\ SendCommitments => RangeInv'
<1> SUFFICES ASSUME RangeInv, SendCommitments PROVE RangeInv'
  OBVIOUS
<1>1. pending = "commit" /\ pending' = "polynomial" /\ secret' = secret /\ verdict' = verdict
  BY DEF SendCommitments
<1>2. verdict' = NoVerdict /\ verdict'.call \notin {"verify", "batch"} /\ SecretHolds(secret)
  <2>1. verdict = NoVerdict /\ SecretHolds(secret)
    BY <1>1 DEF RangeInv
  <2> QED BY <1>1, <2>1 DEF NoVerdict
<1>3. AnswersAreRight'
  BY <1>2 DEF AnswersAreRight
<1>4. drawn' \in Seq(Scalar) /\ Len(drawn') = 2
  <2>1. PICK c \in YZChallenges : drawn' = <<c[1], c[2]>>
    BY DEF SendCommitments
  <2>2. PICK u \in Scalar, w \in Scalar : u = c[1] /\ w = c[2]
    <3>1. c \in Scalar \X Scalar
      BY RangeAssumption
    <3> QED BY <3>1
  <2> QED BY <2>1, <2>2
<1>5. CommitmentsHold(secret', proof')
  <2>1. proof' = [v |-> CommitValue(secret.v, secret.gamma),
                  a |-> AddScaled(Committed(BitsOf(secret.v), RightOf(secret.v)), HBlind, secret.stream.alpha),
                  s |-> AddScaled(Committed(secret.stream.sL, secret.stream.sR), HBlind, secret.stream.rho),
                  l |-> <<>>, r |-> <<>>]
    BY ProverVectors DEF SendCommitments
  <2> QED BY <1>1, <2>1 DEF CommitmentsHold, CommitmentA, CommitmentS
<1>6. CommitmentsHold(secret, proof)' /\ SecretHolds(secret)'
  BY <1>1, <1>2, <1>5
<1> QED BY <1>1, <1>2, <1>3, <1>4, <1>6 DEF RangeInv

LEMMA SendPolynomialKeeps == RangeInv /\ SendPolynomial => RangeInv'
<1> SUFFICES ASSUME RangeInv, SendPolynomial PROVE RangeInv'
  OBVIOUS
<1>1. pending = "polynomial" /\ pending' = "evaluate" /\ secret' = secret /\ verdict' = verdict
  BY DEF SendPolynomial
<1>2. /\ verdict' = NoVerdict /\ verdict'.call \notin {"verify", "batch"} /\ SecretHolds(secret)
      /\ CommitmentsHold(secret, proof) /\ drawn \in Seq(Scalar) /\ Len(drawn) = 2
  <2>1. /\ verdict = NoVerdict /\ SecretHolds(secret) /\ CommitmentsHold(secret, proof)
        /\ drawn \in Seq(Scalar) /\ Len(drawn) = 2
    BY <1>1 DEF RangeInv
  <2> QED BY <1>1, <2>1 DEF NoVerdict
<1>3. AnswersAreRight'
  BY <1>2 DEF AnswersAreRight
<1>4. drawn' \in Seq(Scalar) /\ Len(drawn') = 3 /\ drawn'[1] = drawn[1] /\ drawn'[2] = drawn[2]
  <2>1. PICK e \in XChallenges : drawn' = Append(drawn, e)
    BY DEF SendPolynomial
  <2>2. e \in Scalar
    BY RangeAssumption
  <2>3. PICK dr \in Seq(Scalar) : dr = drawn /\ Len(dr) = 2
    BY <1>2
  <2>4. /\ Append(dr, e) \in Seq(Scalar) /\ Len(Append(dr, e)) = 3
        /\ Append(dr, e)[1] = dr[1] /\ Append(dr, e)[2] = dr[2]
    <3>1. Append(dr, e) \in Seq(Scalar) /\ Len(Append(dr, e)) = Len(dr) + 1
          /\ \A k \in 1..Len(dr) : Append(dr, e)[k] = dr[k]
      BY <2>2
    <3>2. 1 \in 1..Len(dr) /\ 2 \in 1..Len(dr) /\ Len(dr) + 1 = 3
      BY <2>3
    <3> QED BY <3>1, <3>2
  <2> QED BY <2>1, <2>3, <2>4
<1>5. proof' = [v |-> proof.v, a |-> proof.a, s |-> proof.s,
                t1 |-> LinComb(GValue, SumT1(secret.v, secret.stream, drawn[1], drawn[2]), HBlind, secret.stream.tau1),
                t2 |-> LinComb(GValue, SumT2(secret.stream, drawn[1]), HBlind, secret.stream.tau2),
                l |-> <<>>, r |-> <<>>]
  BY ProverVectors DEF SendPolynomial, SumT1, SumT2, Ones
<1>6. CommitmentsHold(secret, proof)' /\ SecretHolds(secret)' /\ PolynomialHolds(secret, drawn, proof)'
  <2>1. /\ proof'.v = proof.v /\ proof'.a = proof.a /\ proof'.s = proof.s
        /\ proof'.t1 = LinComb(GValue, SumT1(secret.v, secret.stream, drawn[1], drawn[2]), HBlind, secret.stream.tau1)
        /\ proof'.t2 = LinComb(GValue, SumT2(secret.stream, drawn[1]), HBlind, secret.stream.tau2)
    BY <1>5
  <2>2. CommitmentsHold(secret', proof')
    BY <1>1, <1>2, <2>1 DEF CommitmentsHold
  <2>3. PolynomialHolds(secret', drawn', proof')
    BY <1>1, <1>4, <2>1 DEF PolynomialHolds
  <2> QED BY <1>1, <1>2, <2>2, <2>3
<1> QED BY <1>1, <1>2, <1>3, <1>4, <1>6 DEF RangeInv


LEMMA EvaluateKeeps == RangeInv /\ Evaluate => RangeInv'
<1> SUFFICES ASSUME RangeInv, Evaluate PROVE RangeInv'
  OBVIOUS
<1>1. pending = "evaluate" /\ pending' = "fold" /\ secret' = secret /\ verdict' = verdict /\ drawn' = drawn
  BY DEF Evaluate
<1>2. /\ verdict' = NoVerdict /\ verdict'.call \notin {"verify", "batch"} /\ SecretHolds(secret)
      /\ CommitmentsHold(secret, proof) /\ drawn \in Seq(Scalar) /\ Len(drawn) = 3
      /\ PolynomialHolds(secret, drawn, proof)
  <2>1. /\ verdict = NoVerdict /\ SecretHolds(secret) /\ CommitmentsHold(secret, proof)
        /\ drawn \in Seq(Scalar) /\ Len(drawn) = 3 /\ PolynomialHolds(secret, drawn, proof)
    BY <1>1 DEF RangeInv
  <2> QED BY <1>1, <2>1 DEF NoVerdict
<1>3. AnswersAreRight'
  BY <1>2 DEF AnswersAreRight
<1>4. PICK v, gamma, st, w, z, e : /\ v = secret.v /\ gamma = secret.gamma /\ st = secret.stream
                                   /\ w = drawn[1] /\ z = drawn[2] /\ e = drawn[3]
  OBVIOUS
<1>5. /\ v \in Nat /\ v < TwoTo[BITS] /\ gamma \in Scalar /\ st \in ScalarStreams
      /\ w \in Scalar /\ z \in Scalar /\ e \in Scalar
  <2>1. drawn[1] \in Scalar /\ drawn[2] \in Scalar /\ drawn[3] \in Scalar
    <3>1. 1 \in 1..Len(drawn) /\ 2 \in 1..Len(drawn) /\ 3 \in 1..Len(drawn)
      BY <1>2
    <3> QED BY <1>2, <3>1
  <2> QED BY <1>2, <1>4, <2>1 DEF SecretHolds
<1>6. PICK lv, rv, tHat, mu, taux :
         /\ lv = LeftAt(v, st, z, e) /\ rv = RightAt(v, st, w, z, e) /\ tHat = InnerProd(lv, rv)
         /\ mu = ScAdd(st.alpha, ScMul(e, st.rho)) /\ taux = Blinding(st, gamma, z, e)
  OBVIOUS
<1>7. PICK p : p = ComputeP(proof.a, proof.s, w, z, e, tHat, mu)
  OBVIOUS
<1>8. /\ lv = [k \in Index |-> ScAdd(ScSub(Bit(k), z), ScMul(e, st.sL[k]))]
      /\ rv = [k \in Index |-> ScAdd(BaseR[k], ScMul(e, BaseRs[k]))]
  <2>1. \A k \in Index : Bit(k) = BitOf(v, k)
    BY <1>4 DEF Bit, BitOf
  <2>2. BaseR = BaseROf(v, w, z) /\ BaseRs = BaseRsOf(st, w)
    BY <1>4, ProverVectors
  <2>3. lv = [k \in Index |-> ScAdd(ScSub(Bit(k), z), ScMul(e, st.sL[k]))]
    BY <1>6, <2>1 DEF LeftAt
  <2>4. rv = [k \in Index |-> ScAdd(BaseR[k], ScMul(e, BaseRs[k]))]
    BY <1>6, <2>2 DEF RightAt
  <2> QED BY <2>3, <2>4
<1>9. /\ proof' = [v |-> proof.v, a |-> proof.a, s |-> proof.s, t1 |-> proof.t1,
                   t2 |-> proof.t2, l |-> <<>>, r |-> <<>>,
                   tHat |-> tHat, mu |-> mu, taux |-> taux]
      /\ ipa' = [a |-> lv, b |-> rv, g |-> GVec, h |-> ComputeHTilde(w), p |-> p]
  BY <1>4, <1>6, <1>7, <1>8 DEF Evaluate, Blinding
<1>10. PICK dr, pf, ip : dr = drawn' /\ pf = proof' /\ ip = ipa'
  OBVIOUS
<1>11. /\ dr \in Seq(Scalar) /\ Len(dr) = 3 /\ dr[1] = w /\ dr[2] = z /\ dr[3] = e
  BY <1>1, <1>2, <1>4, <1>10
<1>12. /\ pf.l = <<>> /\ pf.r = <<>> /\ pf.v = proof.v /\ pf.a = proof.a /\ pf.s = proof.s
       /\ pf.t1 = proof.t1 /\ pf.t2 = proof.t2 /\ pf.tHat = tHat /\ pf.mu = mu /\ pf.taux = taux
  BY <1>9, <1>10
<1>13. Whole(pf)
  BY <1>9, <1>10, <1>12 DEF Whole
<1>14. ip.a = lv /\ ip.b = rv /\ ip.g = GVec /\ ip.h = ComputeHTilde(w) /\ ip.p = p
  BY <1>9, <1>10
<1>15. /\ pf.v = CommitValue(v, gamma) /\ pf.a = CommitmentA(v, st) /\ pf.s = CommitmentS(st)
       /\ pf.t1 = LinComb(GValue, SumT1(v, st, w, z), HBlind, st.tau1)
       /\ pf.t2 = LinComb(GValue, SumT2(st, w), HBlind, st.tau2)
  BY <1>2, <1>4, <1>12 DEF CommitmentsHold, PolynomialHolds
<1>16. /\ ip.a = LeftAt(v, st, z, e) /\ ip.b = RightAt(v, st, w, z, e)
       /\ pf.tHat = InnerProd(ip.a, ip.b) /\ pf.mu = ScAdd(st.alpha, ScMul(e, st.rho))
       /\ pf.taux = Blinding(st, gamma, z, e) /\ ip.g = GVec /\ ip.h = ComputeHTilde(w)
       /\ ip.p = ComputeP(pf.a, pf.s, w, z, e, pf.tHat, pf.mu)
  BY <1>6, <1>7, <1>12, <1>14
<1>17. ArgumentHolds(0, dr, pf, ip)
  BY <1>5, <1>11, <1>12, <1>13, <1>15, <1>16, ArgumentStarts
<1>18. \E n : ArgumentHolds(n, drawn, proof, ipa)'
  BY <1>10, <1>17
<1> QED BY <1>1, <1>2, <1>3, <1>18 DEF RangeInv

LEMMA FoldRoundKeeps == RangeInv /\ FoldRound => RangeInv'
<1> SUFFICES ASSUME RangeInv, FoldRound PROVE RangeInv'
  OBVIOUS
<1> DEFINE half == Len(ipa.a) \div 2
<1>1. /\ pending = "fold" /\ pending' = "fold" /\ Len(ipa.a) > 1 /\ verdict' = verdict
  BY DEF FoldRound
<1>2. verdict' = NoVerdict /\ verdict'.call \notin {"verify", "batch"}
  <2>1. verdict = NoVerdict
    BY <1>1 DEF RangeInv
  <2> QED BY <1>1, <2>1 DEF NoVerdict
<1>3. AnswersAreRight'
  BY <1>2 DEF AnswersAreRight
<1>4. PICK n : ArgumentHolds(n, drawn, proof, ipa)
  BY <1>1 DEF RangeInv
<1>5. n \in Nat /\ n < IP_ROUNDS /\ half \in Nat /\ Len(ipa.a) = 2 * half
  <2>1. n # IP_ROUNDS
    <3>1. n = IP_ROUNDS => Len(ipa.a) = 1
      BY <1>4, LastRound
    <3>2. ~(1 > 1)
      OBVIOUS
    <3> QED BY <1>1, <3>1, <3>2
  <2>2. n \in Nat /\ n <= IP_ROUNDS
    BY <1>4, LastRound
  <2>3. n < IP_ROUNDS
    BY <2>1, <2>2, Length
  <2> QED BY <1>4, <2>2, <2>3, LastRound
<1>6. PICK l, r :
         /\ l = Cross(Lower(ipa.a, half), Upper(ipa.g, half), Upper(ipa.b, half), Lower(ipa.h, half))
         /\ r = Cross(Upper(ipa.a, half), Lower(ipa.g, half), Lower(ipa.b, half), Upper(ipa.h, half))
  OBVIOUS
<1>7. /\ proof' = [proof EXCEPT !.l = Append(@, l), !.r = Append(@, r)]
      /\ \E e \in FoldChallenges :
           /\ drawn' = Append(drawn, e)
           /\ ipa' = [a |-> HalveScalars(ipa.a, e, ScInv[e]), b |-> HalveScalars(ipa.b, ScInv[e], e),
                      g |-> Halve(ipa.g, ScInv[e], e), h |-> Halve(ipa.h, e, ScInv[e]),
                      p |-> FoldCommitments(ipa.p, l, r, e)]
  BY <1>6 DEF FoldRound, Lower, Upper
<1>8. PICK e \in FoldChallenges :
           /\ drawn' = Append(drawn, e)
           /\ ipa' = [a |-> HalveScalars(ipa.a, e, ScInv[e]), b |-> HalveScalars(ipa.b, ScInv[e], e),
                      g |-> Halve(ipa.g, ScInv[e], e), h |-> Halve(ipa.h, e, ScInv[e]),
                      p |-> FoldCommitments(ipa.p, l, r, e)]
  BY <1>7
<1>9. e \in Scalar
  BY RangeAssumption
<1>10. WithRound(proof', proof, l, r) /\ WithChallenge(drawn', drawn, e)
  BY <1>7, <1>8 DEF WithRound, WithChallenge
<1>11. PICK dr, pf, ip, dr1, pf1, ip1, d : /\ dr = drawn /\ pf = proof /\ ip = ipa
                                        /\ dr1 = drawn' /\ pf1 = proof' /\ ip1 = ipa' /\ d = ScInv[e]
  OBVIOUS
<1> HIDE DEF half
<1>12. PICK hn \in Nat : hn = half
  BY <1>5
<1>13. /\ ArgumentHolds(n, dr, pf, ip) /\ WithRound(pf1, pf, l, r) /\ WithChallenge(dr1, dr, e)
       /\ Len(ip.a) = 2 * hn
  BY <1>4, <1>5, <1>10, <1>11, <1>12
<1>14. /\ l = Cross(Lower(ip.a, hn), Upper(ip.g, hn), Upper(ip.b, hn), Lower(ip.h, hn))
       /\ r = Cross(Upper(ip.a, hn), Lower(ip.g, hn), Lower(ip.b, hn), Upper(ip.h, hn))
  BY <1>6, <1>11, <1>12
<1>15. ip1 = [a |-> HalveScalars(ip.a, e, d), b |-> HalveScalars(ip.b, d, e),
              g |-> Halve(ip.g, d, e), h |-> Halve(ip.h, e, d), p |-> FoldCommitments(ip.p, l, r, e)]
  BY <1>8, <1>11
<1>16. ArgumentHolds(n + 1, dr1, pf1, ip1)
  BY <1>5, <1>9, <1>11, <1>13, <1>14, <1>15, ArgumentFolds
<1>17. \E k : ArgumentHolds(k, drawn, proof, ipa)'
  BY <1>11, <1>16
<1> QED BY <1>1, <1>2, <1>3, <1>17 DEF RangeInv

LEMMA SendScalarsKeeps == RangeInv /\ SendScalars => RangeInv'
<1> SUFFICES ASSUME RangeInv, SendScalars PROVE RangeInv'
  OBVIOUS
<1>1. /\ pending = "fold" /\ pending' = "proved" /\ Len(ipa.a) = 1
      /\ verdict' = verdict /\ drawn' = drawn /\ proof' = proof /\ ipa' = ipa
  BY DEF SendScalars
<1>2. verdict' = NoVerdict /\ verdict'.call \notin {"verify", "batch"}
  <2>1. verdict = NoVerdict
    BY <1>1 DEF RangeInv
  <2> QED BY <1>1, <2>1 DEF NoVerdict
<1>3. AnswersAreRight'
  BY <1>2 DEF AnswersAreRight
<1>4. PICK n : ArgumentHolds(n, drawn, proof, ipa)
  BY <1>1 DEF RangeInv
<1>5. n = IP_ROUNDS
  BY <1>1, <1>4, LastRound
<1>6. ArgumentHolds(IP_ROUNDS, drawn, proof, ipa)'
  BY <1>1, <1>4, <1>5
<1> QED BY <1>1, <1>2, <1>3, <1>6 DEF RangeInv

LEMMA FinishProofKeeps == RangeInv /\ FinishProof => RangeInv'
<1> SUFFICES ASSUME RangeInv, FinishProof PROVE RangeInv'
  OBVIOUS
<1>1. pending' = "idle" /\ verdict' = NoVerdict
  BY DEF FinishProof
<1>2. verdict'.call \notin {"verify", "batch"}
  BY <1>1 DEF NoVerdict
<1>3. AnswersAreRight'
  BY <1>2 DEF AnswersAreRight
<1> QED BY <1>1, <1>2, <1>3 DEF RangeInv


(* A batch is the residuals of the prover's own scalars and of others.      *)
BatchOf(batch, n) == batch = [j \in 1..n |-> batch[j]] /\ \A j \in 1..n : batch[j] \in Altered
WrongIn(batch, n) == {j \in 1..n : batch[j] # LastScalars}

LEMMA BatchIs ==
  ASSUME ArgumentHolds(IP_ROUNDS, drawn, proof, ipa), Invertible,
         NEW batch, NEW n \in Nat, NEW ws \in Seq(Scalar), Len(ws) = n,
         BatchOf(batch, n), NEW bad, bad = WrongIn(batch, n),
         NEW ok, ok = VerifyBatch(batch, ws)
  PROVE  /\ bad = {} => ok
         /\ (\E j \in bad : bad = {j} /\ ws[j] # 0) => ~ok
<1>0. /\ batch = [j \in 1..n |-> batch[j]] /\ \A j \in 1..n : batch[j] \in Altered
      /\ bad = {j \in 1..n : batch[j] # LastScalars}
  BY DEF BatchOf, WrongIn
<1>1. PICK rs : rs = [j \in 1..n |-> ComputeResidual(batch[j])]
  OBVIOUS
<1>2. ok <=> Msm(rs, ws) = Origin
  <2>1. DOMAIN batch = 1..n
    BY <1>0
  <2> QED BY <1>1, <2>1 DEF VerifyBatch
<1>3. Len(rs) = n /\ \A j \in 1..n : rs[j] = ComputeResidual(batch[j])
  <2>1. DOMAIN rs = 1..n
    BY <1>1
  <2>2. rs \in [1..n -> {rs[j] : j \in 1..n}]
    BY <1>1
  <2> QED BY <1>1, <2>2, VectorLength
<1>4. \A k \in 1..n : ws[k] \in Scalar
  OBVIOUS
<1>5. \A k \in 1..n : ws[k] \in Int
  BY <1>4, ScalarFacts
<1>6. ASSUME bad = {} PROVE ok
  <2>1. \A k \in 1..n : rs[k] = Origin
    BY <1>0, <1>3, <1>6, HonestResidual
  <2>2. Msm(rs, ws) = Origin
    BY <1>3, <1>5, <2>1, BatchOfOrigins
  <2> QED BY <1>2, <2>2
<1>7. ASSUME NEW j \in bad, bad = {j}, ws[j] # 0 PROVE ~ok
  <2>1. j \in 1..n /\ batch[j] # LastScalars
    BY <1>0, <1>7
  <2>2. \A k \in 1..n : k # j => batch[k] = LastScalars
    BY <1>0, <1>7
  <2>3. rs[j] \in Points /\ rs[j] # Origin
    BY <1>0, <1>3, <2>1, HonestResidual
  <2>4. \A k \in 1..n : k # j => rs[k] = Origin
    BY <1>3, <2>2, HonestResidual
  <2>5. \A k \in 1..n : rs[k] \in Points
    BY <2>3, <2>4, PointFacts
  <2>6. Msm(rs, ws) # Origin
    BY <1>3, <1>4, <1>7, <2>1, <2>3, <2>4, <2>5, BatchWithOneWrong
  <2> QED BY <1>2, <2>6
<1> QED BY <1>6, <1>7

LEMMA AskKeeps == RangeInv /\ Ask => RangeInv'
<1> SUFFICES ASSUME RangeInv, Ask PROVE RangeInv'
  OBVIOUS
<1>1. /\ pending = "proved" /\ pending' = "proved" /\ secret' = secret
      /\ drawn' = drawn /\ proof' = proof /\ ipa' = ipa
  BY DEF Ask
<1>2. ArgumentHolds(IP_ROUNDS, drawn, proof, ipa)
  BY <1>1 DEF RangeInv
<1>3. ArgumentHolds(IP_ROUNDS, drawn, proof, ipa)'
  BY <1>1, <1>2
<1>4. (Invertible' <=> Invertible) /\ LastScalars' = LastScalars
  BY <1>1 DEF Invertible, LastScalars
<1>5. LastScalars \in Altered
  BY DEF Altered
<1>6. PICK last \in Altered :
          \/ verdict' = [call |-> "verify", ok |-> VerifyProof(last), batch |-> <<last>>,
                         weights |-> <<1>>]
          \/ \E weights \in Weights : \E honest \in SUBSET (DOMAIN weights) :
               LET batch == [j \in DOMAIN weights |->
                               IF j \in honest THEN LastScalars ELSE last]
               IN  verdict' = [call |-> "batch", ok |-> VerifyBatch(batch, weights),
                               batch |-> batch, weights |-> weights]
  BY DEF Ask
<1>7. AnswersAreRight'
  <2> SUFFICES ASSUME Invertible
               PROVE  /\ {j \in DOMAIN verdict'.batch : verdict'.batch[j] # LastScalars} = {} => verdict'.ok
                      /\ (\E j \in {j \in DOMAIN verdict'.batch : verdict'.batch[j] # LastScalars} :
                            /\ {k \in DOMAIN verdict'.batch : verdict'.batch[k] # LastScalars} = {j}
                            /\ verdict'.weights[j] # 0) => ~verdict'.ok
    BY <1>4 DEF AnswersAreRight
  <2>1. CASE verdict' = [call |-> "verify", ok |-> VerifyProof(last), batch |-> <<last>>,
                         weights |-> <<1>>]
    <3>1. verdict'.ok = VerifyProof(last) /\ verdict'.batch = <<last>> /\ verdict'.weights = <<1>>
      BY <2>1
    <3>2. DOMAIN <<last>> = {1} /\ <<last>>[1] = last
      OBVIOUS
    <3>3. {j \in DOMAIN verdict'.batch : verdict'.batch[j] # LastScalars}
            = IF last = LastScalars THEN {} ELSE {1}
      BY <3>1, <3>2
    <3>4. VerifyProof(last) <=> ComputeResidual(last) = Origin
      BY DEF VerifyProof
    <3>5. CASE last = LastScalars
      <4>1. VerifyProof(last)
        BY <1>2, <3>4, <3>5, HonestResidual
      <4> QED BY <3>1, <3>3, <3>5, <4>1
    <3>6. CASE last # LastScalars
      <4>1. ~VerifyProof(last)
        BY <1>2, <3>4, <3>6, HonestResidual
      <4> QED BY <3>1, <3>3, <3>6, <4>1
    <3> QED BY <3>5, <3>6
  <2>2. CASE \E weights \in Weights : \E honest \in SUBSET (DOMAIN weights) :
               LET batch == [j \in DOMAIN weights |->
                               IF j \in honest THEN LastScalars ELSE last]
               IN  verdict' = [call |-> "batch", ok |-> VerifyBatch(batch, weights),
                               batch |-> batch, weights |-> weights]
    <3>1. PICK weights \in Weights : \E honest \in SUBSET (DOMAIN weights) : \E batch :
             /\ batch = [j \in DOMAIN weights |-> IF j \in honest THEN LastScalars ELSE last]
             /\ verdict' = [call |-> "batch", ok |-> VerifyBatch(batch, weights),
                            batch |-> batch, weights |-> weights]
      BY <2>2
    <3>a. PICK honest, batch :
             /\ honest \in SUBSET (DOMAIN weights)
             /\ batch = [j \in DOMAIN weights |-> IF j \in honest THEN LastScalars ELSE last]
             /\ verdict' = [call |-> "batch", ok |-> VerifyBatch(batch, weights),
                            batch |-> batch, weights |-> weights]
      BY <3>1
    <3>2. PICK n \in Nat : n = Len(weights) /\ DOMAIN weights = 1..n /\ weights \in Seq(Scalar)
      <4>1. weights \in Seq(Scalar)
        BY RangeAssumption
      <4> QED BY <4>1
    <3>3. /\ batch = [j \in 1..n |-> batch[j]] /\ DOMAIN batch = 1..n
          /\ \A j \in 1..n : batch[j] \in Altered
      BY <1>5, <3>a, <3>2
    <3>4. PICK ok : ok = VerifyBatch(batch, weights)
      OBVIOUS
    <3>5. PICK bad : bad = WrongIn(batch, n)
      OBVIOUS
    <3>6. /\ bad = {} => ok
          /\ (\E j \in bad : bad = {j} /\ weights[j] # 0) => ~ok
      <4>1. BatchOf(batch, n) /\ weights \in Seq(Scalar) /\ Len(weights) = n
        BY <3>2, <3>3 DEF BatchOf
      <4> QED BY <1>2, <3>4, <3>5, <4>1, BatchIs
    <3>7. verdict'.ok = ok /\ verdict'.batch = batch /\ verdict'.weights = weights
      BY <3>a, <3>4
    <3>8. {j \in DOMAIN verdict'.batch : verdict'.batch[j] # LastScalars} = bad
      BY <3>3, <3>5, <3>7 DEF WrongIn
    <3> QED BY <3>6, <3>7, <3>8
  <2> QED BY <1>6, <2>1, <2>2
<1> QED BY <1>1, <1>3, <1>7 DEF RangeInv

LEMMA RangeStutterKeeps == RangeInv /\ UNCHANGED rangeVars => RangeInv'
<1> SUFFICES ASSUME RangeInv, UNCHANGED rangeVars PROVE RangeInv'
  OBVIOUS
<1>1. /\ pending' = pending /\ secret' = secret /\ proof' = proof /\ drawn' = drawn
      /\ ipa' = ipa /\ verdict' = verdict
  BY DEF rangeVars
<1>2. AnswersAreRight' <=> AnswersAreRight
  BY <1>1 DEF AnswersAreRight, Invertible, LastScalars
<1> QED BY <1>1, <1>2 DEF RangeInv

LEMMA RangeInvImplies == RangeInv => RangeProofsAreComplete
<1> SUFFICES ASSUME RangeInv PROVE RangeProofsAreComplete
  OBVIOUS
<1>1. ASSUME pending \in {"fold", "proved"}, Invertible
      PROVE  ipa.p = Cross(ipa.a, ipa.g, ipa.b, ipa.h)
  <2>1. PICK n : ArgumentHolds(n, drawn, proof, ipa)
    BY <1>1 DEF RangeInv
  <2> QED BY <1>1, <2>1 DEF ArgumentHolds, Commits, Invertible, InvertibleBy
<1>2. AnswersAreRight
  BY DEF RangeInv
<1> QED BY <1>1, <1>2 DEF RangeProofsAreComplete, AnswersAreRight

(* Whatever the value in range, its blinding, the scalars drawn and the     *)
(* challenges: every round keeps the commitment that of the folded vectors  *)
(* (inner_product_argument against verify), an honest proof verifies when   *)
(* the challenges have inverses, one with another last scalar does not, and *)
(* a batch answers as its proofs do (batch_verify).                         *)
THEOREM RangeProofsVerify == RangeSpec => []RangeProofsAreComplete
<1>1. RangeInit => RangeInv
  <2> SUFFICES ASSUME RangeInit PROVE RangeInv
    OBVIOUS
  <2>1. pending = "idle" /\ verdict.call \notin {"verify", "batch"}
    BY DEF RangeInit, NoVerdict
  <2> QED BY <2>1, Unanswered DEF RangeInv
<1>2. RangeInv /\ [RangeNext]_rangeVars => RangeInv'
  BY BeginProofKeeps, SendCommitmentsKeeps, SendPolynomialKeeps, EvaluateKeeps, FoldRoundKeeps,
     SendScalarsKeeps, AskKeeps, FinishProofKeeps, RangeStutterKeeps DEF RangeNext
<1>3. RangeSpec => []RangeInv
  BY <1>1, <1>2, PTL DEF RangeSpec
<1> QED BY <1>3, RangeInvImplies, PTL

-----------------------------------------------------------------------------
(* Values of polynomials over it, and their halves.                         *)

(* The rule of Horner, up to congruence.                                    *)
LEMMA HornerIs ==
  ASSUME NEW m \in Nat, NEW n \in Nat, NEW v \in Int, NEW cs, NEW s,
         \A k \in 1..n : cs[k] \in Int,
         \A k \in 0..n : s[k] \in Int,
         s[0] = 0, \A k \in 1..n : Same(s[k], v * s[k - 1] + cs[n + 1 - k], m)
  PROVE  Same(s[n], PolySum(cs, n, v), m)
<1>0. \A e \in 0..n : PolySum(cs, e, v) \in Int
  <2>1. ASSUME NEW e \in 0..n PROVE PolySum(cs, e, v) \in Int
    <3>1. e \in Nat /\ \A k \in 1..e : cs[k] \in Int
      OBVIOUS
    <3> QED BY <3>1, PolyStep
  <2> QED BY <2>1
<1> DEFINE Q == {k \in Nat : k <= n =>
                   Same(PolySum(cs, n - k, v) + Raised(v, n - k) * s[k], PolySum(cs, n, v), m)}
<1>1. 0 \in Q
  <2>1. PICK tot \in Int, p \in Int : tot = PolySum(cs, n, v) /\ p = Raised(v, n)
    <3>1. n \in 0..n
      OBVIOUS
    <3> QED BY <1>0, <3>1, RaisedStep
  <2>2. tot + p * 0 = tot /\ n - 0 = n /\ Same(tot, tot, m)
    BY SameChain
  <2> QED BY <2>1, <2>2
<1>2. ASSUME NEW k \in Q PROVE k + 1 \in Q
  <2>1. CASE k + 1 <= n
    <3>1. PICK e \in Nat, d \in Nat, k1 \in 1..n :
             /\ e = n - k /\ d = n - (k + 1) /\ e = d + 1 /\ e - 1 = d /\ e > 0 /\ e \in 1..n
             /\ k1 = k + 1 /\ k1 - 1 = k /\ n + 1 - k1 = e /\ k \in 0..n /\ k1 \in 0..n
             /\ d \in 0..n /\ e \in 0..n /\ n \in 0..n
      BY <2>1
    <3>2. PICK pe \in Int, pd \in Int, tot \in Int, c \in Int, re \in Int, rd \in Int,
               sk \in Int, s1 \in Int :
             /\ pe = PolySum(cs, e, v) /\ pd = PolySum(cs, d, v) /\ tot = PolySum(cs, n, v)
             /\ c = cs[e] /\ re = Raised(v, e) /\ rd = Raised(v, d)
             /\ sk = s[k] /\ s1 = s[k1]
      BY <1>0, <3>1, RaisedStep
    <3>3. re = rd * v
      BY <3>1, <3>2, RaisedStep
    <3>4. pe = pd + c * rd
      <4>1. \A j \in 1..e : cs[j] \in Int
        BY <3>1
      <4>2. PolySum(cs, e, v) = PolySum(cs, e - 1, v) + cs[e] * Raised(v, e - 1)
        BY <3>1, <4>1, PolyStep
      <4> QED BY <3>1, <3>2, <4>2
    <3>5. Same(s1, v * sk + c, m)
      BY <3>1, <3>2
    <3>6. Same(pe + re * sk, tot, m)
      BY <3>1, <3>2
    <3>7. PICK w \in Int, rs \in Int, rw \in Int, old \in Int, new \in Int :
             /\ w = v * sk + c /\ rs = rd * s1 /\ rw = rd * w
             /\ old = pe + re * sk /\ new = pd + rs
      OBVIOUS
    <3>8. old = pd + rw
      <4>1. rd * (v * sk + c) = (rd * v) * sk + c * rd
        BY Z3
      <4>2. PICK x1 \in Int, x2 \in Int : x1 = (rd * v) * sk /\ x2 = c * rd
        OBVIOUS
      <4>3. rw = x1 + x2 /\ re * sk = x1
        BY <3>3, <3>7, <4>1, <4>2
      <4> QED BY <3>4, <3>7, <4>2, <4>3
    <3>9. Same(rs, rw, m)
      BY <3>5, <3>7, SameTimes
    <3>10. Same(pd, pd, m)
      BY SameChain
    <3>11. Same(new, old, m)
      <4>1. Same(pd + rs, pd + rw, m)
        BY <3>9, <3>10, SameSum
      <4> QED BY <3>7, <3>8, <4>1
    <3>12. Same(new, tot, m)
      BY <3>6, <3>7, <3>11, SameChain
    <3>13. k + 1 \in Nat /\ Same(PolySum(cs, n - (k + 1), v) + Raised(v, n - (k + 1)) * s[k + 1],
                                 PolySum(cs, n, v), m)
      BY <3>1, <3>2, <3>7, <3>12
    <3> QED BY <3>13
  <2>2. CASE ~(k + 1 <= n)
    BY <2>2
  <2> QED BY <2>1, <2>2
<1>3. Q = Nat
  <2>1. Q \in SUBSET Nat
    OBVIOUS
  <2> HIDE DEF Q
  <2> QED BY <1>1, <1>2, <2>1, Inductive
<1>4. n \in Q
  <2> HIDE DEF Q
  <2> QED BY <1>3
<1>5. PICK a \in Int, b \in Int : a = s[n] /\ b = PolySum(cs, n, v)
  <2>1. n \in 0..n
    OBVIOUS
  <2> QED BY <1>0, <2>1
<1>6. PolySum(cs, 0, v) = 0 /\ Raised(v, 0) = 1
  <2>1. 0 \in Nat /\ \A k \in 1..0 : cs[k] \in Int
    OBVIOUS
  <2> QED BY <2>1, PolyStep, RaisedStep
<1>7. n - n = 0 /\ n <= n /\ 0 + 1 * a = a
  OBVIOUS
<1>8. Same(PolySum(cs, n - n, v) + Raised(v, n - n) * s[n], PolySum(cs, n, v), m)
  BY <1>4, <1>7
<1> QED BY <1>5, <1>6, <1>7, <1>8

(* What poly_eval returns.                                                  *)
LEMMA PolyEvalIs ==
  ASSUME NEW cs \in Seq(Felts), NEW v \in Felts
  PROVE  PolyEval(cs, v) \in Felts /\ Same(PolyEval(cs, v), PolySum(cs, Len(cs), v), MODULUS)
<1> DEFINE n == Len(cs)
           Step(f, k) == IF k = 0 THEN 0 ELSE FeltAdd(FeltMul(f[k - 1], v), cs[n + 1 - k])
           G == [k \in 1..n |-> [u \in Felts |-> FeltAdd(FeltMul(u, v), cs[n + 1 - k])]]
           s == CHOOSE s : s = [k \in 0..n |-> Step(s, k)]
<1>1. n \in Nat /\ (\A k \in 1..n : cs[k] \in Felts) /\ v \in Int /\ 0 \in Felts /\ MODULUS \in Nat
  BY FeltFacts
<1>2. ASSUME NEW u \in Felts, NEW c \in Felts
      PROVE  /\ FeltAdd(FeltMul(u, v), c) \in Felts
             /\ Same(FeltAdd(FeltMul(u, v), c), v * u + c, MODULUS)
  <2>1. u \in Int /\ c \in Int /\ Same(u, u, MODULUS) /\ Same(v, v, MODULUS) /\ Same(c, c, MODULUS)
    BY FeltSelf
  <2>2. PICK w \in Felts, uv \in Int : w = FeltMul(u, v) /\ uv = u * v /\ uv = v * u
                                       /\ Same(w, uv, MODULUS)
    <3>1. FeltMul(u, v) \in Felts /\ Same(FeltMul(u, v), u * v, MODULUS)
      BY <1>1, <2>1, FeltMulOf
    <3>2. u * v \in Int /\ u * v = v * u
      BY <1>1, <2>1
    <3> QED BY <3>1, <3>2
  <2>3. FeltAdd(w, c) \in Felts /\ Same(FeltAdd(w, c), uv + c, MODULUS)
    BY <2>1, <2>2, FeltAddOf
  <2> QED BY <2>2, <2>3
<1>3. \A k \in 1..n : n + 1 - k \in 1..n
  BY <1>1
<1>4. G \in [1..n -> [Felts -> Felts]]
  BY <1>1, <1>2, <1>3
<1>5. PICK f0 : Recurs(f0, Felts, 0, n, G)
  <2> HIDE DEF G
  <2> QED BY <1>1, <1>4, Recursion
<1>6. f0 \in [0..n -> Felts] /\ f0[0] = 0 /\ \A k \in 1..n : f0[k] = G[k][f0[k - 1]]
  <2> HIDE DEF G
  <2> QED BY <1>5 DEF Recurs
<1>7. ASSUME NEW k \in 0..n PROVE f0[k] = Step(f0, k)
  <2>1. k # 0 => k - 1 \in 0..n /\ k \in 1..n
    BY <1>1
  <2>2. k # 0 => f0[k - 1] \in Felts
                 /\ G[k] = [u \in Felts |-> FeltAdd(FeltMul(u, v), cs[n + 1 - k])]
    BY <1>6, <2>1
  <2> QED BY <1>6, <2>1, <2>2
<1>8. f0 = [k \in 0..n |-> Step(f0, k)]
  <2> HIDE DEF Step, G
  <2>1. f0 = [k \in 0..n |-> f0[k]]
    BY <1>6
  <2> QED BY <1>7, <2>1
<1>9. s = [k \in 0..n |-> Step(s, k)]
  <2> HIDE DEF Step, G
  <2> QED BY <1>8
<1>10. PolyEval(cs, v) = s[n]
  BY DEF PolyEval
<1> HIDE DEF s, G
<1>11. \A k \in 0..n : s[k] = Step(s, k)
  <2> HIDE DEF Step
  <2> QED BY <1>9
<1> DEFINE Q == {k \in Nat : k <= n => s[k] \in Felts}
<1>12. 0 \in Q
  <2>1. s[0] = 0
    BY <1>1, <1>11
  <2> QED BY <1>1, <2>1
<1>13. ASSUME NEW k \in 1..n, s[k - 1] \in Felts
       PROVE  s[k] \in Felts /\ Same(s[k], v * s[k - 1] + cs[n + 1 - k], MODULUS)
  <2>1. s[k] = FeltAdd(FeltMul(s[k - 1], v), cs[n + 1 - k])
    BY <1>1, <1>11
  <2>2. cs[n + 1 - k] \in Felts
    BY <1>1, <1>3
  <2> QED BY <1>2, <1>13, <2>1, <2>2
<1>14. ASSUME NEW k \in Q PROVE k + 1 \in Q
  <2>1. CASE k + 1 <= n
    <3>1. k + 1 \in 1..n /\ (k + 1) - 1 = k /\ s[k] \in Felts
      BY <1>1, <2>1
    <3>2. s[k + 1] \in Felts
      BY <1>13, <3>1
    <3> QED BY <3>1, <3>2
  <2> QED BY <2>1
<1>15. Q = Nat
  <2>1. Q \in SUBSET Nat
    OBVIOUS
  <2> HIDE DEF Q
  <2> QED BY <1>12, <1>14, <2>1, Inductive
<1>16. \A k \in 0..n : s[k] \in Felts /\ s[k] \in Int
  <2>1. ASSUME NEW k \in 0..n PROVE s[k] \in Felts
    <3>1. k \in Nat /\ k <= n
      BY <1>1
    <3>2. k \in Q
      <4> HIDE DEF Q
      <4> QED BY <1>15, <3>1
    <3> QED BY <3>1, <3>2
  <2> HIDE DEF Q
  <2> QED BY <2>1, FeltFacts
<1>17. s[0] = 0 /\ \A k \in 1..n : /\ Same(s[k], v * s[k - 1] + cs[n + 1 - k], MODULUS)
                                   /\ cs[k] \in Int
  <2>1. \A k \in 1..n : s[k - 1] \in Felts
    BY <1>1, <1>16
  <2>2. s[0] = 0
    BY <1>1, <1>11
  <2> QED BY <1>1, <1>13, <2>1, <2>2, FeltFacts
<1>18. Same(s[n], PolySum(cs, n, v), MODULUS)
  <2> HIDE DEF Q, Step
  <2> QED BY <1>1, <1>16, <1>17, HornerIs
<1>19. n \in 0..n
  BY <1>1
<1> QED BY <1>10, <1>16, <1>18, <1>19

(* Congruent points have congruent values.                                  *)
LEMMA PolyOfPoint ==
  ASSUME NEW m \in Nat, NEW u \in Int, NEW v \in Int, Same(u, v, m), NEW n \in Nat,
         NEW f, \A k \in 1..n : f[k] \in Int
  PROVE  Same(PolySum(f, n, u), PolySum(f, n, v), m)
<1> DEFINE h == [k \in 1..n |-> f[k] * Raised(u, k - 1)]
           g == [k \in 1..n |-> f[k] * Raised(v, k - 1)]
<1>1. ASSUME NEW k \in 1..n PROVE h[k] \in Int /\ g[k] \in Int /\ Same(h[k], g[k], m)
  <2>1. k - 1 \in Nat
    OBVIOUS
  <2>2. PICK p \in Int, q \in Int, c \in Int :
           p = Raised(u, k - 1) /\ q = Raised(v, k - 1) /\ c = f[k]
    BY <2>1, RaisedStep
  <2>3. Same(p, q, m)
    BY <2>1, <2>2, RaisedOfSame
  <2>4. Same(c * p, c * q, m) /\ c * p \in Int /\ c * q \in Int
    <3>1. Same(c * p, c * q, m)
      BY <2>3, SameTimes
    <3>2. c * p \in Int /\ c * q \in Int
      OBVIOUS
    <3> QED BY <3>1, <3>2
  <2>5. h[k] = c * p /\ g[k] = c * q
    BY <2>2
  <2> HIDE DEF h, g
  <2> QED BY <2>4, <2>5
<1>2. Same(SumOf(h, n), SumOf(g, n), m)
  <2> HIDE DEF h, g
  <2> QED BY <1>1, SumOfSame
<1> QED BY <1>2 DEF PolySum

(* A polynomial is that of its even coefficients at the square, and the     *)
(* point times that of its odd ones.                                        *)
Halves(ev, od, g, h) ==
    /\ \A k \in 1..(2 * h) : g[k] \in Int
    /\ \A k \in 1..h : ev[k] = g[2 * k - 1] /\ od[k] = g[2 * k]

LEMMA PolySplits ==
  ASSUME NEW h \in Nat, NEW g, NEW ev, NEW od, NEW v \in Int, NEW q \in Int, q = v * v,
         Halves(ev, od, g, h)
  PROVE  /\ PolySum(ev, h, q) \in Int /\ PolySum(od, h, q) \in Int
         /\ PolySum(g, 2 * h, v) = PolySum(ev, h, q) + v * PolySum(od, h, q)
<1>9. /\ \A k \in 1..(2 * h) : g[k] \in Int
      /\ \A k \in 1..h : ev[k] = g[2 * k - 1] /\ od[k] = g[2 * k]
  BY DEF Halves
<1>0. \A k \in 1..h : ev[k] \in Int /\ od[k] \in Int
  <2>1. \A k \in 1..h : 2 * k - 1 \in 1..(2 * h) /\ 2 * k \in 1..(2 * h)
    OBVIOUS
  <2> QED BY <1>9, <2>1
<1> DEFINE Q == {k \in Nat : k <= h =>
                   PolySum(g, 2 * k, v) = PolySum(ev, k, q) + v * PolySum(od, k, q)}
<1>1. 0 \in Q
  <2>1. 0 \in Nat /\ \A k \in 1..0 : g[k] \in Int /\ ev[k] \in Int /\ od[k] \in Int
    OBVIOUS
  <2>2. PolySum(g, 0, v) = 0 /\ PolySum(ev, 0, q) = 0 /\ PolySum(od, 0, q) = 0
    BY <2>1, PolyStep
  <2>3. 2 * 0 = 0 /\ 0 + v * 0 = 0
    OBVIOUS
  <2> QED BY <2>2, <2>3
<1>2. ASSUME NEW k \in Q PROVE k + 1 \in Q
  <2>1. CASE k + 1 <= h
    <3>1. PICK k1 \in 1..h, d \in Nat, d1 \in Nat, d2 \in Nat :
             /\ k1 = k + 1 /\ k1 - 1 = k /\ k \in Nat /\ k1 \in Nat /\ k1 > 0 /\ k <= h
             /\ d = 2 * k /\ d1 = 2 * k1 - 1 /\ d2 = 2 * k1 /\ d1 = d + 1 /\ d2 = d1 + 1
             /\ d1 - 1 = d /\ d2 - 1 = d1 /\ d1 > 0 /\ d2 > 0 /\ d2 <= 2 * h
             /\ d1 \in 1..d1 /\ d2 \in 1..d2
      BY <2>1
    <3>2. (\A j \in 1..d2 : g[j] \in Int) /\ (\A j \in 1..d1 : g[j] \in Int)
          /\ (\A j \in 1..k1 : ev[j] \in Int /\ od[j] \in Int) /\ d1 \in 1..d2
          /\ (\A j \in 1..d : g[j] \in Int) /\ (\A j \in 1..k : ev[j] \in Int /\ od[j] \in Int)
      BY <1>0, <1>9, <3>1
    <3>3. PICK c1 \in Int, c2 \in Int, r \in Int :
             c1 = g[d1] /\ c2 = g[d2] /\ r = Raised(q, k) /\ ev[k1] = c1 /\ od[k1] = c2
      BY <1>9, <3>1, <3>2, RaisedStep
    <3>4. Raised(v, d) = r /\ Raised(v, d1) = r * v
      <4>1. Raised(v, 2) = q
        <5>1. 0 \in Nat /\ 1 \in Nat /\ 0 + 1 = 1 /\ 1 + 1 = 2
          OBVIOUS
        <5>2. \A e \in Nat : Raised(v, e + 1) = Raised(v, e) * v
          BY RaisedStep
        <5>3. Raised(v, 0) = 1 /\ 1 * v = v
          BY RaisedStep
        <5>4. Raised(v, 0 + 1) = Raised(v, 0) * v /\ Raised(v, 1 + 1) = Raised(v, 1) * v
          BY <5>1, <5>2
        <5> QED BY <5>1, <5>3, <5>4
      <4>2. Raised(Raised(v, 2), k) = Raised(v, 2 * k)
        <5>1. 2 \in Nat
          OBVIOUS
        <5> QED BY <3>1, <5>1, RaisedTwice
      <4>3. Raised(v, d + 1) = Raised(v, d) * v
        BY <3>1, RaisedStep
      <4> QED BY <3>1, <3>3, <4>1, <4>2, <4>3
    <3>5. PICK pg \in Int, pe \in Int, po \in Int :
             /\ pg = PolySum(g, d, v) /\ pe = PolySum(ev, k, q) /\ po = PolySum(od, k, q)
             /\ pg = pe + v * po
      <4>1. PolySum(g, d, v) \in Int /\ PolySum(ev, k, q) \in Int /\ PolySum(od, k, q) \in Int
        BY <3>1, <3>2, PolyStep
      <4>2. PolySum(g, d, v) = PolySum(ev, k, q) + v * PolySum(od, k, q)
        BY <3>1
      <4> QED BY <4>1, <4>2
    <3>6. PolySum(g, d1, v) = pg + c1 * r
      <4>1. PolySum(g, d1, v) = PolySum(g, d1 - 1, v) + g[d1] * Raised(v, d1 - 1)
        BY <3>1, <3>2, PolyStep
      <4> QED BY <3>1, <3>3, <3>4, <3>5, <4>1
    <3>7. PolySum(g, d2, v) = (pg + c1 * r) + c2 * (r * v)
      <4>1. PolySum(g, d2, v) = PolySum(g, d2 - 1, v) + g[d2] * Raised(v, d2 - 1)
        BY <3>1, <3>2, PolyStep
      <4> QED BY <3>1, <3>3, <3>4, <3>6, <4>1
    <3>8. PolySum(ev, k1, q) = pe + c1 * r
      <4>1. PolySum(ev, k1, q) = PolySum(ev, k1 - 1, q) + ev[k1] * Raised(q, k1 - 1)
        BY <3>1, <3>2, PolyStep
      <4> QED BY <3>1, <3>3, <3>5, <4>1
    <3>9. PolySum(od, k1, q) = po + c2 * r
      <4>1. PolySum(od, k1, q) = PolySum(od, k1 - 1, q) + od[k1] * Raised(q, k1 - 1)
        BY <3>1, <3>2, PolyStep
      <4> QED BY <3>1, <3>3, <3>5, <4>1
    <3>10. ((pe + v * po) + c1 * r) + c2 * (r * v) = (pe + c1 * r) + v * (po + c2 * r)
      BY Z3
    <3>11. PolySum(g, d2, v) = PolySum(ev, k1, q) + v * PolySum(od, k1, q)
      BY <3>5, <3>7, <3>8, <3>9, <3>10
    <3> QED BY <3>1, <3>11
  <2>2. CASE ~(k + 1 <= h)
    BY <2>2
  <2> QED BY <2>1, <2>2
<1>3. Q = Nat
  <2>1. Q \in SUBSET Nat
    OBVIOUS
  <2> HIDE DEF Q
  <2> QED BY <1>1, <1>2, <2>1, Inductive
<1>4. h \in Q
  <2> HIDE DEF Q
  <2> QED BY <1>3
<1>5. PolySum(ev, h, q) \in Int /\ PolySum(od, h, q) \in Int
  BY <1>0, PolyStep
<1> QED BY <1>4, <1>5

(* The folded polynomial has elements for coefficients.                     *)
LEMMA FoldedPolyType ==
  ASSUME NEW cs \in Seq(Felts), NEW beta \in Felts, NEW h, h = (Len(cs) + 1) \div 2
  PROVE  /\ FoldedPoly(cs, beta) \in Seq(Felts) /\ Len(FoldedPoly(cs, beta)) = h /\ h \in Nat
         /\ \A k \in 1..h :
              LET c == IF 2 * k <= Len(cs) THEN cs[2 * k] ELSE 0 IN
              /\ cs[2 * k - 1] \in Felts /\ c \in Felts
              /\ FoldedPoly(cs, beta)[k] \in Felts
              /\ Same(FoldedPoly(cs, beta)[k], cs[2 * k - 1] + beta * c, MODULUS)
<1>1. PICK n \in Nat : n = Len(cs) /\ \A k \in 1..n : cs[k] \in Felts
  OBVIOUS
<1>2. h \in Nat /\ \A k \in 1..h : 2 * k - 1 \in 1..n /\ (2 * k <= n => 2 * k \in 1..n)
  BY <1>1
<1> DEFINE f == [k \in 1..h |-> FeltAdd(cs[2 * k - 1],
                                        IF 2 * k <= n THEN FeltMul(beta, cs[2 * k]) ELSE 0)]
<1>3. FoldedPoly(cs, beta) = f
  BY <1>1 DEF FoldedPoly
<1>4. ASSUME NEW k \in 1..h, NEW c, c = IF 2 * k <= n THEN cs[2 * k] ELSE 0
      PROVE  /\ cs[2 * k - 1] \in Felts /\ c \in Felts /\ f[k] \in Felts
             /\ Same(f[k], cs[2 * k - 1] + beta * c, MODULUS)
  <2>1. PICK a \in Felts : a = cs[2 * k - 1]
    BY <1>1, <1>2
  <2>2. c \in Felts
    BY <1>1, <1>2, <1>4, FeltFacts
  <2>3. a \in Int /\ c \in Int /\ beta \in Int /\ Same(a, a, MODULUS) /\ Same(c, c, MODULUS)
        /\ Same(beta, beta, MODULUS)
    BY <2>2, FeltSelf
  <2>4. PICK bc \in Int, p \in Felts :
           bc = beta * c /\ p = (IF 2 * k <= n THEN FeltMul(beta, cs[2 * k]) ELSE 0)
           /\ Same(p, bc, MODULUS)
    <3>1. CASE 2 * k <= n
      <4>1. FeltMul(beta, c) \in Felts /\ Same(FeltMul(beta, c), beta * c, MODULUS)
        BY <2>2, <2>3, FeltMulOf
      <4>2. beta * c \in Int
        BY <2>3
      <4> QED BY <1>4, <3>1, <4>1, <4>2
    <3>2. CASE ~(2 * k <= n)
      <4>1. c = 0 /\ beta * c = 0 /\ 0 \in Felts
        BY <1>4, <2>3, <3>2, FeltFacts
      <4>2. Same(0, 0, MODULUS)
        BY <4>1, FeltSelf
      <4> QED BY <3>2, <4>1, <4>2
    <3> QED BY <3>1, <3>2
  <2>5. FeltAdd(a, p) \in Felts /\ Same(FeltAdd(a, p), a + bc, MODULUS)
    BY <2>3, <2>4, FeltAddOf
  <2>6. f[k] = FeltAdd(a, p)
    BY <2>1, <2>4
  <2> HIDE DEF f
  <2> QED BY <2>1, <2>2, <2>4, <2>5, <2>6
<1>5. f \in [1..h -> Felts]
  <2>1. ASSUME NEW k \in 1..h PROVE f[k] \in Felts
    <3>1. PICK c : c = IF 2 * k <= n THEN cs[2 * k] ELSE 0
      OBVIOUS
    <3> HIDE DEF f
    <3> QED BY <1>4, <3>1
  <2>2. f = [k \in 1..h |-> f[k]]
    OBVIOUS
  <2> HIDE DEF f
  <2> QED BY <2>1, <2>2
<1>6. f \in Seq(Felts) /\ Len(f) = h
  <2> HIDE DEF f
  <2> QED BY <1>2, <1>5, VectorLength
<1> HIDE DEF f
<1> QED BY <1>1, <1>2, <1>3, <1>4, <1>6

(* At a point and its opposite a polynomial is the sum and the difference   *)
(* of two numbers, that the folded one combines at the square.              *)
LEMMA FoldedPolyIs ==
  ASSUME NEW cs \in Seq(Felts), NEW beta \in Felts, NEW p \in Felts, NEW q \in Felts,
         NEW w \in Felts, Same(q, 0 - p, MODULUS), Same(w, p * p, MODULUS)
  PROVE  \E a \in Int, b \in Int :
           /\ Same(PolyEval(cs, p), a + p * b, MODULUS)
           /\ Same(PolyEval(cs, q), a - p * b, MODULUS)
           /\ Same(PolyEval(FoldedPoly(cs, beta), w), a + beta * b, MODULUS)
<1>1. PICK n \in Nat : n = Len(cs) /\ \A k \in 1..n : cs[k] \in Felts /\ cs[k] \in Int
  BY FeltFacts
<1>2. PICK h \in Nat, hh \in Nat : h = (n + 1) \div 2 /\ hh = 2 * h /\ n <= hh
                                   /\ \A k \in 1..h : 2 * k - 1 <= n
  <2>1. (n + 1) \div 2 \in Nat /\ n <= 2 * ((n + 1) \div 2)
        /\ \A k \in 1..((n + 1) \div 2) : 2 * k - 1 <= n
    BY <1>1
  <2> QED BY <2>1
<1>3. p \in Int /\ q \in Int /\ w \in Int /\ beta \in Int /\ MODULUS \in Nat
  BY FeltFacts
<1> DEFINE g == [k \in 1..hh |-> IF k <= n THEN cs[k] ELSE 0]
           ev == [k \in 1..h |-> cs[2 * k - 1]]
           od == [k \in 1..h |-> IF 2 * k <= n THEN cs[2 * k] ELSE 0]
           f == FoldedPoly(cs, beta)
<1>4. PICK pp \in Int, np \in Int : pp = p * p /\ np = 0 - p /\ pp = np * np
  <2>1. (0 - p) * (0 - p) = p * p
    BY <1>3, Z3
  <2> QED BY <1>3, <2>1
<1>5. \A k \in 1..(2 * h) : g[k] \in Int
  BY <1>1, <1>2
<1>6. ASSUME NEW k \in 1..h
      PROVE  /\ ev[k] = g[2 * k - 1] /\ od[k] = g[2 * k]
             /\ ev[k] \in Int /\ od[k] \in Int
  <2>1. 2 * k - 1 \in 1..n /\ 2 * k - 1 \in 1..hh /\ 2 * k \in 1..hh
        /\ (2 * k <= n => 2 * k \in 1..n)
    BY <1>1, <1>2
  <2> QED BY <1>1, <2>1
<1>7. Pads(g, cs, n, hh)
  BY <1>1 DEF Pads
<1>8. PICK a \in Int, b \in Int :
         /\ a = PolySum(ev, h, pp) /\ b = PolySum(od, h, pp)
         /\ PolySum(g, hh, p) = a + p * b /\ PolySum(g, hh, np) = a + np * b
  <2>1. /\ PolySum(ev, h, pp) \in Int /\ PolySum(od, h, pp) \in Int
        /\ PolySum(g, 2 * h, p) = PolySum(ev, h, pp) + p * PolySum(od, h, pp)
    <3>1. Halves(ev, od, g, h)
      <4> HIDE DEF g, ev, od
      <4> QED BY <1>5, <1>6 DEF Halves
    <3> HIDE DEF g, ev, od
    <3> QED BY <1>3, <1>4, <3>1, PolySplits
  <2>2. PolySum(g, 2 * h, np) = PolySum(ev, h, pp) + np * PolySum(od, h, pp)
    <3>1. Halves(ev, od, g, h)
      <4> HIDE DEF g, ev, od
      <4> QED BY <1>5, <1>6 DEF Halves
    <3> HIDE DEF g, ev, od
    <3> QED BY <1>3, <1>4, <3>1, PolySplits
  <2> HIDE DEF g, ev, od
  <2> QED BY <1>2, <2>1, <2>2
<1>9. PolySum(cs, n, p) = a + p * b /\ PolySum(cs, n, np) = a - p * b
  <2>1. PolySum(g, hh, p) = PolySum(cs, n, p) /\ PolySum(g, hh, np) = PolySum(cs, n, np)
    <3> HIDE DEF g
    <3> QED BY <1>1, <1>2, <1>3, <1>4, <1>7, PolyPads
  <2>2. (0 - p) * b = 0 - p * b
    BY <1>3, Z3
  <2>3. PICK pb \in Int : pb = p * b
    BY <1>3
  <2>4. a + np * b = a - p * b
    BY <1>4, <2>2, <2>3
  <2> QED BY <1>8, <2>1, <2>4
<1>10. PICK top \in Int, bottom \in Int : top = a + p * b /\ bottom = a - p * b
  BY <1>3
<1>11. Same(PolyEval(cs, p), top, MODULUS)
  BY <1>1, <1>9, <1>10, PolyEvalIs
<1>12. Same(PolyEval(cs, q), bottom, MODULUS)
  <2>1. PICK u \in Int, v \in Int : u = PolyEval(cs, q) /\ v = PolySum(cs, n, q)
                                    /\ Same(u, v, MODULUS)
    <3>1. PolyEval(cs, q) \in Felts /\ Same(PolyEval(cs, q), PolySum(cs, Len(cs), q), MODULUS)
      BY PolyEvalIs
    <3>2. PolySum(cs, n, q) \in Int
      BY <1>1, <1>3, PolyStep
    <3> QED BY <1>1, <3>1, <3>2, FeltFacts
  <2>2. Same(q, np, MODULUS)
    BY <1>4
  <2>3. Same(PolySum(cs, n, q), PolySum(cs, n, np), MODULUS)
    BY <1>1, <1>3, <2>2, PolyOfPoint
  <2>4. Same(v, bottom, MODULUS)
    BY <1>9, <1>10, <2>1, <2>3
  <2> QED BY <1>3, <2>1, <2>4, SameChain
<1>13. PICK z \in Int : z = a + beta * b /\ Same(PolyEval(f, w), z, MODULUS)
  <2>1. f \in Seq(Felts) /\ Len(f) = h
        /\ \A k \in 1..h :
              LET c == IF 2 * k <= Len(cs) THEN cs[2 * k] ELSE 0 IN
              /\ cs[2 * k - 1] \in Felts /\ c \in Felts
              /\ f[k] \in Felts
              /\ Same(f[k], cs[2 * k - 1] + beta * c, MODULUS)
    BY <1>1, <1>2, FoldedPolyType
  <2>2. ASSUME NEW k \in 1..h
        PROVE  /\ f[k] \in Int /\ ev[k] \in Int /\ od[k] \in Int
               /\ Same(f[k], 1 * ev[k] + beta * od[k], MODULUS)
    <3>1. PICK c \in Felts, d \in Felts, e \in Felts :
             /\ c = (IF 2 * k <= Len(cs) THEN cs[2 * k] ELSE 0) /\ d = cs[2 * k - 1] /\ e = f[k]
             /\ Same(e, d + beta * c, MODULUS)
      <4> HIDE DEF f
      <4> QED BY <2>1
    <3>2. ev[k] = d /\ od[k] = c /\ c \in Int /\ d \in Int /\ e \in Int /\ 1 * d = d
      BY <1>1, <3>1, FeltFacts
    <3> HIDE DEF f, ev, od
    <3> QED BY <3>1, <3>2
  <2>3. Same(PolySum(f, h, pp), 1 * PolySum(ev, h, pp) + beta * PolySum(od, h, pp), MODULUS)
    <3>1. 1 \in Int
      OBVIOUS
    <3> HIDE DEF f, ev, od
    <3> QED BY <1>3, <2>2, <3>1, PolyLinear
  <2>4. PICK z \in Int, u \in Int, v \in Int, s \in Int :
           /\ z = a + beta * b /\ u = PolyEval(f, w) /\ v = PolySum(f, h, w)
           /\ s = PolySum(f, h, pp) /\ Same(u, v, MODULUS)
    <3>1. PolyEval(f, w) \in Felts /\ Same(PolyEval(f, w), PolySum(f, Len(f), w), MODULUS)
      <4> HIDE DEF f
      <4> QED BY <2>1, PolyEvalIs
    <3>2. PolySum(f, h, w) \in Int /\ PolySum(f, h, pp) \in Int
      <4> HIDE DEF f, ev, od
      <4> QED BY <1>3, <2>2, PolyStep
    <3>3. a + beta * b \in Int
      BY <1>3
    <3> HIDE DEF f
    <3> QED BY <2>1, <3>1, <3>2, <3>3, FeltFacts
  <2>5. Same(v, s, MODULUS)
    <3>1. Same(w, pp, MODULUS)
      BY <1>4
    <3>2. Same(PolySum(f, h, w), PolySum(f, h, pp), MODULUS)
      <4> HIDE DEF f, ev, od
      <4> QED BY <1>3, <2>2, <3>1, PolyOfPoint
    <3> QED BY <2>4, <3>2
  <2>6. Same(s, z, MODULUS)
    <3>1. 1 * a = a
      OBVIOUS
    <3> HIDE DEF f, ev, od
    <3> QED BY <1>8, <2>3, <2>4, <3>1
  <2>7. Same(u, z, MODULUS)
    BY <1>3, <2>4, <2>5, <2>6, SameChain
  <2> QED BY <2>4, <2>7
<1> HIDE DEF f, g, ev, od
<1>14. Same(PolyEval(cs, p), a + p * b, MODULUS) /\ Same(PolyEval(cs, q), a - p * b, MODULUS)
       /\ Same(PolyEval(FoldedPoly(cs, beta), w), a + beta * b, MODULUS)
  BY <1>10, <1>11, <1>12, <1>13 DEF f
<1> QED BY <1>14

-----------------------------------------------------------------------------
(* The folding of two opposite values.                                      *)

(* Twice the point times the fold.                                          *)
LEMMA FoldValueIs ==
  ASSUME NEW a \in Felts, NEW b \in Felts, NEW p \in Felts, p # 0, NEW beta \in Felts
  PROVE  /\ FoldValue(a, b, p, beta) \in Felts
         /\ Same((2 * p) * FoldValue(a, b, p, beta), p * (a + b) + beta * (a - b), MODULUS)
<1>1. a \in Int /\ b \in Int /\ p \in Int /\ beta \in Int /\ MODULUS \in Nat
      /\ Same(a, a, MODULUS) /\ Same(b, b, MODULUS) /\ Same(p, p, MODULUS)
      /\ Same(beta, beta, MODULUS)
  BY FeltSelf, FeltFacts
<1>2. PICK inv \in Felts : inv = FeltInv[p] /\ inv \in Int /\ Same(p * inv, 1, MODULUS)
                           /\ Same(inv, inv, MODULUS)
  BY FeltInvIs, FeltSelf
<1>3. PICK h \in Felts : h = INV2 /\ h \in Int /\ Same(h, h, MODULUS) /\ Same(2 * h, 1, MODULUS)
  <2>1. INV2 \in Felts /\ MODULUS > 2
    BY RootAssumption, FeltAssumption DEF Felts
  <2>2. PICK c \in Int : c = 2 * INV2 /\ c % MODULUS = 1
    BY <2>1, FeltFacts, RootAssumption
  <2>3. Same(c % MODULUS, c, MODULUS)
    BY <2>2, FeltOfResidue
  <2>4. Same(c, 1, MODULUS)
    BY <1>1, <2>2, <2>3, SameChain
  <2> QED BY <2>1, <2>2, <2>4, FeltSelf
<1>4. PICK su \in Int, di \in Int, e0 \in Int, e1 \in Int, v0 \in Int, v1 \in Int :
         /\ su = a + b /\ di = a - b /\ e0 = beta * di /\ e1 = e0 * inv
         /\ v0 = su + e1 /\ v1 = v0 * h
  BY <1>1, <1>2, <1>3
<1>5. PICK s \in Felts, d \in Felts : /\ s = FeltAdd(a, b) /\ d = FeltSub(a, b)
                                      /\ Same(s, su, MODULUS) /\ Same(d, di, MODULUS)
  BY <1>1, <1>4, FeltAddOf, FeltSubOf
<1>6. PICK f \in Felts : f = FeltMul(beta, d) /\ Same(f, e0, MODULUS)
  BY <1>1, <1>4, <1>5, FeltMulOf
<1>7. PICK g \in Felts : g = FeltMul(f, inv) /\ Same(g, e1, MODULUS)
  BY <1>2, <1>4, <1>6, FeltMulOf
<1>8. PICK r0 \in Felts : r0 = FeltAdd(s, g) /\ Same(r0, v0, MODULUS)
  BY <1>4, <1>5, <1>7, FeltAddOf
<1>9. PICK r \in Felts : r = FeltMul(r0, h) /\ Same(r, v1, MODULUS) /\ r \in Int
  BY <1>3, <1>4, <1>8, FeltMulOf, FeltFacts
<1>10. FoldValue(a, b, p, beta) = r
  BY <1>2, <1>3, <1>5, <1>6, <1>7, <1>8, <1>9 DEF FoldValue
<1>11. PICK pr \in Int, pv \in Int, tp \in Int : tp = 2 * p /\ pr = tp * r /\ pv = tp * v1
  BY <1>1, <1>4, <1>9
<1>12. Same(pr, pv, MODULUS)
  BY <1>1, <1>9, <1>11, SameTimes
<1>13. PICK th \in Int, pin \in Int, ps \in Int, both \in Int :
          th = 2 * h /\ pin = p * inv /\ ps = p * su /\ both = th * pin
  BY <1>1, <1>2, <1>3, <1>4
<1>14. pv = th * ps + both * e0
  <2>1. (2 * p) * ((su + e0 * inv) * h) = (2 * h) * (p * su) + ((2 * h) * (p * inv)) * e0
    BY <1>1, <1>2, <1>3, <1>4, Z3
  <2>2. pv = (2 * p) * ((su + e0 * inv) * h)
    BY <1>4, <1>11
  <2>3. (2 * h) * (p * su) + ((2 * h) * (p * inv)) * e0 = th * ps + both * e0
    BY <1>13
  <2> QED BY <2>1, <2>2, <2>3
<1>15. Same(th * ps, 1 * ps, MODULUS)
  <2>1. Same(th, 1, MODULUS) /\ 1 \in Int
    BY <1>3, <1>13
  <2> QED BY <1>1, <2>1, SameTimes
<1>16. Same(both * e0, 1 * e0, MODULUS)
  <2>1. Same(th, 1, MODULUS) /\ Same(pin, 1, MODULUS) /\ 1 \in Int
    BY <1>2, <1>3, <1>13
  <2>2. Same(th * pin, 1 * 1, MODULUS)
    BY <1>1, <2>1, SameProduct
  <2>3. Same(both, 1, MODULUS)
    BY <1>13, <2>2
  <2> QED BY <1>1, <2>1, <2>3, SameTimes
<1>17. PICK u1 \in Int, u2 \in Int : u1 = th * ps /\ u2 = both * e0
                                     /\ Same(u1, ps, MODULUS) /\ Same(u2, e0, MODULUS)
  <2>1. 1 * ps = ps /\ 1 * e0 = e0
    OBVIOUS
  <2> QED BY <1>15, <1>16, <2>1
<1>18. PICK w \in Int, pe \in Int : w = u1 + u2 /\ pe = ps + e0 /\ Same(w, pe, MODULUS)
  <2>1. Same(u1 + u2, ps + e0, MODULUS)
    BY <1>1, <1>17, SameSum
  <2> QED BY <2>1
<1>19. pv = w
  BY <1>14, <1>17, <1>18
<1>20. Same(pr, pe, MODULUS)
  BY <1>1, <1>12, <1>18, <1>19, SameChain
<1>21. pe = p * (a + b) + beta * (a - b) /\ pr = (2 * p) * r
  BY <1>4, <1>11, <1>13, <1>18
<1> QED BY <1>9, <1>10, <1>20, <1>21

(* Which determines it.                                                     *)
LEMMA FoldIsUnique ==
  ASSUME NEW p \in Felts, p # 0, NEW r \in Felts, NEW s \in Felts,
         Same((2 * p) * r, (2 * p) * s, MODULUS)
  PROVE  r = s
<1>1. p \in Int /\ r \in Int /\ s \in Int /\ MODULUS \in Nat
  BY FeltFacts
<1>2. PICK pr \in Int, ps \in Int : pr = p * r /\ ps = p * s
  BY <1>1
<1>3. (2 * p) * r = 2 * pr /\ (2 * p) * s = 2 * ps
  <2>1. (2 * p) * r = 2 * (p * r) /\ (2 * p) * s = 2 * (p * s)
    BY <1>1, Z3
  <2> QED BY <1>2, <2>1
<1>4. 2 \in Felts /\ 2 # 0
  BY FeltAssumption DEF Felts
<1>5. Same(2 * pr, 2 * ps, MODULUS)
  BY <1>3
<1>6. Same(pr, ps, MODULUS)
  BY <1>4, <1>5, FeltCancel
<1>7. Same(p * r, p * s, MODULUS)
  BY <1>2, <1>6
<1>8. Same(r, s, MODULUS)
  BY <1>1, <1>7, FeltCancel
<1> QED BY <1>8, FeltIs

(* The values of a polynomial fold into that of the folded one.             *)
LEMMA FoldOfTrue ==
  ASSUME NEW cs \in Seq(Felts), NEW beta \in Felts, NEW p \in Felts, p # 0, NEW q \in Felts,
         NEW w \in Felts, Same(q, 0 - p, MODULUS), Same(w, p * p, MODULUS)
  PROVE  FoldValue(PolyEval(cs, p), PolyEval(cs, q), p, beta) = PolyEval(FoldedPoly(cs, beta), w)
<1>1. PICK a \in Int, b \in Int :
         /\ Same(PolyEval(cs, p), a + p * b, MODULUS)
         /\ Same(PolyEval(cs, q), a - p * b, MODULUS)
         /\ Same(PolyEval(FoldedPoly(cs, beta), w), a + beta * b, MODULUS)
  BY FoldedPolyIs
<1>2. PICK v0 \in Felts, v1 \in Felts, f \in Felts :
         v0 = PolyEval(cs, p) /\ v1 = PolyEval(cs, q) /\ f = PolyEval(FoldedPoly(cs, beta), w)
  <2>1. PICK h : h = (Len(cs) + 1) \div 2
    OBVIOUS
  <2>2. FoldedPoly(cs, beta) \in Seq(Felts)
    BY <2>1, FoldedPolyType
  <2> QED BY <2>2, PolyEvalIs
<1>3. PICK r \in Felts : /\ r = FoldValue(v0, v1, p, beta) /\ r \in Int /\ v0 \in Int /\ v1 \in Int
                         /\ Same((2 * p) * r, p * (v0 + v1) + beta * (v0 - v1), MODULUS)
  BY FoldValueIs, FeltFacts
<1>4. p \in Int /\ beta \in Int /\ f \in Int /\ MODULUS \in Nat
  BY FeltFacts
<1>5. PICK top \in Int, bottom \in Int, val \in Int :
         top = a + p * b /\ bottom = a - p * b /\ val = a + beta * b
         /\ Same(v0, top, MODULUS) /\ Same(v1, bottom, MODULUS) /\ Same(f, val, MODULUS)
  <2>1. a + p * b \in Int /\ a - p * b \in Int /\ a + beta * b \in Int
    BY <1>4
  <2> QED BY <1>1, <1>2, <2>1
<1>6. PICK i0 \in Int, i1 \in Int, j0 \in Int, j1 \in Int :
         i0 = v0 + v1 /\ i1 = v0 - v1 /\ j0 = top + bottom /\ j1 = top - bottom
         /\ Same(i0, j0, MODULUS) /\ Same(i1, j1, MODULUS)
  <2>1. Same(v0 + v1, top + bottom, MODULUS)
    BY <1>3, <1>4, <1>5, SameSum
  <2>2. Same(v0 - v1, top - bottom, MODULUS)
    <3>1. PICK k \in Int : v0 = top + MODULUS * k
      BY <1>5 DEF Same
    <3>2. PICK l \in Int : v1 = bottom + MODULUS * l
      BY <1>5 DEF Same
    <3>3. MODULUS * (k - l) = MODULUS * k - MODULUS * l
      BY <1>4, Z3
    <3>4. PICK mk \in Int, ml \in Int : mk = MODULUS * k /\ ml = MODULUS * l
      BY <1>4
    <3>5. v0 - v1 = (top - bottom) + MODULUS * (k - l) /\ k - l \in Int
      BY <3>1, <3>2, <3>3, <3>4
    <3> QED BY <3>5 DEF Same
  <2> QED BY <1>3, <2>1, <2>2
<1>7. PICK z0 \in Int, z1 \in Int : z0 = p * i0 + beta * i1 /\ z1 = p * j0 + beta * j1
                                    /\ Same(z0, z1, MODULUS)
  <2>1. Same(p * i0, p * j0, MODULUS) /\ Same(beta * i1, beta * j1, MODULUS)
    BY <1>4, <1>6, SameTimes
  <2>2. PICK a0 \in Int, a1 \in Int, b0 \in Int, b1 \in Int :
           a0 = p * i0 /\ a1 = p * j0 /\ b0 = beta * i1 /\ b1 = beta * j1
    BY <1>4
  <2>3. Same(a0 + b0, a1 + b1, MODULUS)
    BY <1>4, <2>1, <2>2, SameSum
  <2> QED BY <2>2, <2>3
<1>8. PICK tr \in Int, tf \in Int, tv \in Int, tp \in Int :
         tp = 2 * p /\ tr = tp * r /\ tf = tp * f /\ tv = tp * val
  BY <1>3, <1>4
<1>9. tv = z1
  <2>1. j0 = 2 * a /\ j1 = 2 * (p * b)
    <3>1. PICK pb \in Int : pb = p * b
      BY <1>4
    <3>2. top = a + pb /\ bottom = a - pb /\ j0 = top + bottom /\ j1 = top - bottom
      BY <1>5, <1>6, <3>1
    <3>3. j0 = 2 * a /\ j1 = 2 * pb
      BY <3>2
    <3> QED BY <3>1, <3>3
  <2>2. (2 * p) * (a + beta * b) = p * (2 * a) + beta * (2 * (p * b))
    BY <1>4, Z3
  <2>3. tv = (2 * p) * (a + beta * b)
    BY <1>5, <1>8
  <2>4. z1 = p * (2 * a) + beta * (2 * (p * b))
    BY <1>7, <2>1
  <2> QED BY <2>2, <2>3, <2>4
<1>10. Same(tf, tv, MODULUS)
  BY <1>4, <1>5, <1>8, SameTimes
<1>11. Same(tr, z0, MODULUS)
  BY <1>3, <1>6, <1>7, <1>8
<1>12. Same(tv, tf, MODULUS)
  BY <1>4, <1>10, SameChain
<1>13. Same(tr, tf, MODULUS)
  BY <1>4, <1>7, <1>9, <1>11, <1>12, SameChain
<1>14. r = f
  BY <1>8, <1>13, FoldIsUnique
<1> QED BY <1>2, <1>3, <1>14

(* A verifier who folds from the opposite point meets the same value.       *)
LEMMA FoldFromOpposite ==
  ASSUME NEW a \in Felts, NEW b \in Felts, NEW p \in Felts, p # 0, NEW beta \in Felts,
         NEW q \in Felts, q # 0, Same(q, 0 - p, MODULUS)
  PROVE  FoldValue(b, a, q, beta) = FoldValue(a, b, p, beta)
<1>1. a \in Int /\ b \in Int /\ p \in Int /\ beta \in Int /\ q \in Int /\ MODULUS \in Nat
  BY FeltFacts
<1>2. PICK r \in Felts : /\ r = FoldValue(a, b, p, beta) /\ r \in Int
                         /\ Same((2 * p) * r, p * (a + b) + beta * (a - b), MODULUS)
  BY FoldValueIs, FeltFacts
<1>3. PICK s \in Felts : /\ s = FoldValue(b, a, q, beta) /\ s \in Int
                         /\ Same((2 * q) * s, q * (b + a) + beta * (b - a), MODULUS)
  BY FoldValueIs, FeltFacts
<1>4. PICK k \in Int : q = 0 - p + MODULUS * k
  BY DEF Same
<1>5. PICK l \in Int : (2 * p) * r = p * (a + b) + beta * (a - b) + MODULUS * l
  BY <1>2 DEF Same
<1>6. PICK n \in Int : (2 * q) * s = q * (b + a) + beta * (b - a) + MODULUS * n
  BY <1>3 DEF Same
<1>7. PICK mk \in Int, ml \in Int, mn \in Int : mk = MODULUS * k /\ ml = MODULUS * l /\ mn = MODULUS * n
  BY <1>1
<1>8. (2 * p) * s = (2 * p) * r + (mk * (2 * s - (a + b)) - mn - ml)
  <2>1. q = mk - p /\ (2 * p) * r = p * (a + b) + beta * (a - b) + ml
        /\ (2 * q) * s = q * (b + a) + beta * (b - a) + mn
    BY <1>1, <1>4, <1>5, <1>6, <1>7
  <2>2. (2 * (mk - p)) * s = (mk - p) * (b + a) + beta * (b - a) + mn
    BY <2>1
  <2>3. (2 * (mk - p)) * s = (2 * mk) * s - (2 * p) * s
    BY <1>1, <1>3, Z3
  <2>4. (mk - p) * (b + a) = mk * (a + b) - p * (a + b)
    BY <1>1, Z3
  <2>5. beta * (b - a) = 0 - beta * (a - b)
    BY <1>1, Z3
  <2>6. mk * (2 * s - (a + b)) = (2 * mk) * s - mk * (a + b)
    BY <1>1, <1>3, Z3
  <2>7. PICK c1 \in Int, c2 \in Int, c3 \in Int, c4 \in Int, c5 \in Int, c6 \in Int :
           /\ c1 = (2 * mk) * s /\ c2 = (2 * p) * s /\ c3 = mk * (a + b) /\ c4 = p * (a + b)
           /\ c5 = beta * (a - b) /\ c6 = (2 * p) * r
    BY <1>1, <1>2, <1>3
  <2> QED BY <2>1, <2>2, <2>3, <2>4, <2>5, <2>6, <2>7
<1>9. mk * (2 * s - (a + b)) - mn - ml = MODULUS * (k * (2 * s - (a + b)) - n - l)
  <2>1. PICK c \in Int : c = 2 * s - (a + b)
    BY <1>1, <1>3
  <2>2. (MODULUS * k) * c - MODULUS * n - MODULUS * l = MODULUS * (k * c - n - l)
    BY <1>1, Z3
  <2> QED BY <1>7, <2>1, <2>2
<1>10. k * (2 * s - (a + b)) - n - l \in Int
  BY <1>1, <1>3
<1>11. Same((2 * p) * s, (2 * p) * r, MODULUS)
  BY <1>8, <1>9, <1>10 DEF Same
<1> QED BY <1>2, <1>3, <1>11, FoldIsUnique

(* A wrong value spoils the fold, unless the challenge is minus its point.  *)
LEMMA FoldOfWrong ==
  ASSUME NEW a \in Felts, NEW b \in Felts, NEW c \in Felts, NEW p \in Felts, p # 0,
         NEW beta \in Felts, c # a
  PROVE  FoldValue(c, b, p, beta) = FoldValue(a, b, p, beta) <=> FeltAdd(beta, p) = 0
<1>1. a \in Int /\ b \in Int /\ c \in Int /\ p \in Int /\ beta \in Int /\ MODULUS \in Nat
  BY FeltFacts
<1>2. PICK r \in Felts, v \in Int, pr \in Int :
         /\ r = FoldValue(a, b, p, beta) /\ v = p * (a + b) + beta * (a - b)
         /\ pr = (2 * p) * r /\ Same(pr, v, MODULUS)
  <2>1. FoldValue(a, b, p, beta) \in Felts
        /\ Same((2 * p) * FoldValue(a, b, p, beta), p * (a + b) + beta * (a - b), MODULUS)
    BY FoldValueIs
  <2>2. PICK r \in Felts : r = FoldValue(a, b, p, beta) /\ r \in Int
    BY <2>1, FeltFacts
  <2>3. (2 * p) * r \in Int /\ p * (a + b) + beta * (a - b) \in Int
    BY <1>1, <2>2
  <2> QED BY <2>1, <2>2, <2>3
<1>3. PICK s \in Felts, w \in Int, ps \in Int :
         /\ s = FoldValue(c, b, p, beta) /\ w = p * (c + b) + beta * (c - b)
         /\ ps = (2 * p) * s /\ Same(ps, w, MODULUS)
  <2>1. FoldValue(c, b, p, beta) \in Felts
        /\ Same((2 * p) * FoldValue(c, b, p, beta), p * (c + b) + beta * (c - b), MODULUS)
    BY FoldValueIs
  <2>2. PICK s \in Felts : s = FoldValue(c, b, p, beta) /\ s \in Int
    BY <2>1, FeltFacts
  <2>3. (2 * p) * s \in Int /\ p * (c + b) + beta * (c - b) \in Int
    BY <1>1, <2>2
  <2> QED BY <2>1, <2>2, <2>3
<1>4. PICK f \in Felts, sum \in Int : /\ f = FeltAdd(beta, p) /\ sum = beta + p /\ f \in Int
                                      /\ Same(f, sum, MODULUS)
  <2>1. beta + p \in Int /\ Same(beta, beta, MODULUS) /\ Same(p, p, MODULUS)
    BY <1>1, FeltSelf
  <2>2. FeltAdd(beta, p) \in Felts /\ Same(FeltAdd(beta, p), beta + p, MODULUS)
    BY <1>1, <2>1, FeltAddOf
  <2> QED BY <2>1, <2>2, FeltFacts
<1>5. PICK off \in Int, fo \in Int, so \in Int : off = c - a /\ fo = f * off /\ so = sum * off
  BY <1>1, <1>4
<1>6. Same(fo, so, MODULUS)
  BY <1>1, <1>4, <1>5, SameTimes
<1>7. w = v + so
  <2>1. p * (c + b) + beta * (c - b) = (p * (a + b) + beta * (a - b)) + (beta + p) * (c - a)
    BY <1>1, Z3
  <2> QED BY <1>2, <1>3, <1>4, <1>5, <2>1
<1>8. w - v = so
  BY <1>7
<1>9. ASSUME s = r PROVE f = 0
  <2> SUFFICES ASSUME f # 0 PROVE FALSE
    OBVIOUS
  <2>1. ps = pr
    BY <1>2, <1>3, <1>9
  <2>2. Same(w, pr, MODULUS)
    BY <1>1, <1>3, <2>1, SameChain
  <2>3. Same(w, v, MODULUS)
    BY <1>1, <1>2, <2>2, SameChain
  <2>4. Same(so, 0, MODULUS)
    BY <1>1, <1>8, <2>3, SameDifference
  <2>5. Same(fo, 0, MODULUS)
    <3>1. 0 \in Int
      OBVIOUS
    <3> QED BY <1>1, <1>6, <2>4, <3>1, SameChain
  <2>6. Same(off, 0, MODULUS)
    BY <1>5, <2>5, FeltNoZeroProduct
  <2>7. Same(c, a, MODULUS)
    BY <1>1, <1>5, <2>6, SameDifference
  <2> QED BY <2>7, FeltIs
<1>10. ASSUME f = 0 PROVE s = r
  <2>1. fo = 0 /\ 0 \in Int
    BY <1>5, <1>10
  <2>2. Same(so, 0, MODULUS)
    BY <1>1, <1>6, <2>1, SameChain
  <2>3. Same(w, v, MODULUS)
    BY <1>1, <1>8, <2>2, SameDifference
  <2>4. Same(ps, v, MODULUS)
    BY <1>1, <1>3, <2>3, SameChain
  <2>5. Same(v, pr, MODULUS)
    BY <1>1, <1>2, SameChain
  <2>6. Same(ps, pr, MODULUS)
    BY <1>1, <2>4, <2>5, SameChain
  <2>7. Same((2 * p) * s, (2 * p) * r, MODULUS)
    BY <1>2, <1>3, <2>6
  <2> QED BY <2>7, FoldIsUnique
<1> QED BY <1>2, <1>3, <1>4, <1>9, <1>10

-----------------------------------------------------------------------------
(* Layers.                                                                  *)

(* The point of a place, its opposite and its square.                       *)
LEMMA PlaceFacts ==
  ASSUME NEW l \in 1..FRI_MAX_LOG, NEW half, half = OneShl[l - 1], NEW m \in 0..(half - 1)
  PROVE  /\ half \in Nat /\ half > 0 /\ OneShl[l] = 2 * half
         /\ m \in 0..(OneShl[l] - 1) /\ m + half \in 0..(OneShl[l] - 1)
         /\ DomainPoint(l, m) \in Felts /\ DomainPoint(l, m) # 0
         /\ DomainPoint(l, m + half) \in Felts /\ DomainPoint(l, m + half) # 0
         /\ DomainPoint(l, m + half) = FeltNeg(DomainPoint(l, m))
         /\ Same(DomainPoint(l, m + half), 0 - DomainPoint(l, m), MODULUS)
         /\ DomainPoint(l - 1, m) \in Felts
         /\ DomainPoint(l - 1, m) = FeltPow(DomainPoint(l, m), 2)
         /\ Same(DomainPoint(l - 1, m), DomainPoint(l, m) * DomainPoint(l, m), MODULUS)
<1>1. l \in 0..FRI_MAX_LOG /\ l - 1 \in 0..FRI_MAX_LOG
  BY OneShlFacts
<1>2. half \in Nat /\ half > 0 /\ OneShl[l] = 2 * half
  BY <1>1, OneShlFacts
<1>3. m \in Nat /\ m + half \in Nat /\ m \in 0..(OneShl[l] - 1) /\ m + half \in 0..(OneShl[l] - 1)
  BY <1>2
<1>4. PICK s : s = OneShl[FRI_MAX_LOG - l]
  OBVIOUS
<1>5. PICK p, q : p = DomainPoint(l, m) /\ q = DomainPoint(l, m + half)
  OBVIOUS
<1>6. p \in Felts /\ p # 0
  BY <1>1, <1>3, <1>4, <1>5, DomainPointIs
<1>7. q \in Felts /\ q # 0
  BY <1>1, <1>3, <1>4, <1>5, DomainPointIs
<1>8. q = FeltNeg(p)
  BY <1>3, <1>5, OppositePoint
<1>9. Same(q, 0 - p, MODULUS)
  BY <1>6, <1>8, FeltNegIs
<1>10. /\ DomainPoint(l - 1, m) \in Felts /\ DomainPoint(l - 1, m) = FeltPow(p, 2)
       /\ Same(DomainPoint(l - 1, m), p * p, MODULUS)
  BY <1>3, <1>5, SquaredPoint
<1> QED BY <1>2, <1>3, <1>5, <1>6, <1>7, <1>8, <1>9, <1>10

(* A layer of elements, with the places where it is not the polynomial.     *)
LayerHolds(src, f, l, w) ==
    /\ src \in [0..(OneShl[l] - 1) -> Felts]
    /\ w = -1 \/ w \in 0..(OneShl[l] - 1)
    /\ \A m \in 0..(OneShl[l] - 1) : src[m] # PolyEval(f, DomainPoint(l, m)) <=> m = w

(* A place of the folded layer is wrong where one of its two was, but for   *)
(* the challenge that hides it.                                             *)
LEMMA FoldedPlace ==
  ASSUME NEW l \in 1..FRI_MAX_LOG, NEW f \in Seq(Felts), NEW src, NEW w,
         LayerHolds(src, f, l, w), NEW beta \in Felts,
         NEW half, half = OneShl[l - 1], NEW m \in 0..(half - 1)
  PROVE  /\ FoldValue(src[m], src[m + half], DomainPoint(l, m), beta) \in Felts
         /\ FoldValue(src[m + half], src[m], DomainPoint(l, m + half), beta)
              = FoldValue(src[m], src[m + half], DomainPoint(l, m), beta)
         /\ FoldValue(src[m], src[m + half], DomainPoint(l, m), beta)
              # PolyEval(FoldedPoly(f, beta), DomainPoint(l - 1, m))
            <=> (w = m \/ w = m + half) /\ FeltAdd(beta, DomainPoint(l, w)) # 0
<1>1. PICK n : n = OneShl[l]
  OBVIOUS
<1>2. PICK p \in Felts, q \in Felts, d \in Felts :
         /\ p = DomainPoint(l, m) /\ q = DomainPoint(l, m + half) /\ d = DomainPoint(l - 1, m)
         /\ p # 0 /\ q # 0 /\ Same(q, 0 - p, MODULUS) /\ Same(d, p * p, MODULUS)
  BY PlaceFacts
<1>3. half \in Nat /\ half > 0 /\ m \in 0..(n - 1) /\ m + half \in 0..(n - 1) /\ m # m + half
  BY <1>1, PlaceFacts
<1>4. /\ src \in [0..(n - 1) -> Felts]
      /\ \A e \in 0..(n - 1) : src[e] # PolyEval(f, DomainPoint(l, e)) <=> e = w
  BY <1>1 DEF LayerHolds
<1>5. PICK a \in Felts, b \in Felts : a = src[m] /\ b = src[m + half]
  BY <1>3, <1>4
<1>6. PICK u \in Felts, v \in Felts : u = PolyEval(f, p) /\ v = PolyEval(f, q)
  BY PolyEvalIs
<1>7. (a # u <=> m = w) /\ (b # v <=> m + half = w)
  BY <1>2, <1>3, <1>4, <1>5, <1>6
<1>8. FoldValue(u, v, p, beta) = PolyEval(FoldedPoly(f, beta), d)
  BY <1>2, <1>6, FoldOfTrue
<1>9. FoldValue(a, b, p, beta) \in Felts
  BY <1>2, FoldValueIs
<1>10. FoldValue(b, a, q, beta) = FoldValue(a, b, p, beta)
  BY <1>2, FoldFromOpposite
<1>11. CASE w # m /\ w # m + half
  <2>1. a = u /\ b = v
    BY <1>7, <1>11
  <2>2. FoldValue(a, b, p, beta) = PolyEval(FoldedPoly(f, beta), d)
    BY <1>8, <2>1
  <2> QED BY <1>2, <1>5, <1>9, <1>10, <1>11, <2>2
<1>12. CASE w = m
  <2>1. a # u /\ b = v
    BY <1>3, <1>7, <1>12
  <2>2. FoldValue(a, b, p, beta) = FoldValue(u, b, p, beta) <=> FeltAdd(beta, p) = 0
    BY <1>2, <2>1, FoldOfWrong
  <2>3. FoldValue(a, b, p, beta) # PolyEval(FoldedPoly(f, beta), d) <=> FeltAdd(beta, p) # 0
    BY <1>8, <2>1, <2>2
  <2> QED BY <1>2, <1>5, <1>9, <1>10, <1>12, <2>3
<1>13. CASE w = m + half
  <2>1. a = u /\ b # v
    BY <1>3, <1>7, <1>13
  <2>2. FoldValue(b, a, q, beta) = FoldValue(v, a, q, beta) <=> FeltAdd(beta, q) = 0
    BY <1>2, <2>1, FoldOfWrong
  <2>3. FoldValue(v, u, q, beta) = FoldValue(u, v, p, beta)
    BY <1>2, FoldFromOpposite
  <2>4. FoldValue(a, b, p, beta) # PolyEval(FoldedPoly(f, beta), d) <=> FeltAdd(beta, q) # 0
    BY <1>8, <1>10, <2>1, <2>2, <2>3
  <2> QED BY <1>2, <1>5, <1>9, <1>10, <1>13, <2>4
<1> QED BY <1>11, <1>12, <1>13

(* A whole layer.                                                           *)
LEMMA LayerFolds ==
  ASSUME NEW l \in 1..FRI_MAX_LOG, NEW f \in Seq(Felts), NEW src, NEW w,
         LayerHolds(src, f, l, w), NEW beta \in Felts, NEW w1,
         w1 = IF w = -1 \/ FeltAdd(beta, DomainPoint(l, w)) = 0 THEN -1 ELSE w % OneShl[l - 1]
  PROVE  LayerHolds(FoldLayer(src, beta, l), FoldedPoly(f, beta), l - 1, w1)
<1>1. PICK half \in Nat, n \in Nat : half = OneShl[l - 1] /\ half > 0 /\ n = OneShl[l] /\ n = 2 * half
  <2>1. l - 1 \in 0..FRI_MAX_LOG
    BY OneShlFacts
  <2> QED BY <2>1, OneShlFacts
<1>2. w = -1 \/ w \in 0..(n - 1)
  BY <1>1 DEF LayerHolds
<1> DEFINE r(m) == FoldValue(src[m], src[m + half], DomainPoint(l, m), beta)
           g == [m \in 0..(half - 1) |-> r(m)]
<1>3. FoldLayer(src, beta, l) = g
  BY <1>1 DEF FoldLayer
<1>4. ASSUME NEW m \in 0..(half - 1)
      PROVE  /\ r(m) \in Felts
             /\ r(m) # PolyEval(FoldedPoly(f, beta), DomainPoint(l - 1, m)) <=>
                  (w = m \/ w = m + half) /\ FeltAdd(beta, DomainPoint(l, w)) # 0
  BY <1>1, FoldedPlace
<1>5. g \in [0..(half - 1) -> Felts]
  <2> HIDE DEF r
  <2> QED BY <1>4
<1>6. ASSUME NEW v \in 0..(n - 1)
      PROVE  /\ v % half \in 0..(half - 1)
             /\ \A m \in 0..(half - 1) : v = m \/ v = m + half <=> m = v % half
  <2>1. v \in Int /\ half \in Nat /\ half > 0
    BY <1>1
  <2>2. CASE v < half
    <3>1. PICK s \in 0..(half - 1) : s = v /\ v = half * 0 + s
      BY <2>1, <2>2
    <3>2. 0 \in Int
      OBVIOUS
    <3>3. v % half = s
      BY <2>1, <3>1, <3>2, DivModIs
    <3>4. \A m \in 0..(half - 1) : v = m \/ v = m + half <=> m = s
      BY <2>1, <2>2, <3>1
    <3> QED BY <3>3, <3>4
  <2>3. CASE ~(v < half)
    <3>1. PICK s \in 0..(half - 1) : s = v - half /\ v = half * 1 + s
      <4>1. v < half + half
        BY <1>1
      <4>2. v - half \in 0..(half - 1) /\ half * 1 + (v - half) = v
        BY <2>1, <2>3, <4>1
      <4> QED BY <4>2
    <3>2. 1 \in Int
      OBVIOUS
    <3>3. v % half = s
      BY <2>1, <3>1, <3>2, DivModIs
    <3>4. \A m \in 0..(half - 1) : v = m \/ v = m + half <=> m = s
      BY <2>1, <2>3, <3>1
    <3> QED BY <3>3, <3>4
  <2> QED BY <2>2, <2>3
<1>7. w1 = -1 \/ w1 \in 0..(half - 1)
  BY <1>1, <1>2, <1>6
<1>8. ASSUME NEW m \in 0..(half - 1)
      PROVE  (w = m \/ w = m + half) /\ FeltAdd(beta, DomainPoint(l, w)) # 0 <=> m = w1
  <2>1. CASE w = -1
    <3>1. w1 = -1 /\ m # -1 /\ m + half # -1
      BY <1>1, <2>1
    <3> QED BY <2>1, <3>1
  <2>2. CASE w \in 0..(n - 1) /\ FeltAdd(beta, DomainPoint(l, w)) = 0
    <3>1. w1 = -1 /\ m # -1
      BY <1>1, <2>2
    <3> QED BY <2>2, <3>1
  <2>3. CASE w \in 0..(n - 1) /\ FeltAdd(beta, DomainPoint(l, w)) # 0
    <3>1. w # -1 /\ w1 = w % half
      BY <1>1, <2>3
    <3>2. w = m \/ w = m + half <=> m = w % half
      BY <1>6, <2>3
    <3> QED BY <2>3, <3>1, <3>2
  <2> QED BY <1>2, <2>1, <2>2, <2>3
<1>9. ASSUME NEW m \in 0..(half - 1)
      PROVE  g[m] # PolyEval(FoldedPoly(f, beta), DomainPoint(l - 1, m)) <=> m = w1
  <2>1. g[m] = r(m)
    OBVIOUS
  <2> HIDE DEF r, g
  <2> QED BY <1>4, <1>8, <2>1
<1> HIDE DEF r, g
<1> QED BY <1>1, <1>3, <1>5, <1>7, <1>9 DEF LayerHolds

(* The values of a polynomial on a domain, with one of them altered or none.*)
LEMMA LayerStarts ==
  ASSUME NEW l \in 0..FRI_MAX_LOG, NEW f \in Seq(Felts)
  PROVE  /\ LayerHolds(LayerOf(f, l), f, l, -1)
         /\ \A m \in 0..(OneShl[l] - 1) : \A e \in 1..(MODULUS - 1) :
              LayerHolds([LayerOf(f, l) EXCEPT ![m] = FeltAdd(@, e)], f, l, m)
<1>1. PICK n \in Nat, s \in Nat : n = OneShl[l] /\ s = OneShl[FRI_MAX_LOG - l]
  BY OneShlFacts
<1> DEFINE p(m) == PolyEval(f, DomainPoint(l, m))
           g == [m \in 0..(n - 1) |-> p(m)]
<1>2. LayerOf(f, l) = g
  BY <1>1 DEF LayerOf
<1>3. ASSUME NEW m \in 0..(n - 1) PROVE p(m) \in Felts
  <2>1. m \in Nat
    BY <1>1
  <2>2. DomainPoint(l, m) \in Felts
    BY <1>1, <2>1, DomainPointIs
  <2> QED BY <2>2, PolyEvalIs
<1>4. g \in [0..(n - 1) -> Felts] /\ \A m \in 0..(n - 1) : g[m] = p(m) /\ g[m] \in Felts
  <2> HIDE DEF p
  <2> QED BY <1>3
<1>5. LayerHolds(g, f, l, -1)
  <2>1. \A m \in 0..(n - 1) : m # -1
    OBVIOUS
  <2>2. \A m \in 0..(n - 1) : g[m] # PolyEval(f, DomainPoint(l, m)) <=> m = -1
    BY <1>4, <2>1
  <2> HIDE DEF g, p
  <2> QED BY <1>1, <1>4, <2>2 DEF LayerHolds
<1>6. ASSUME NEW m \in 0..(n - 1), NEW e \in 1..(MODULUS - 1)
      PROVE  LayerHolds([g EXCEPT ![m] = FeltAdd(@, e)], f, l, m)
  <2>1. PICK a \in Felts : a = g[m] /\ a \in Int /\ Same(a, a, MODULUS)
    BY <1>4, FeltSelf
  <2>2. e \in Felts /\ e \in Int /\ MODULUS \in Nat /\ e # 0
    BY FeltFacts DEF Felts
  <2>3. PICK b \in Felts : b = FeltAdd(a, e) /\ b \in Int /\ Same(b, a + e, MODULUS)
    BY <2>1, <2>2, FeltSelf, FeltAddOf
  <2>4. b # a
    <3> SUFFICES ASSUME b = a PROVE FALSE
      OBVIOUS
    <3>1. PICK c \in Int : c = a + e /\ c - a = e
      BY <2>1, <2>2
    <3>2. Same(c, a, MODULUS)
      <4>1. Same(a, c, MODULUS)
        BY <2>3, <3>1
      <4> QED BY <2>1, <2>2, <4>1, SameChain
    <3>3. Same(e, 0, MODULUS)
      BY <2>1, <2>2, <3>1, <3>2, SameDifference
    <3> QED BY <2>2, <3>3, FeltFacts, FeltIs
  <2>5. PICK h : h = [g EXCEPT ![m] = FeltAdd(@, e)]
    OBVIOUS
  <2>6. h \in [0..(n - 1) -> Felts] /\ \A j \in 0..(n - 1) : h[j] = IF j = m THEN b ELSE g[j]
    <3> HIDE DEF g
    <3> QED BY <1>4, <2>1, <2>3, <2>5
  <2>7. \A j \in 0..(n - 1) : h[j] # PolyEval(f, DomainPoint(l, j)) <=> j = m
    <3>1. \A j \in 0..(n - 1) : g[j] = PolyEval(f, DomainPoint(l, j))
      BY <1>4
    <3> HIDE DEF g, p
    <3> QED BY <2>1, <2>4, <2>6, <3>1
  <2> HIDE DEF g, p
  <2> QED BY <1>1, <2>5, <2>6, <2>7 DEF LayerHolds
<1> HIDE DEF g, p
<1> QED BY <1>1, <1>2, <1>5, <1>6

(* What is promised of a layer.                                             *)
LEMMA LayerKeepsPromise ==
  ASSUME NEW l \in 0..FRI_MAX_LOG, NEW f \in Seq(Felts), NEW src, NEW w,
         LayerHolds(src, f, l, w)
  PROVE  /\ DOMAIN src = DOMAIN LayerOf(f, l)
         /\ {m \in DOMAIN LayerOf(f, l) : src[m] # LayerOf(f, l)[m]} = {w} \ {-1}
         /\ l > 0 =>
              \A m \in 0..(OneShl[l - 1] - 1) :
                /\ DomainPoint(l, m + OneShl[l - 1]) = FeltNeg(DomainPoint(l, m))
                /\ DomainPoint(l - 1, m) = FeltPow(DomainPoint(l, m), 2)
                /\ \A beta \in Felts :
                     FoldValue(src[m + OneShl[l - 1]], src[m], DomainPoint(l, m + OneShl[l - 1]), beta)
                       = FoldLayer(src, beta, l)[m]
<1>1. PICK n \in Nat : n = OneShl[l]
  BY OneShlFacts
<1>2. /\ src \in [0..(n - 1) -> Felts] /\ (w = -1 \/ w \in 0..(n - 1))
      /\ \A m \in 0..(n - 1) : src[m] # PolyEval(f, DomainPoint(l, m)) <=> m = w
  BY <1>1 DEF LayerHolds
<1>3. PICK g : g = LayerOf(f, l)
  OBVIOUS
<1>4. DOMAIN g = 0..(n - 1) /\ \A m \in 0..(n - 1) : g[m] = PolyEval(f, DomainPoint(l, m))
  BY <1>1, <1>3 DEF LayerOf
<1>5. DOMAIN src = DOMAIN g
  BY <1>2, <1>4
<1>6. {m \in DOMAIN g : src[m] # g[m]} = {w} \ {-1}
  <2>1. \A m : m \in {w} \ {-1} <=> m = w /\ w \in 0..(n - 1)
    BY <1>1, <1>2
  <2>2. \A m \in 0..(n - 1) : src[m] # g[m] <=> m = w
    BY <1>2, <1>4
  <2> QED BY <1>4, <2>1, <2>2
<1>7. ASSUME l > 0, NEW half, half = OneShl[l - 1], NEW m \in 0..(half - 1)
      PROVE  /\ DomainPoint(l, m + half) = FeltNeg(DomainPoint(l, m))
             /\ DomainPoint(l - 1, m) = FeltPow(DomainPoint(l, m), 2)
             /\ \A beta \in Felts :
                  FoldValue(src[m + half], src[m], DomainPoint(l, m + half), beta)
                    = FoldLayer(src, beta, l)[m]
  <2>1. l \in 1..FRI_MAX_LOG
    BY <1>7
  <2>2. /\ DomainPoint(l, m + half) = FeltNeg(DomainPoint(l, m))
        /\ DomainPoint(l - 1, m) = FeltPow(DomainPoint(l, m), 2)
    BY <1>7, <2>1, PlaceFacts
  <2>3. ASSUME NEW beta \in Felts
        PROVE  FoldValue(src[m + half], src[m], DomainPoint(l, m + half), beta)
                 = FoldLayer(src, beta, l)[m]
    <3>1. FoldValue(src[m + half], src[m], DomainPoint(l, m + half), beta)
            = FoldValue(src[m], src[m + half], DomainPoint(l, m), beta)
      BY <1>7, <2>1, FoldedPlace
    <3>2. FoldLayer(src, beta, l)[m] = FoldValue(src[m], src[m + half], DomainPoint(l, m), beta)
      BY <1>7 DEF FoldLayer
    <3> QED BY <3>1, <3>2
  <2> QED BY <2>2, <2>3
<1> QED BY <1>3, <1>5, <1>6, <1>7

-----------------------------------------------------------------------------
(* Deep compositions.                                                       *)

(* s adds up the elements of h.                                             *)
AddsUp(s, h, n) == s[0] = 0 /\ \A k \in 1..n : s[k] = FeltAdd(s[k - 1], h[k])

(* There is such an s.                                                      *)
LEMMA AddsUpExists ==
  ASSUME NEW n \in Nat, NEW h \in [1..n -> Felts]
  PROVE  \E s : /\ s \in [0..n -> Felts]
                /\ s = [k \in 0..n |-> IF k = 0 THEN 0 ELSE FeltAdd(s[k - 1], h[k])]
<1> DEFINE Step(s, k) == IF k = 0 THEN 0 ELSE FeltAdd(s[k - 1], h[k])
           G == [k \in 1..n |-> [u \in Felts |-> FeltAdd(u, h[k])]]
<1>1. 0 \in Felts /\ \A a \in Felts, b \in Felts : FeltAdd(a, b) \in Felts
  BY FeltFacts, FeltSelf, FeltAddOf
<1>2. G \in [1..n -> [Felts -> Felts]]
  BY <1>1
<1>3. PICK f0 : Recurs(f0, Felts, 0, n, G)
  <2> HIDE DEF G
  <2> QED BY <1>1, <1>2, Recursion
<1>4. f0 \in [0..n -> Felts] /\ f0[0] = 0 /\ \A k \in 1..n : f0[k] = G[k][f0[k - 1]]
  <2> HIDE DEF G
  <2> QED BY <1>3 DEF Recurs
<1>5. ASSUME NEW k \in 0..n PROVE f0[k] = Step(f0, k)
  <2>1. k # 0 => k - 1 \in 0..n /\ k \in 1..n
    OBVIOUS
  <2>2. k # 0 => f0[k - 1] \in Felts /\ G[k] = [u \in Felts |-> FeltAdd(u, h[k])]
    BY <1>4, <2>1
  <2> QED BY <1>4, <2>1, <2>2
<1>6. f0 = [k \in 0..n |-> Step(f0, k)]
  <2> HIDE DEF Step, G
  <2>1. f0 = [k \in 0..n |-> f0[k]]
    BY <1>4
  <2> QED BY <1>5, <2>1
<1> QED BY <1>4, <1>6

(* It is made of elements, and there is but one.                            *)
LEMMA AddsUpIs ==
  ASSUME NEW n \in Nat, NEW h \in [1..n -> Felts], NEW s, AddsUp(s, h, n)
  PROVE  /\ \A k \in 0..n : s[k] \in Felts
         /\ \A r : AddsUp(r, h, n) => r[n] = s[n]
         /\ (\A k \in 1..n : h[k] = 0) => s[n] = 0
<1>1. s[0] = 0 /\ \A k \in 1..n : s[k] = FeltAdd(s[k - 1], h[k])
  BY DEF AddsUp
<1>2. 0 \in Felts /\ \A a \in Felts, b \in Felts : FeltAdd(a, b) \in Felts
  BY FeltFacts, FeltSelf, FeltAddOf
<1>3. ASSUME NEW r, AddsUp(r, h, n) PROVE r[n] = s[n]
  <2>1. r[0] = 0 /\ \A k \in 1..n : r[k] = FeltAdd(r[k - 1], h[k])
    BY <1>3 DEF AddsUp
  <2> DEFINE Q == {k \in Nat : k <= n => r[k] = s[k]}
  <2>2. 0 \in Q
    BY <1>1, <2>1
  <2>3. ASSUME NEW k \in Q PROVE k + 1 \in Q
    <3>1. CASE k + 1 <= n
      <4>1. k + 1 \in 1..n /\ (k + 1) - 1 = k /\ r[k] = s[k]
        BY <3>1
      <4>2. r[k + 1] = s[k + 1]
        BY <1>1, <2>1, <4>1
      <4> QED BY <4>1, <4>2
    <3> QED BY <3>1
  <2>4. Q = Nat
    <3>1. Q \in SUBSET Nat
      OBVIOUS
    <3> HIDE DEF Q
    <3> QED BY <2>2, <2>3, <3>1, Inductive
  <2> QED BY <2>4
<1> DEFINE E == {k \in Nat : k <= n => s[k] \in Felts}
<1>4. 0 \in E
  BY <1>1, <1>2
<1>5. ASSUME NEW k \in E PROVE k + 1 \in E
  <2>1. CASE k + 1 <= n
    <3>1. k + 1 \in 1..n /\ (k + 1) - 1 = k /\ s[k] \in Felts /\ h[k + 1] \in Felts
      BY <2>1
    <3>2. s[k + 1] = FeltAdd(s[k], h[k + 1])
      BY <1>1, <3>1
    <3>3. s[k + 1] \in Felts
      BY <1>2, <3>1, <3>2
    <3> QED BY <3>1, <3>3
  <2> QED BY <2>1
<1>6. E = Nat
  <2>1. E \in SUBSET Nat
    OBVIOUS
  <2> HIDE DEF E
  <2> QED BY <1>4, <1>5, <2>1, Inductive
<1>7. \A k \in 0..n : s[k] \in Felts
  BY <1>6
<1>8. ASSUME \A k \in 1..n : h[k] = 0 PROVE s[n] = 0
  <2> DEFINE Q == {k \in Nat : k <= n => s[k] = 0}
  <2>1. 0 \in Q
    BY <1>1
  <2>2. FeltAdd(0, 0) = 0
    <3>1. Same(0, 0, MODULUS) /\ 0 \in Int /\ 0 + 0 = 0
      BY <1>2, FeltSelf
    <3>2. FeltAdd(0, 0) \in Felts /\ Same(FeltAdd(0, 0), 0 + 0, MODULUS)
      BY <1>2, <3>1, FeltAddOf
    <3> QED BY <1>2, <3>1, <3>2, FeltIs
  <2>3. ASSUME NEW k \in Q PROVE k + 1 \in Q
    <3>1. CASE k + 1 <= n
      <4>1. k + 1 \in 1..n /\ (k + 1) - 1 = k /\ s[k] = 0 /\ h[k + 1] = 0
        BY <1>8, <3>1
      <4>2. s[k + 1] = 0
        BY <1>1, <2>2, <4>1
      <4> QED BY <4>1, <4>2
    <3> QED BY <3>1
  <2>4. Q = Nat
    <3>1. Q \in SUBSET Nat
      OBVIOUS
    <3> HIDE DEF Q
    <3> QED BY <2>1, <2>3, <3>1, Inductive
  <2> QED BY <2>4
<1> QED BY <1>3, <1>7, <1>8

(* The sum of the products of powers that add up to n.                      *)
LEMMA PowersBetweenIs ==
  ASSUME NEW n \in Nat, NEW w \in Felts, NEW z \in Felts
  PROVE  /\ PowersBetween(n, w, z) \in Felts
         /\ Same((w - z) * PowersBetween(n, w, z), Raised(w, n) - Raised(z, n), MODULUS)
<1> DEFINE T(k) == FeltMul(FeltPow(w, k - 1), FeltPow(z, n - k))
           h == [k \in 1..n |-> T(k)]
           Step(s, k) == IF k = 0 THEN 0 ELSE FeltAdd(s[k - 1], T(k))
           s == CHOOSE s : s = [k \in 0..n |-> Step(s, k)]
<1>1. w \in Int /\ z \in Int /\ MODULUS \in Nat
  BY FeltFacts
<1>2. ASSUME NEW k \in 1..n
      PROVE  T(k) \in Felts /\ Same(T(k), Raised(w, k - 1) * Raised(z, n - k), MODULUS)
  <2>1. k - 1 \in Nat /\ n - k \in Nat
    OBVIOUS
  <2>2. PICK a \in Felts, b \in Felts, u \in Int, v \in Int :
           /\ a = FeltPow(w, k - 1) /\ b = FeltPow(z, n - k)
           /\ u = Raised(w, k - 1) /\ v = Raised(z, n - k)
           /\ Same(a, u, MODULUS) /\ Same(b, v, MODULUS)
    <3>1. FeltPow(w, k - 1) \in Felts /\ Same(FeltPow(w, k - 1), Raised(w, k - 1), MODULUS)
      BY <2>1, FeltPowIs
    <3>2. FeltPow(z, n - k) \in Felts /\ Same(FeltPow(z, n - k), Raised(z, n - k), MODULUS)
      BY <2>1, FeltPowIs
    <3>3. Raised(w, k - 1) \in Int /\ Raised(z, n - k) \in Int
      BY <1>1, <2>1, RaisedStep
    <3> QED BY <3>1, <3>2, <3>3
  <2>3. FeltMul(a, b) \in Felts /\ Same(FeltMul(a, b), u * v, MODULUS)
    BY <2>2, FeltMulOf
  <2> QED BY <2>2, <2>3
<1>3. h \in [1..n -> Felts] /\ \A k \in 1..n : h[k] = T(k)
  <2> HIDE DEF T
  <2> QED BY <1>2
<1>4. PICK f0 : f0 = [k \in 0..n |-> IF k = 0 THEN 0 ELSE FeltAdd(f0[k - 1], h[k])]
  <2> HIDE DEF h
  <2> QED BY <1>3, AddsUpExists
<1>5. f0 = [k \in 0..n |-> Step(f0, k)]
  <2>1. \A k \in 0..n : k # 0 => k \in 1..n
    OBVIOUS
  <2> HIDE DEF h, T
  <2> QED BY <1>3, <1>4, <2>1
<1>6. s = [k \in 0..n |-> Step(s, k)]
  <2> HIDE DEF Step, T, h
  <2> QED BY <1>5
<1>7. PowersBetween(n, w, z) = s[n]
  BY DEF PowersBetween
<1> HIDE DEF s
<1>8. \A k \in 0..n : s[k] = Step(s, k)
  <2> HIDE DEF Step
  <2> QED BY <1>6
<1>9. AddsUp(s, h, n)
  <2>1. \A k \in 1..n : k \in 0..n /\ k # 0
    OBVIOUS
  <2>2. 0 \in 0..n
    OBVIOUS
  <2> HIDE DEF T, h
  <2> QED BY <1>3, <1>8, <2>1, <2>2 DEF AddsUp
<1>10. \A k \in 0..n : s[k] \in Felts /\ s[k] \in Int
  <2> HIDE DEF T, h, Step
  <2> QED BY <1>3, <1>9, AddsUpIs, FeltFacts
<1> DEFINE Q == {k \in Nat : k <= n =>
                   Same((w - z) * s[k], Raised(w, k) * Raised(z, n - k) - Raised(z, n), MODULUS)}
<1>11. 0 \in Q
  <2>1. PICK u \in Int : u = Raised(z, n) /\ 1 * u - u = 0 /\ n - 0 = n
    BY <1>1, RaisedStep
  <2>2. s[0] = 0 /\ (w - z) * 0 = 0 /\ Raised(w, 0) = 1
    <3>1. s[0] = 0
      BY <1>9 DEF AddsUp
    <3> QED BY <1>1, <3>1, RaisedStep
  <2>3. Same(0, 0, MODULUS)
    BY FeltFacts, FeltSelf
  <2>4. Same((w - z) * s[0], Raised(w, 0) * Raised(z, n - 0) - Raised(z, n), MODULUS)
    BY <2>1, <2>2, <2>3
  <2> QED BY <2>4
<1>12. ASSUME NEW k \in Q PROVE k + 1 \in Q
  <2>1. CASE k + 1 <= n
    <3>1. PICK k1 \in 1..n, d \in Nat, d1 \in Nat :
             k1 = k + 1 /\ k1 - 1 = k /\ k \in 0..n /\ k1 \in 0..n /\ k \in Nat
             /\ d = n - k1 /\ d1 = n - k /\ d1 = d + 1
      BY <2>1
    <3>2. PICK rw \in Int, rz \in Int, rn \in Int, a \in Int, b \in Int, c \in Int :
             /\ rw = Raised(w, k) /\ rz = Raised(z, d) /\ rn = Raised(z, n)
             /\ a = s[k] /\ b = s[k1] /\ c = T(k1)
             /\ Raised(w, k1) = rw * w /\ Raised(z, d1) = rz * z
      <4>1. Raised(w, k) \in Int /\ Raised(w, k + 1) = Raised(w, k) * w
        BY <1>1, <3>1, RaisedStep
      <4>2. Raised(z, d) \in Int /\ Raised(z, d + 1) = Raised(z, d) * z /\ Raised(z, n) \in Int
        BY <1>1, RaisedStep
      <4>3. T(k1) \in Int
        <5> HIDE DEF T
        <5> QED BY <1>2, FeltFacts
      <4> HIDE DEF T
      <4> QED BY <1>10, <3>1, <4>1, <4>2, <4>3
    <3>3. Same(c, rw * rz, MODULUS)
      <4> HIDE DEF T
      <4> QED BY <1>2, <3>1, <3>2
    <3>4. Same(b, a + c, MODULUS)
      <4>1. s[k1] = FeltAdd(s[k], T(k1)) /\ s[k] \in Felts /\ T(k1) \in Felts
        <5> HIDE DEF T, h
        <5> QED BY <1>2, <1>3, <1>9, <1>10, <3>1 DEF AddsUp
      <4>2. Same(s[k], s[k], MODULUS) /\ Same(T(k1), T(k1), MODULUS)
        <5> HIDE DEF T
        <5> QED BY <4>1, FeltSelf
      <4>3. Same(FeltAdd(s[k], T(k1)), s[k] + T(k1), MODULUS)
        <5> HIDE DEF T
        <5> QED BY <3>2, <4>1, <4>2, FeltAddOf
      <4> HIDE DEF T
      <4> QED BY <3>2, <4>1, <4>3
    <3>5. Same((w - z) * a, rw * (rz * z) - rn, MODULUS)
      BY <3>1, <3>2
    <3>6. PICK e \in Int, p \in Int, ac \in Int, ap \in Int, eb \in Int, eap \in Int, ea \in Int,
               ep \in Int, old \in Int, new \in Int :
             /\ e = w - z /\ p = rw * rz /\ ac = a + c /\ ap = a + p /\ eb = e * b
             /\ eap = e * ap /\ ea = e * a /\ ep = e * p
             /\ old = rw * (rz * z) - rn /\ new = (rw * w) * rz - rn
      BY <1>1
    <3>7. Same(ac, ap, MODULUS)
      <4>1. Same(a, a, MODULUS)
        BY <1>1, SameChain
      <4>2. Same(c, p, MODULUS)
        BY <3>3, <3>6
      <4>3. Same(a + c, a + p, MODULUS)
        BY <1>1, <4>1, <4>2, SameSum
      <4> QED BY <3>6, <4>3
    <3>8. Same(b, ap, MODULUS)
      <4>1. Same(b, ac, MODULUS)
        BY <3>4, <3>6
      <4> QED BY <1>1, <3>7, <4>1, SameChain
    <3>9. Same(eb, eap, MODULUS)
      BY <1>1, <3>6, <3>8, SameTimes
    <3>10. eap = ea + ep
      <4>1. e * (a + p) = e * a + e * p
        BY Z3
      <4> QED BY <3>6, <4>1
    <3>11. Same(ea + ep, old + ep, MODULUS)
      <4>1. Same(ea, old, MODULUS)
        BY <3>5, <3>6
      <4>2. Same(ep, ep, MODULUS)
        BY <1>1, SameChain
      <4> QED BY <1>1, <4>1, <4>2, SameSum
    <3>12. old + ep = new
      <4>1. (rw * (rz * z) - rn) + (w - z) * (rw * rz) = (rw * w) * rz - rn
        BY <1>1, Z3
      <4> QED BY <3>6, <4>1
    <3>13. Same(eb, new, MODULUS)
      BY <1>1, <3>9, <3>10, <3>11, <3>12, SameChain
    <3>14. Same((w - z) * s[k1], Raised(w, k1) * Raised(z, n - k1) - Raised(z, n), MODULUS)
      BY <3>1, <3>2, <3>6, <3>13
    <3> QED BY <3>1, <3>14
  <2>2. CASE ~(k + 1 <= n)
    BY <2>2
  <2> QED BY <2>1, <2>2
<1>13. Q = Nat
  <2>1. Q \in SUBSET Nat
    OBVIOUS
  <2> HIDE DEF Q
  <2> QED BY <1>11, <1>12, <2>1, Inductive
<1>14. Same((w - z) * s[n], Raised(w, n) * Raised(z, n - n) - Raised(z, n), MODULUS)
  <2>1. n \in Q /\ n <= n
    <3> HIDE DEF Q
    <3> QED BY <1>13
  <2> QED BY <2>1
<1>15. PICK u \in Int, v \in Int : u = Raised(w, n) /\ v = Raised(z, n) /\ u * 1 = u
                                   /\ Raised(z, 0) = 1 /\ n - n = 0 /\ n \in 0..n
  BY <1>1, RaisedStep
<1>16. Same((w - z) * s[n], Raised(w, n) - Raised(z, n), MODULUS)
  BY <1>14, <1>15
<1> QED BY <1>7, <1>10, <1>15, <1>16

(* A zero factor.                                                           *)
LEMMA FeltZero == \A a \in Felts : /\ FeltMul(a, 0) = 0 /\ FeltMul(0, a) = 0 /\ FeltSub(a, a) = 0
                                   /\ FeltAdd(0, a) = a
<1>1. ASSUME NEW a \in Felts
      PROVE  FeltMul(a, 0) = 0 /\ FeltMul(0, a) = 0 /\ FeltSub(a, a) = 0 /\ FeltAdd(0, a) = a
  <2>1. a \in Int /\ 0 \in Felts /\ 0 \in Int /\ Same(a, a, MODULUS) /\ Same(0, 0, MODULUS)
        /\ a * 0 = 0 /\ 0 * a = 0 /\ a - a = 0 /\ 0 + a = a
    BY FeltSelf, FeltFacts
  <2>2. FeltMul(a, 0) \in Felts /\ Same(FeltMul(a, 0), a * 0, MODULUS)
    BY <2>1, FeltMulOf
  <2>3. FeltMul(0, a) \in Felts /\ Same(FeltMul(0, a), 0 * a, MODULUS)
    BY <2>1, FeltMulOf
  <2>4. FeltSub(a, a) \in Felts /\ Same(FeltSub(a, a), a - a, MODULUS)
    BY <2>1, FeltSubOf
  <2>5. FeltAdd(0, a) \in Felts /\ Same(FeltAdd(0, a), 0 + a, MODULUS)
    BY <2>1, FeltAddOf
  <2>6. FeltMul(a, 0) = 0
    BY <2>1, <2>2, FeltIs
  <2>7. FeltMul(0, a) = 0
    BY <2>1, <2>3, FeltIs
  <2>8. FeltSub(a, a) = 0
    BY <2>1, <2>4, FeltIs
  <2>9. FeltAdd(0, a) = a
    BY <2>1, <2>5, FeltIs
  <2> QED BY <2>6, <2>7, <2>8, <2>9
<1> QED BY <1>1

(* The quotient of a power.                                                 *)
LEMMA QuotientOfPower ==
  ASSUME NEW n \in Nat, NEW w \in Felts, NEW z \in Felts, NEW d, d = FeltInv[FeltSub(w, z)],
         NEW p, p = FeltSub(FeltPow(w, n), FeltPow(z, n))
  PROVE  /\ FeltMul(p, d) \in Felts
         /\ FeltMul(p, d) = IF z = w THEN 0 ELSE PowersBetween(n, w, z)
<1>1. w \in Int /\ z \in Int /\ MODULUS \in Nat /\ MODULUS > 2
      /\ Same(w, w, MODULUS) /\ Same(z, z, MODULUS)
  BY FeltFacts, FeltSelf
<1>2. PICK e \in Felts, wz \in Int : e = FeltSub(w, z) /\ wz = w - z /\ Same(e, wz, MODULUS) /\ e \in Int
  <2>1. FeltSub(w, z) \in Felts /\ Same(FeltSub(w, z), w - z, MODULUS) /\ w - z \in Int
    BY <1>1, FeltSubOf
  <2> QED BY <2>1, FeltFacts
<1>3. d \in Felts /\ d \in Int
  <2>1. MODULUS - 2 \in Nat
    BY <1>1
  <2>2. d = FeltPow(e, MODULUS - 2)
    BY <1>2 DEF FeltInv
  <2>3. d \in Felts
    BY <2>1, <2>2, FeltPowIs
  <2> QED BY <2>3, FeltFacts
<1>4. PICK a \in Felts, b \in Felts, u \in Int, v \in Int :
         /\ a = FeltPow(w, n) /\ b = FeltPow(z, n) /\ u = Raised(w, n) /\ v = Raised(z, n)
         /\ Same(a, u, MODULUS) /\ Same(b, v, MODULUS)
  <2>1. FeltPow(w, n) \in Felts /\ Same(FeltPow(w, n), Raised(w, n), MODULUS)
    BY FeltPowIs
  <2>2. FeltPow(z, n) \in Felts /\ Same(FeltPow(z, n), Raised(z, n), MODULUS)
    BY FeltPowIs
  <2>3. Raised(w, n) \in Int /\ Raised(z, n) \in Int
    BY <1>1, RaisedStep
  <2> QED BY <2>1, <2>2, <2>3
<1>5. p \in Felts /\ Same(p, u - v, MODULUS)
  BY <1>4, FeltSubOf
<1>6. PICK pd \in Int, x0 \in Felts : pd = p * d /\ x0 = FeltMul(p, d) /\ Same(x0, pd, MODULUS)
                                      /\ p \in Int /\ x0 \in Int
  <2>1. p \in Int /\ Same(p, p, MODULUS) /\ Same(d, d, MODULUS) /\ p * d \in Int
    BY <1>3, <1>5, FeltSelf
  <2>2. FeltMul(p, d) \in Felts /\ Same(FeltMul(p, d), p * d, MODULUS)
    BY <1>3, <1>5, <2>1, FeltMulOf
  <2> QED BY <2>1, <2>2, FeltFacts
<1>7. CASE z = w
  <2>1. p = 0
    BY <1>4, <1>7, FeltZero
  <2>2. x0 = 0
    BY <1>3, <1>6, <2>1, FeltZero
  <2> QED BY <1>6, <1>7, <2>2
<1>8. CASE z # w
  <2>1. e # 0
    <3> SUFFICES ASSUME e = 0 PROVE FALSE
      OBVIOUS
    <3>1. 0 \in Int
      OBVIOUS
    <3>2. Same(wz, 0, MODULUS)
      BY <1>1, <1>2, <3>1, SameChain
    <3>3. Same(w - z, 0, MODULUS)
      BY <1>2, <3>2
    <3>4. Same(w, z, MODULUS)
      BY <1>1, <3>3, SameDifference
    <3> QED BY <1>8, <3>4, FeltIs
  <2>2. PICK ed \in Int : ed = e * d /\ Same(ed, 1, MODULUS)
    <3>1. Same(e * FeltInv[e], 1, MODULUS)
      BY <2>1, FeltInvIs
    <3>2. e * d \in Int
      BY <1>2, <1>3
    <3> QED BY <1>2, <3>1, <3>2
  <2>3. PICK r \in Felts : r = PowersBetween(n, w, z) /\ r \in Int
                           /\ Same((w - z) * r, u - v, MODULUS)
    <3>1. PowersBetween(n, w, z) \in Felts
          /\ Same((w - z) * PowersBetween(n, w, z), Raised(w, n) - Raised(z, n), MODULUS)
      BY PowersBetweenIs
    <3> QED BY <1>4, <3>1, FeltFacts
  <2>4. PICK er \in Int, wr \in Int, uv \in Int, ep \in Int, pe \in Int :
           er = e * r /\ wr = wz * r /\ uv = u - v /\ ep = e * pd /\ pe = p * ed
    BY <1>2, <1>6, <2>2, <2>3
  <2>5. Same(er, wr, MODULUS)
    BY <1>1, <1>2, <2>3, <2>4, SameTimes
  <2>6. Same(wr, uv, MODULUS) /\ Same(p, uv, MODULUS)
    BY <1>2, <1>5, <2>3, <2>4
  <2>7. Same(uv, p, MODULUS)
    BY <1>1, <1>6, <2>6, SameChain
  <2>8. Same(er, p, MODULUS)
    <3>1. Same(er, uv, MODULUS)
      BY <1>1, <2>5, <2>6, SameChain
    <3> QED BY <1>1, <1>6, <2>7, <3>1, SameChain
  <2>9. ep = pe
    <3>1. e * (p * d) = p * (e * d)
      BY <1>2, <1>3, <1>6, Z3
    <3> QED BY <1>6, <2>2, <2>4, <3>1
  <2>10. Same(pe, p, MODULUS)
    <3>1. Same(p * ed, p * 1, MODULUS)
      <4>1. 1 \in Int
        OBVIOUS
      <4> QED BY <1>1, <1>6, <2>2, <4>1, SameTimes
    <3>2. p * 1 = p
      BY <1>6
    <3> QED BY <2>4, <3>1, <3>2
  <2>11. Same(ep, er, MODULUS)
    <3>1. Same(p, er, MODULUS)
      BY <1>1, <1>6, <2>8, SameChain
    <3> QED BY <1>1, <1>6, <2>9, <2>10, <3>1, SameChain
  <2>12. Same(e * pd, e * r, MODULUS)
    BY <2>4, <2>11
  <2>13. Same(pd, r, MODULUS)
    BY <2>1, <2>3, <2>12, FeltCancel
  <2>14. Same(x0, r, MODULUS)
    BY <1>1, <1>6, <2>3, <2>13, SameChain
  <2>15. x0 = r
    BY <2>14, FeltIs
  <2> QED BY <1>6, <1>8, <2>3, <2>15
<1> QED BY <1>7, <1>8

(* A quotient is the value of the divided polynomial.                       *)
LEMMA QuotientEvalIs ==
  ASSUME NEW cs \in Seq(Felts), NEW w \in Felts, NEW z \in Felts
  PROVE  /\ QuotientEval(cs, w, z) \in Felts
         /\ QuotientEval(cs, w, z) = IF z = w THEN 0 ELSE Divided(cs, w, z)
<1> DEFINE n == Len(cs)
           T(k) == FeltMul(cs[k], FeltMul(FeltSub(FeltPow(w, k - 1), FeltPow(z, k - 1)),
                                          FeltInv[FeltSub(w, z)]))
           U(k) == FeltMul(cs[k], PowersBetween(k - 1, w, z))
           h == [k \in 1..n |-> T(k)]
           Step(s, k) == IF k = 0 THEN 0 ELSE FeltAdd(s[k - 1], T(k))
           Next2(s, k) == IF k = 0 THEN 0 ELSE FeltAdd(s[k - 1], U(k))
           s == CHOOSE s : s = [k \in 0..n |-> Step(s, k)]
           r == CHOOSE r : r = [k \in 0..n |-> Next2(r, k)]
<1>1. n \in Nat /\ 0 \in 0..n /\ \A k \in 1..n : cs[k] \in Felts /\ k - 1 \in Nat /\ k \in 0..n /\ k # 0
  OBVIOUS
<1>2. ASSUME NEW k \in 1..n
      PROVE  /\ T(k) \in Felts
             /\ z = w => T(k) = 0
             /\ z # w => U(k) = T(k)
  <2>1. PICK c \in Felts, e \in Nat : c = cs[k] /\ e = k - 1
    BY <1>1
  <2>2. PICK p, d : p = FeltSub(FeltPow(w, e), FeltPow(z, e)) /\ d = FeltInv[FeltSub(w, z)]
    OBVIOUS
  <2>3. /\ FeltMul(p, d) \in Felts
        /\ FeltMul(p, d) = IF z = w THEN 0 ELSE PowersBetween(e, w, z)
    BY <2>2, QuotientOfPower
  <2>4. T(k) = FeltMul(c, FeltMul(p, d)) /\ U(k) = FeltMul(c, PowersBetween(e, w, z))
    BY <2>1, <2>2
  <2>5. FeltMul(c, FeltMul(p, d)) \in Felts
    <3>1. PICK q \in Felts : q = FeltMul(p, d)
      BY <2>3
    <3>2. c \in Int /\ q \in Int /\ Same(c, c, MODULUS) /\ Same(q, q, MODULUS)
      BY FeltSelf
    <3> QED BY <3>1, <3>2, FeltMulOf
  <2>6. FeltMul(c, 0) = 0
    BY FeltZero
  <2> HIDE DEF T, U
  <2> QED BY <2>3, <2>4, <2>5, <2>6
<1>3. h \in [1..n -> Felts] /\ \A k \in 1..n : h[k] = T(k)
  <2> HIDE DEF T
  <2> QED BY <1>2
<1>4. PICK f0 : f0 = [k \in 0..n |-> IF k = 0 THEN 0 ELSE FeltAdd(f0[k - 1], h[k])]
  <2> HIDE DEF h
  <2> QED BY <1>1, <1>3, AddsUpExists
<1>5. \A k \in 0..n : k # 0 => k \in 1..n
  BY <1>1
<1>6. f0 = [k \in 0..n |-> Step(f0, k)]
  <2> HIDE DEF h, T
  <2> QED BY <1>3, <1>4, <1>5
<1>7. s = [k \in 0..n |-> Step(s, k)]
  <2> HIDE DEF Step, T, h, n
  <2> QED BY <1>6
<1>8. QuotientEval(cs, w, z) = s[n]
  BY DEF QuotientEval
<1>9. ASSUME z # w PROVE r = [k \in 0..n |-> Next2(r, k)]
  <2>1. f0 = [k \in 0..n |-> Next2(f0, k)]
    <3>1. \A k \in 1..n : U(k) = h[k]
      <4> HIDE DEF h, T, U
      <4> QED BY <1>2, <1>3, <1>9
    <3> HIDE DEF h, U
    <3> QED BY <1>4, <1>5, <3>1
  <2> HIDE DEF Next2, U, h, n
  <2> QED BY <2>1
<1>10. Divided(cs, w, z) = r[n]
  BY DEF Divided
<1> HIDE DEF s, r
<1>11. AddsUp(s, h, n)
  <2>1. \A k \in 0..n : s[k] = Step(s, k)
    <3> HIDE DEF Step
    <3> QED BY <1>7
  <2> HIDE DEF T, h
  <2> QED BY <1>1, <1>3, <2>1 DEF AddsUp
<1>12. ASSUME z # w PROVE AddsUp(r, h, n)
  <2>1. \A k \in 0..n : r[k] = Next2(r, k)
    <3> HIDE DEF Next2
    <3> QED BY <1>9, <1>12
  <2>2. \A k \in 1..n : U(k) = h[k]
    <3> HIDE DEF h, T, U
    <3> QED BY <1>2, <1>3, <1>12
  <2> HIDE DEF U, h
  <2> QED BY <1>1, <2>1, <2>2 DEF AddsUp
<1>13. n \in 0..n
  BY <1>1
<1>14. s[n] \in Felts
  <2> HIDE DEF h, n
  <2> QED BY <1>1, <1>3, <1>11, <1>13, AddsUpIs
<1>15. ASSUME z # w PROVE s[n] = r[n]
  <2>1. AddsUp(r, h, n)
    BY <1>12, <1>15
  <2> HIDE DEF h, n
  <2> QED BY <1>1, <1>3, <1>11, <2>1, AddsUpIs
<1>16. ASSUME z = w PROVE s[n] = 0
  <2>1. \A k \in 1..n : h[k] = 0
    <3> HIDE DEF h, T
    <3> QED BY <1>2, <1>3, <1>16
  <2> HIDE DEF h, n
  <2> QED BY <1>1, <1>3, <1>11, <2>1, AddsUpIs
<1> HIDE DEF h, n
<1> QED BY <1>8, <1>10, <1>14, <1>15, <1>16

(* The composition of two terms, as the prover keeps it.                    *)
DeepOf(a1, f1, z1, a2, f2, z2, w) ==
    LET terms == <<<<a1, f1, z1>>, <<a2, f2, z2>>>>
    IN  [terms |-> terms, zeta |-> w, value |-> DeepComposition(terms, w)]

(* A composition of two terms is the sum of their parts, at a point that    *)
(* neither of them queries.                                                 *)
Combined(d) ==
    (\A k \in 1..2 : d.terms[k][3] # d.zeta) => d.value = FeltAdd(Part(d, 1), Part(d, 2))

LEMMA DeepCompositionIs ==
  ASSUME NEW a1 \in Felts, NEW f1 \in Seq(Felts), NEW z1 \in Felts,
         NEW a2 \in Felts, NEW f2 \in Seq(Felts), NEW z2 \in Felts, NEW w \in Felts
  PROVE  Combined(DeepOf(a1, f1, z1, a2, f2, z2, w))
<1> SUFFICES ASSUME z1 # w, z2 # w
             PROVE  DeepOf(a1, f1, z1, a2, f2, z2, w).value
                      = FeltAdd(Part(DeepOf(a1, f1, z1, a2, f2, z2, w), 1),
                                Part(DeepOf(a1, f1, z1, a2, f2, z2, w), 2))
  <2>1. PICK d : d = DeepOf(a1, f1, z1, a2, f2, z2, w)
    OBVIOUS
  <2>2. d.terms[1][3] = z1 /\ d.terms[2][3] = z2 /\ d.zeta = w
    BY <2>1 DEF DeepOf
  <2> QED BY <2>1, <2>2 DEF Combined
<1>0. PICK terms, d :
         /\ d = DeepOf(a1, f1, z1, a2, f2, z2, w)
         /\ terms = <<<<a1, f1, z1>>, <<a2, f2, z2>>>>
         /\ d = [terms |-> terms, zeta |-> w, value |-> DeepComposition(terms, w)]
  BY DEF DeepOf
<1> DEFINE T(k) == FeltMul(terms[k][1], QuotientEval(terms[k][2], w, terms[k][3]))
           h == [k \in 1..2 |-> T(k)]
           Step(s, k) == IF k = 0 THEN 0 ELSE FeltAdd(s[k - 1], T(k))
           s == CHOOSE s : s = [k \in 0..Len(terms) |-> Step(s, k)]
<1>1. Len(terms) = 2
  BY <1>0
<1>2. ASSUME NEW a \in Felts, NEW f \in Seq(Felts), NEW z \in Felts
      PROVE  /\ FeltMul(a, QuotientEval(f, w, z)) \in Felts
             /\ FeltMul(a, QuotientEval(f, w, z)) = IF z = w THEN 0 ELSE FeltMul(a, Divided(f, w, z))
  <2>1. PICK q \in Felts : q = QuotientEval(f, w, z) /\ q = IF z = w THEN 0 ELSE Divided(f, w, z)
    BY QuotientEvalIs
  <2>2. FeltMul(a, q) \in Felts
    BY FeltSelf, FeltMulOf
  <2>3. FeltMul(a, 0) = 0
    BY FeltZero
  <2> QED BY <2>1, <2>2, <2>3
<1>3. T(1) = FeltMul(a1, QuotientEval(f1, w, z1)) /\ T(2) = FeltMul(a2, QuotientEval(f2, w, z2))
  BY <1>0
<1>4. T(1) \in Felts /\ T(2) \in Felts
  BY <1>2, <1>3
<1>5. Part(d, 1) = T(1)
  <2>1. Part(d, 1) = FeltMul(a1, Divided(f1, w, z1))
    BY <1>0 DEF Part
  <2> QED BY <1>2, <1>3, <2>1
<1>6. Part(d, 2) = T(2)
  <2>1. Part(d, 2) = FeltMul(a2, Divided(f2, w, z2))
    BY <1>0 DEF Part
  <2> QED BY <1>2, <1>3, <2>1
<1>7. h \in [1..2 -> Felts] /\ \A k \in 1..2 : h[k] = T(k)
  <2>1. \A k \in 1..2 : k = 1 \/ k = 2
    OBVIOUS
  <2> HIDE DEF T
  <2> QED BY <1>4, <2>1
<1>8. PICK f0 : f0 = [k \in 0..2 |-> IF k = 0 THEN 0 ELSE FeltAdd(f0[k - 1], h[k])]
  <2>1. 2 \in Nat
    OBVIOUS
  <2> HIDE DEF h
  <2> QED BY <1>7, <2>1, AddsUpExists
<1>9. \A k \in 0..2 : k # 0 => k \in 1..2
  OBVIOUS
<1>10. f0 = [k \in 0..Len(terms) |-> Step(f0, k)]
  <2> HIDE DEF h, T
  <2> QED BY <1>1, <1>7, <1>8, <1>9
<1>11. s = [k \in 0..Len(terms) |-> Step(s, k)]
  <2> HIDE DEF Step, T, h
  <2> QED BY <1>10
<1>12. DeepComposition(terms, w) = s[Len(terms)]
  BY DEF DeepComposition
<1> HIDE DEF s, T, h
<1>13. s[0] = 0 /\ s[1] = FeltAdd(s[0], T(1)) /\ s[2] = FeltAdd(s[1], T(2))
  <2>1. \A k \in 0..2 : s[k] = Step(s, k)
    <3> HIDE DEF Step
    <3> QED BY <1>1, <1>11
  <2> QED BY <2>1
<1>14. s[1] = T(1)
  BY <1>4, <1>13, FeltZero
<1>15. d.value = s[2]
  BY <1>0, <1>1, <1>12
<1>16. d.value = FeltAdd(Part(d, 1), Part(d, 2))
  BY <1>5, <1>6, <1>13, <1>14, <1>15
<1> QED BY <1>0, <1>16

-----------------------------------------------------------------------------
(* The prover.                                                              *)

FriInv ==
    /\ layer # NoLayer => /\ log \in 0..FRI_MAX_LOG /\ folded \in Seq(Felts)
                          /\ LayerHolds(layer, folded, log, wrong)
    /\ deep # NoDeep => Combined(deep)

LEMMA CommitLayerKeeps == FriInv /\ CommitLayer => FriInv'
<1> SUFFICES ASSUME FriInv, CommitLayer PROVE FriInv'
  OBVIOUS
<1>1. PICK f \in TracePolys :
         /\ folded' = f /\ log' = TraceLog /\ deep' = deep /\ deep = NoDeep
         /\ \/ layer' = LayerOf(f, TraceLog) /\ wrong' = -1
            \/ \E m \in 0..(OneShl[TraceLog] - 1), e \in Errors :
                  layer' = [LayerOf(f, TraceLog) EXCEPT ![m] = FeltAdd(@, e)] /\ wrong' = m
  BY DEF CommitLayer
<1>2. f \in Seq(Felts) /\ TraceLog \in 0..FRI_MAX_LOG
  BY <1>1, TraceAssumption
<1>3. LayerHolds(layer', f, TraceLog, wrong')
  <2>1. CASE layer' = LayerOf(f, TraceLog) /\ wrong' = -1
    BY <1>2, <2>1, LayerStarts
  <2>2. ASSUME NEW m \in 0..(OneShl[TraceLog] - 1), NEW e \in Errors,
               layer' = [LayerOf(f, TraceLog) EXCEPT ![m] = FeltAdd(@, e)], wrong' = m
        PROVE  LayerHolds(layer', f, TraceLog, wrong')
    <3>1. e \in 1..(MODULUS - 1)
      BY TraceAssumption
    <3>2. LayerHolds([LayerOf(f, TraceLog) EXCEPT ![m] = FeltAdd(@, e)], f, TraceLog, m)
      BY <1>2, <3>1, LayerStarts
    <3> QED BY <2>2, <3>2
  <2> QED BY <1>1, <2>1, <2>2
<1>4. log' \in 0..FRI_MAX_LOG /\ folded' \in Seq(Felts) /\ LayerHolds(layer', folded', log', wrong')
  BY <1>1, <1>2, <1>3
<1> QED BY <1>1, <1>4 DEF FriInv

LEMMA FoldDownKeeps == FriInv /\ FoldDown => FriInv'
<1> SUFFICES ASSUME FriInv, FoldDown PROVE FriInv'
  OBVIOUS
<1>1. PICK beta \in Betas :
         /\ layer # NoLayer /\ log > 0
         /\ layer' = FoldLayer(layer, beta, log) /\ folded' = FoldedPoly(folded, beta)
         /\ wrong' = (IF wrong = -1 \/ FeltAdd(beta, DomainPoint(log, wrong)) = 0 THEN -1
                      ELSE wrong % OneShl[log - 1])
         /\ log' = log - 1 /\ deep' = deep
  BY DEF FoldDown
<1>2. log \in 0..FRI_MAX_LOG /\ folded \in Seq(Felts) /\ LayerHolds(layer, folded, log, wrong)
  BY <1>1 DEF FriInv
<1>3. beta \in Felts /\ log \in 1..FRI_MAX_LOG /\ log - 1 \in 0..FRI_MAX_LOG
  <2>1. beta \in Felts
    BY <1>1, TraceAssumption
  <2>2. FRI_MAX_LOG \in Nat
    BY RootAssumption
  <2>3. log \in 0..FRI_MAX_LOG /\ log > 0
    BY <1>1, <1>2
  <2>4. log \in 1..FRI_MAX_LOG /\ log - 1 \in 0..FRI_MAX_LOG
    BY <2>2, <2>3
  <2> QED BY <2>1, <2>4
<1>4. LayerHolds(layer', folded', log', wrong')
  <2>1. PICK w1 : w1 = wrong'
    OBVIOUS
  <2>2. LayerHolds(FoldLayer(layer, beta, log), FoldedPoly(folded, beta), log - 1, w1)
    BY <1>1, <1>2, <1>3, <2>1, LayerFolds
  <2> QED BY <1>1, <2>1, <2>2
<1>5. folded' \in Seq(Felts)
  <2>1. PICK h : h = (Len(folded) + 1) \div 2
    OBVIOUS
  <2> QED BY <1>1, <1>2, <1>3, <2>1, FoldedPolyType
<1>6. log' \in 0..FRI_MAX_LOG
  BY <1>1, <1>3
<1>7. deep' # NoDeep => Combined(deep')
  BY <1>1 DEF FriInv
<1> QED BY <1>4, <1>5, <1>6, <1>7 DEF FriInv

LEMMA ComposeKeeps == FriInv /\ Compose => FriInv'
<1> SUFFICES ASSUME FriInv, Compose PROVE FriInv'
  OBVIOUS
<1>1. PICK a1 \in Betas, a2 \in Betas, f1 \in TracePolys, f2 \in TracePolys,
           w \in Zetas, z1 \in Zetas : deep' = DeepOf(a1, f1, z1, a2, f2, 1, w)
  BY DEF Compose, DeepOf
<1>2. layer = NoLayer /\ layer' = layer
  BY DEF Compose
<1>3. /\ a1 \in Felts /\ a2 \in Felts /\ f1 \in Seq(Felts) /\ f2 \in Seq(Felts)
      /\ w \in Felts /\ z1 \in Felts /\ 1 \in Felts
  BY <1>1, TraceAssumption, FeltFacts
<1>4. Combined(DeepOf(a1, f1, z1, a2, f2, 1, w))
  <2>1. PICK z2 : z2 = 1 /\ z2 \in Felts
    BY <1>3
  <2>2. Combined(DeepOf(a1, f1, z1, a2, f2, z2, w))
    BY <1>3, <2>1, DeepCompositionIs, Zenon
  <2> QED BY <2>1, <2>2
<1> QED BY <1>1, <1>2, <1>4 DEF FriInv

LEMMA FriInvImplies == FriInv => FoldsFollowThePolynomial
<1> SUFFICES ASSUME FriInv PROVE FoldsFollowThePolynomial
  OBVIOUS
<1>1. ASSUME layer # NoLayer
      PROVE  LET true == LayerOf(folded, log) IN
             /\ DOMAIN layer = DOMAIN true
             /\ {m \in DOMAIN true : layer[m] # true[m]} = {wrong} \ {-1}
             /\ log > 0 => LET half == OneShl[log - 1] IN \A m \in 0..(half - 1) :
                  /\ DomainPoint(log, m + half) = FeltNeg(DomainPoint(log, m))
                  /\ DomainPoint(log - 1, m) = FeltPow(DomainPoint(log, m), 2)
                  /\ \A beta \in Betas :
                       FoldValue(layer[m + half], layer[m], DomainPoint(log, m + half), beta)
                         = FoldLayer(layer, beta, log)[m]
  <2>1. log \in 0..FRI_MAX_LOG /\ folded \in Seq(Felts) /\ LayerHolds(layer, folded, log, wrong)
    BY <1>1 DEF FriInv
  <2>2. \A beta \in Betas : beta \in Felts
    BY TraceAssumption
  <2>3. PICK src, l, f, w : src = layer /\ l = log /\ f = folded /\ w = wrong
    OBVIOUS
  <2>4. /\ DOMAIN src = DOMAIN LayerOf(f, l)
        /\ {m \in DOMAIN LayerOf(f, l) : src[m] # LayerOf(f, l)[m]} = {w} \ {-1}
        /\ l > 0 =>
             \A m \in 0..(OneShl[l - 1] - 1) :
               /\ DomainPoint(l, m + OneShl[l - 1]) = FeltNeg(DomainPoint(l, m))
               /\ DomainPoint(l - 1, m) = FeltPow(DomainPoint(l, m), 2)
               /\ \A beta \in Felts :
                    FoldValue(src[m + OneShl[l - 1]], src[m], DomainPoint(l, m + OneShl[l - 1]), beta)
                      = FoldLayer(src, beta, l)[m]
    BY <2>1, <2>3, LayerKeepsPromise
  <2> QED BY <2>2, <2>3, <2>4
<1> QED BY <1>1 DEF FriInv, Combined, FoldsFollowThePolynomial

(* fold_layer_into and deep_composition in stark/fri.rs: whatever the       *)
(* polynomial, the size of its layer and the challenges, a folded layer     *)
(* holds the values of the folded polynomial but for the one that follows   *)
(* from a wrong value, opposite points fold alike from either side, and a   *)
(* deep composition at a point that is not queried combines the divided     *)
(* polynomials.                                                             *)
THEOREM FoldsAlwaysFollow == FriSpec => []FoldsFollowThePolynomial
<1>1. FriInit => FriInv
  BY DEF FriInit, FriInv
<1>2. FriInv /\ [FriNext]_friVars => FriInv'
  <2> SUFFICES ASSUME FriInv, [FriNext]_friVars PROVE FriInv'
    OBVIOUS
  <2>1. CASE CommitLayer
    BY <2>1, CommitLayerKeeps
  <2>2. CASE FoldDown
    BY <2>2, FoldDownKeeps
  <2>3. CASE Compose
    BY <2>3, ComposeKeeps
  <2>4. CASE FriForget
    <3>1. layer' = NoLayer /\ deep' = NoDeep
      BY <2>4 DEF FriForget
    <3> QED BY <3>1 DEF FriInv
  <2>5. CASE UNCHANGED friVars
    <3>1. layer' = layer /\ log' = log /\ folded' = folded /\ wrong' = wrong /\ deep' = deep
      BY <2>5 DEF friVars
    <3> QED BY <3>1 DEF FriInv
  <2> QED BY <2>1, <2>2, <2>3, <2>4, <2>5 DEF FriNext
<1> QED BY <1>1, <1>2, FriInvImplies, PTL DEF FriSpec

-----------------------------------------------------------------------------
(* The caller of ProofSystems takes the steps of one building block at a    *)
(* time, so each of them behaves as it does alone, and what holds of each   *)
(* holds of all of them together.                                           *)
THEOREM SystemsTogether ==
  Spec => /\ TreeSpec
          /\ [](/\ PolynomialsAreExact /\ AccumulatorIsSum /\ VerdictsFollow
                /\ HonestCellsPass /\ RangeProofsAreComplete
                /\ FoldsFollowThePolynomial)
<1>1. Init => PolyInit /\ Halo2Init /\ RangeInit /\ FriInit /\ TreeInit
  BY DEF Init
<1>2. [Next]_vars => [PolyNext]_polyVars
  BY DEF Next, vars
<1>3. [Next]_vars => [Halo2Next]_halo2Vars
  BY DEF Next, vars
<1>4. [Next]_vars => [RangeNext]_rangeVars
  BY DEF Next, vars
<1>5. [Next]_vars => [FriNext]_friVars
  BY DEF Next, vars
<1>6. [Next]_vars => [TreeNext]_treeVars
  BY DEF Next, vars
<1>7. Spec => PolySpec
  BY <1>1, <1>2, PTL DEF Spec, PolySpec
<1>8. Spec => Halo2Spec
  BY <1>1, <1>3, PTL DEF Spec, Halo2Spec
<1>9. Spec => RangeSpec
  BY <1>1, <1>4, PTL DEF Spec, RangeSpec
<1>10. Spec => FriSpec
  BY <1>1, <1>5, PTL DEF Spec, FriSpec
<1>11. Spec => TreeSpec
  BY <1>1, <1>6, PTL DEF Spec, TreeSpec
<1> QED
  BY <1>7, <1>8, <1>9, <1>10, <1>11, PolynomialsStayExact, AccumulatorSums,
     VerdictsAlwaysFollow, HonestCellsAlwaysPass, RangeProofsVerify,
     FoldsAlwaysFollow, PTL
=============================================================================
