---------------------------- MODULE GadgetProofs ----------------------------
(***************************************************************************)
(* Proofs about the gadgets, one component after the other: the lookup     *)
(* tables, the padding of SHA-256, the tree over an execution trace, the   *)
(* addition on byte arrays, the gadgets on bits and the sponge.            *)
(*                                                                         *)
(* What recursive functions compute is shown by induction over numbers,    *)
(* which the lemma Inductive gives from the least element of a set.        *)
(***************************************************************************)
EXTENDS Gadgets, StarkTree, FiniteSetTheorems, FunctionTheorems, SequenceTheorems,
        WellFoundedInduction, TLAPS

(* A set of natural numbers has a least element.                           *)
LEMMA LeastElement ==
  ASSUME NEW M \in SUBSET Nat, M # {}
  PROVE  \E x \in M : \A y \in M : x <= y
<1>1. PICK x \in M : \A y \in M : ~ (<<y, x>> \in OpToRel(<, Nat))
  BY NatLessThanWellFounded, WFMin
<1>2. ASSUME NEW y \in M PROVE x <= y
  <2>1. ~ (y < x)
    BY <1>1 DEF OpToRel
  <2> QED
    BY <2>1
<1> QED
  BY <1>2

(* Induction, over a set of numbers.                                        *)
LEMMA Inductive ==
  ASSUME NEW Q \in SUBSET Nat, 0 \in Q, \A n \in Q : n + 1 \in Q
  PROVE  Q = Nat
<1> DEFINE M == Nat \ Q
<1> SUFFICES ASSUME M # {} PROVE FALSE
  OBVIOUS
<1>1. PICK x \in M : \A y \in M : x <= y
  <2>1. M \in SUBSET Nat
    OBVIOUS
  <2> HIDE DEF M
  <2> QED BY <2>1, LeastElement
<1>2. x # 0 /\ x - 1 \in Nat /\ x - 1 \notin M
  BY <1>1
<1>3. (x - 1) + 1 \in Q
  BY <1>2
<1> QED BY <1>1, <1>3

-----------------------------------------------------------------------------
(* The order of rows is total.                                              *)
LEMMA RowsDiffer ==
  ASSUME NEW n \in Nat, NEW a \in [1..n -> Nat], NEW b \in [1..n -> Nat], a # b
  PROVE  RowLt(a, b) \/ RowLt(b, a)
<1> DEFINE D == {k \in 1..n : a[k] # b[k]}
<1>1. D # {}
  OBVIOUS
<1>2. PICK k \in D : \A l \in D : k <= l
  <2>1. D \in SUBSET Nat
    OBVIOUS
  <2> HIDE DEF D
  <2> QED BY <1>1, <2>1, LeastElement
<1>3. k \in 1..n /\ a[k] # b[k] /\ a[k] \in Nat /\ b[k] \in Nat
  BY <1>2
<1>4. \A l \in 1..(k - 1) : a[l] = b[l]
  <2> TAKE l \in 1..(k - 1)
  <2>1. l \in 1..n /\ ~ (k <= l)
    BY <1>3
  <2> QED BY <1>2, <2>1
<1>5. DOMAIN a = 1..n /\ DOMAIN b = 1..n
  OBVIOUS
<1> HIDE DEF D
<1>6. a[k] < b[k] => RowLt(a, b)
  BY <1>3, <1>4, <1>5 DEF RowLt
<1>7. b[k] < a[k] => RowLt(b, a)
  BY <1>3, <1>4, <1>5 DEF RowLt
<1> QED BY <1>3, <1>6, <1>7

(* The order of rows is transitive, and so is not coming after. *)
LEMMA RowLtTransitive ==
  ASSUME NEW n \in Nat, NEW a \in [1..n -> Nat], NEW b \in [1..n -> Nat], NEW c \in [1..n -> Nat],
         RowLt(a, b), RowLt(b, c)
  PROVE  RowLt(a, c)
<1>1. PICK k \in 1..n : a[k] < b[k] /\ \A l \in 1..(k - 1) : a[l] = b[l]
  BY DEF RowLt
<1>2. PICK m \in 1..n : b[m] < c[m] /\ \A l \in 1..(m - 1) : b[l] = c[l]
  BY DEF RowLt
<1>3. CASE k <= m
  <2>1. a[k] < c[k] /\ \A l \in 1..(k - 1) : a[l] = c[l]
    BY <1>1, <1>2, <1>3
  <2> QED BY <2>1 DEF RowLt
<1>4. CASE m < k
  <2>1. a[m] < c[m] /\ \A l \in 1..(m - 1) : a[l] = c[l]
    BY <1>1, <1>2, <1>4
  <2> QED BY <2>1 DEF RowLt
<1> QED BY <1>3, <1>4

(* No row comes before itself. *)
LEMMA RowLtIrreflexive ==
  ASSUME NEW n \in Nat, NEW a \in [1..n -> Nat]
  PROVE  ~RowLt(a, a)
BY DEF RowLt

(* A row that does not come after one that does not come after a third. *)
LEMMA RowLeTransitive ==
  ASSUME NEW n \in Nat, NEW a \in [1..n -> Nat], NEW b \in [1..n -> Nat], NEW c \in [1..n -> Nat],
         ~RowLt(b, a), ~RowLt(c, b)
  PROVE  ~RowLt(c, a)
<1>1. (a = b \/ RowLt(a, b)) /\ (b = c \/ RowLt(b, c))
  BY RowsDiffer
<1>2. a = c \/ RowLt(a, c)
  BY <1>1, RowLtTransitive
<1>3. RowLt(c, a) => RowLt(a, a)
  BY <1>2, RowLtTransitive
<1> QED BY <1>3, RowLtIrreflexive

(* The same, of the rows of a table.                                        *)
LEMMA RowOrder ==
  ASSUME NEW w \in Nat
  PROVE  \A a, b, c \in Wide(w) :
           /\ ~RowLt(a, a)
           /\ RowLt(a, b) => ~RowLt(b, a)
           /\ ~RowLt(b, a) /\ ~RowLt(c, b) => ~RowLt(c, a)
<1> TAKE a, b, c \in Wide(w)
<1>1. PICK n \in Nat : n = w + 1
  OBVIOUS
<1>2. a \in [1..n -> Nat] /\ b \in [1..n -> Nat] /\ c \in [1..n -> Nat]
  BY <1>1 DEF Wide
<1>3. ~RowLt(a, a)
  BY <1>2, RowLtIrreflexive
<1>4. RowLt(a, b) => ~RowLt(b, a)
  BY <1>2, <1>3, RowLtTransitive
<1>5. ~RowLt(b, a) /\ ~RowLt(c, b) => ~RowLt(c, a)
  BY <1>2, RowLeTransitive
<1> QED BY <1>3, <1>4, <1>5

(* A row at most as large as one whose inputs are smaller has smaller       *)
(* inputs.                                                                  *)
LEMMA InputLessBelow ==
  ASSUME NEW n \in Nat, NEW w \in Nat, w = n + 1,
         NEW a \in [1..w -> Nat], NEW b \in [1..w -> Nat],
         NEW q \in [1..n -> Nat], ~RowLt(b, a), InputLess(b, q)
  PROVE  InputLess(a, q)
<1>1. PICK m \in 1..n : b[m] < q[m] /\ \A l \in 1..(m - 1) : b[l] = q[l]
  BY DEF InputLess
<1>2. CASE a = b
  BY <1>2
<1>3. CASE RowLt(a, b)
  <2>1. PICK k \in 1..w : a[k] < b[k] /\ \A l \in 1..(k - 1) : a[l] = b[l]
    BY <1>3 DEF RowLt
  <2>2. CASE k <= m
    <3>1. k \in 1..n /\ a[k] \in Nat /\ b[k] \in Nat /\ q[k] \in Nat
      BY <2>2
    <3>2. a[k] < q[k]
      BY <1>1, <2>1, <2>2, <3>1
    <3>3. \A l \in 1..(k - 1) : a[l] = q[l]
      BY <1>1, <2>1, <2>2, <3>1
    <3> QED BY <3>1, <3>2, <3>3 DEF InputLess
  <2>3. CASE m < k
    <3>1. a[m] < q[m] /\ \A l \in 1..(m - 1) : a[l] = q[l]
      BY <1>1, <2>1, <2>3
    <3> QED BY <3>1 DEF InputLess
  <2> QED BY <2>2, <2>3
<1> QED BY <1>2, <1>3, RowsDiffer

(* A row at least as large as one whose inputs are larger has larger        *)
(* inputs.                                                                  *)
LEMMA InputGreaterAbove ==
  ASSUME NEW n \in Nat, NEW w \in Nat, w = n + 1,
         NEW a \in [1..w -> Nat], NEW b \in [1..w -> Nat],
         NEW q \in [1..n -> Nat], ~RowLt(b, a), ~InputLess(a, q), ~InputEq(a, q)
  PROVE  ~InputLess(b, q) /\ ~InputEq(b, q)
<1>1. ~InputLess(b, q)
  BY InputLessBelow
<1>2. ASSUME InputEq(b, q) PROVE FALSE
  <2>1. a # b
    BY <1>2
  <2>2. RowLt(a, b)
    BY <2>1, RowsDiffer
  <2>3. PICK k \in 1..w : a[k] < b[k] /\ \A l \in 1..(k - 1) : a[l] = b[l]
    BY <2>2 DEF RowLt
  <2>4. \A l \in 1..n : b[l] = q[l]
    BY <1>2 DEF InputEq
  <2>5. CASE k <= n
    <3>1. a[k] < q[k] /\ \A l \in 1..(k - 1) : a[l] = q[l]
      BY <2>3, <2>4, <2>5
    <3>2. InputLess(a, q)
      BY <2>5, <3>1 DEF InputLess
    <3> QED BY <3>2
  <2>6. CASE k = w
    <3>1. InputEq(a, q)
      BY <2>3, <2>4, <2>6 DEF InputEq
    <3> QED BY <3>1
  <2> QED BY <2>5, <2>6
<1> QED BY <1>1, <1>2

-----------------------------------------------------------------------------
(* A set of positions is finite.                                            *)
LEMMA FinitePositions ==
  ASSUME NEW n \in Nat, NEW A \in SUBSET (1..n)
  PROVE  IsFiniteSet(A)
<1>1. IsFiniteSet(1..n)
  BY FS_Interval
<1> QED BY <1>1, FS_Subset

(* Exchanging two neighbours keeps how often each row occurs.               *)
LEMMA ExchangeKeeps ==
  ASSUME NEW n \in Nat, NEW s, NEW t, DOMAIN s = 1..n, DOMAIN t = 1..n,
         NEW m \in Nat, NEW o \in Nat, 1 <= m, o = m + 1, o <= n,
         t[m] = s[o], t[o] = s[m], \A k \in 1..n : k # m /\ k # o => t[k] = s[k],
         NEW row
  PROVE  Cardinality(Occurrences(t, row)) = Cardinality(Occurrences(s, row))
<1> DEFINE swap(k) == IF k = m THEN o ELSE IF k = o THEN m ELSE k
           A == Occurrences(t, row)
           Z == Occurrences(s, row)
           f == [k \in A |-> swap(k)]
<1>1. \A k \in 1..n : t[k] = s[swap(k)] /\ swap(k) \in 1..n /\ swap(swap(k)) = k
  OBVIOUS
<1>2. A = {k \in 1..n : s[swap(k)] = row} /\ Z = {k \in 1..n : s[k] = row}
  BY <1>1 DEF Occurrences
<1>3. f \in Bijection(A, Z)
  <2>1. f \in [A -> Z]
    BY <1>1, <1>2
  <2>2. \A k, l \in A : f[k] = f[l] => k = l
    BY <1>1, <1>2
  <2>3. \A l \in Z : \E k \in A : f[k] = l
    <3> TAKE l \in Z
    <3>1. swap(l) \in A /\ f[swap(l)] = l
      BY <1>1, <1>2
    <3> QED BY <3>1
  <2> HIDE DEF f
  <2> QED BY <2>1, <2>2, <2>3, Fun_IsBij
<1>4. IsFiniteSet(A)
  <2>1. A \in SUBSET (1..n)
    BY <1>2
  <2> HIDE DEF A
  <2> QED BY <2>1, FinitePositions
<1> QED
  BY <1>3, <1>4, FS_Bijection DEF ExistsBijection

(* A row occurs in a table exactly when it is counted.                      *)
LEMMA Occurs ==
  ASSUME NEW S, NEW s \in Seq(S), NEW row
  PROVE  /\ Cardinality(Occurrences(s, row)) \in Nat
         /\ Cardinality(Occurrences(s, row)) # 0 <=> \E k \in 1..Len(s) : s[k] = row
<1> DEFINE A == Occurrences(s, row)
<1>1. A = {k \in 1..Len(s) : s[k] = row} /\ Len(s) \in Nat
  BY DEF Occurrences
<1>2. IsFiniteSet(A)
  <2>1. A \in SUBSET (1..Len(s))
    BY <1>1
  <2> HIDE DEF A
  <2> QED BY <1>1, <2>1, FinitePositions
<1>3. Cardinality(A) \in Nat /\ (Cardinality(A) = 0 <=> A = {})
  BY <1>2, FS_CardinalityType, FS_EmptySet
<1> QED BY <1>1, <1>3

(* What the type of the table says of its parts. *)
LEMMA RowType ==
  ASSUME TableType
  PROVE  /\ lut.width \in Nat /\ lut.sorted \in BOOLEAN
         /\ lut.table \in Seq(Wide(lut.width)) /\ Len(lut.table) \in Nat
         /\ Len(given) \in Nat /\ DOMAIN given = 1..Len(given)
         /\ DOMAIN lut.table = 1..Len(lut.table)
         /\ \A k \in 1..Len(lut.table) : lut.table[k] \in Wide(lut.width)
         /\ \A k \in 1..Len(given) : given[k] \in Wide(lut.width)
BY DEF TableType

(* Every row given is in the table, and no other.                           *)
LEMMA TableHasRowsGiven ==
  ASSUME TableType, SameRows
  PROVE  /\ \A k \in 1..Len(lut.table) : \E m \in 1..Len(given) : given[m] = lut.table[k]
         /\ \A k \in 1..Len(given) : \E m \in 1..Len(lut.table) : lut.table[m] = given[k]
<1>1. ASSUME NEW k \in 1..Len(lut.table) PROVE \E m \in 1..Len(given) : given[m] = lut.table[k]
  <2> DEFINE row == lut.table[k]
  <2>1. Cardinality(Occurrences(lut.table, row)) # 0
    BY Occurs, RowType
  <2>2. row \in Range(lut.table)
    BY RowType DEF Range
  <2>3. Cardinality(Occurrences(given, row)) # 0
    BY <2>1, <2>2 DEF SameRows
  <2> HIDE DEF row
  <2>4. \E m \in 1..Len(given) : given[m] = row
    BY <2>3, Occurs DEF TableType
  <2> QED BY <2>4 DEF row
<1>2. ASSUME NEW k \in 1..Len(given) PROVE \E m \in 1..Len(lut.table) : lut.table[m] = given[k]
  <2> DEFINE row == given[k]
  <2>1. Cardinality(Occurrences(given, row)) # 0
    BY Occurs DEF TableType
  <2>2. row \in Range(given)
    BY RowType DEF Range
  <2>3. Cardinality(Occurrences(lut.table, row)) # 0
    BY <2>1, <2>2 DEF SameRows
  <2> HIDE DEF row
  <2>4. \E m \in 1..Len(lut.table) : lut.table[m] = row
    BY <2>3, Occurs, RowType
  <2> QED BY <2>4 DEF row
<1> QED BY <1>1, <1>2
-----------------------------------------------------------------------------
(* The invariant of the tables.                                             *)

(* The parts of the invariant of the tables make it up. *)
LEMMA Faithful ==
  ASSUME TableType, ControlType, Sorting, Ordered, Searching, SameRows, AnswersAreRight
  PROVE  LutInv
BY DEF LutInv, LookupIsFaithful, Sorting, Ordered, ControlType

(* No table is there at first. *)
LEMMA LutInitInv == LutInit => LutInv
<1> SUFFICES ASSUME LutInit PROVE LutInv
  OBVIOUS
<1>1. TableType /\ ControlType /\ Sorting /\ Ordered /\ Searching /\ SameRows /\ AnswersAreRight
  BY DEF LutInit, NoLut, NoAnswer, TableType, ControlType, Sorting, Ordered, Searching, SameRows,
         AnswersAreRight, Range
<1> QED BY <1>1, Faithful

(* A new table has the rows given, and is not sorted. *)
LEMMA NewKeeps ==
  ASSUME LutInv, NEW w \in Nat, NEW rows, New(w, rows),
         w # 0 /\ (\A k \in DOMAIN rows : Len(rows[k]) = w + 1) => rows \in Seq(Wide(w))
  PROVE  LutInv'
<1>1. CASE w = 0 \/ \E k \in DOMAIN rows : Len(rows[k]) # w + 1
  <2>1. answer' = [status |-> "InvalidInput", out |-> 0] /\ at' = "none"
        /\ UNCHANGED <<lut, given, i, j, lo, hi, query>> /\ at = "none"
    BY <1>1 DEF New
  <2>2. TableType' /\ SameRows' /\ Ordered'
    BY <2>1 DEF LutInv, LookupIsFaithful, TableType, SameRows, Ordered, InOrder, Wide, Occurrences
  <2>3. ControlType' /\ Sorting' /\ Searching' /\ AnswersAreRight'
    BY <2>1 DEF LutInv, ControlType, Sorting, Searching, AnswersAreRight
  <2> QED BY <2>2, <2>3, Faithful, PTL
<1>2. CASE ~(w = 0 \/ \E k \in DOMAIN rows : Len(rows[k]) # w + 1)
  <2>1. /\ lut' = [width |-> w, table |-> rows, sorted |-> FALSE]
        /\ given' = rows /\ at' = "idle" /\ answer' = NoAnswer
        /\ UNCHANGED <<i, j, lo, hi, query>> /\ rows \in Seq(Wide(w))
    BY <1>2 DEF New
  <2>2. TableType' /\ SameRows' /\ Ordered'
    BY <2>1 DEF TableType, SameRows, Ordered, Wide, Occurrences
  <2>3. ControlType' /\ Sorting' /\ Searching' /\ AnswersAreRight'
    BY <2>1 DEF LutInv, ControlType, Sorting, Searching, AnswersAreRight, NoAnswer
  <2> QED BY <2>2, <2>3, Faithful, PTL
<1> QED BY <1>1, <1>2

(* What leaves the table alone.                                             *)
LEMMA TableKept ==
  ASSUME TableType, SameRows, UNCHANGED <<lut, given>>
  PROVE  TableType' /\ SameRows'
BY DEF TableType, SameRows, Wide, Occurrences

(* Sorting starts with the first row. *)
LEMMA SortKeeps ==
  ASSUME LutInv, Sort
  PROVE  LutInv'
<1>1. TableType' /\ SameRows' /\ Ordered'
  <2>1. at' = "sort" /\ UNCHANGED <<lut, given>>
    BY DEF Sort
  <2>2. TableType /\ SameRows
    BY DEF LutInv, LookupIsFaithful
  <2>3. TableType' /\ SameRows'
    BY <2>1, <2>2, TableKept
  <2>4. Ordered'
    BY <2>1 DEF Ordered
  <2> QED BY <2>3, <2>4
<1>2. ControlType' /\ Searching' /\ AnswersAreRight'
  BY DEF LutInv, Sort, ControlType, Searching, AnswersAreRight, NoAnswer
<1>3. Sorting'
  <2>1. i' = 1 /\ j' = 1 /\ lut' = lut
    BY DEF Sort
  <2>2. Len(lut.table) \in Nat
    BY DEF LutInv, TableType
  <2>3. InOrder(2, 2)'
    <3>1. ASSUME NEW k \in 1..Len(lut.table), NEW l \in 1..Len(lut.table), k < l, l <= 2
          PROVE  2 \in {k, l}
      BY <2>2, <3>1
    <3> QED BY <2>1, <3>1 DEF InOrder
  <2>4. InOrder(i + 1, j + 1)'
    BY <2>1, <2>3
  <2>5. \A l \in 3..2 : FALSE
    OBVIOUS
  <2> QED BY <2>1, <2>2, <2>4, <2>5 DEF Sorting
<1> QED BY <1>1, <1>2, <1>3, Faithful, PTL

(* An exchange of neighbours keeps the rows, and the row that moves below what it passed. *)
LEMMA ExchangeKeepsInv ==
  ASSUME LutInv, Exchange
  PROVE  LutInv'
<1> DEFINE s == lut.table
           t == lut'.table
           x == s[j + 1]
           y == s[j]
<1>1. /\ at = "sort" /\ i < Len(s) /\ j > 0 /\ RowLt(x, y) /\ j' = j - 1
      /\ UNCHANGED <<given, at, i, lo, hi, query, answer>>
  BY DEF Exchange
<1>2. /\ TableType /\ i \in Nat /\ j \in Nat /\ j <= i /\ 1 <= i /\ answer = NoAnswer
      /\ InOrder(i + 1, j + 1)
      /\ \A l \in (j + 2)..(i + 1) : l <= Len(s) => ~RowLt(s[l], x)
  BY <1>1 DEF LutInv, ControlType, Sorting
<1>3. /\ s \in Seq(Wide(lut.width)) /\ lut.width \in Nat /\ Len(s) \in Nat
      /\ j \in 1..Len(s) /\ j + 1 \in 1..Len(s)
      /\ \A k \in 1..Len(s) : s[k] \in Wide(lut.width)
  BY <1>1, <1>2, RowType
<1>4. lut' = [lut EXCEPT !.table = t] /\ t = [s EXCEPT ![j] = s[j + 1], ![j + 1] = s[j]]
  BY <1>2 DEF Exchange, TableType
<1>5. /\ t \in Seq(Wide(lut.width)) /\ Len(t) = Len(s) /\ t[j] = x /\ t[j + 1] = y
      /\ \A k \in 1..Len(s) : k # j /\ k # j + 1 => t[k] = s[k]
  BY <1>3, <1>4
<1>5a. \A row : Cardinality(Occurrences(t, row)) = Cardinality(Occurrences(s, row))
  <2>1. PICK n \in Nat, m \in Nat, o \in Nat : n = Len(s) /\ m = j /\ o = j + 1
    BY <1>2, <1>3
  <2>2. /\ DOMAIN s = 1..n /\ DOMAIN t = 1..n /\ 1 <= m /\ o = m + 1 /\ o <= n
        /\ t[m] = s[o] /\ t[o] = s[m] /\ \A k \in 1..n : k # m /\ k # o => t[k] = s[k]
    BY <1>3, <1>5, <2>1
  <2> HIDE DEF s, t
  <2> QED BY <2>2, ExchangeKeeps
<1>6. lut'.width = lut.width /\ lut'.sorted = lut.sorted /\ lut' \in [width : Nat, table : Seq(Wide(lut.width)), sorted : BOOLEAN]
  BY <1>2, <1>4, <1>5 DEF TableType
<1>7. TableType'
  BY <1>1, <1>2, <1>6 DEF TableType, Wide
<1>8. SameRows'
  <2> SUFFICES ASSUME NEW row \in Range(t) \cup Range(given)
               PROVE  Cardinality(Occurrences(t, row)) = Cardinality(Occurrences(given, row))
    <3>1. Range(lut.table)' = Range(t) /\ Range(given)' = Range(given)
      BY <1>1 DEF Range
    <3>2. \A row : Occurrences(lut.table, row)' = Occurrences(t, row)
                /\ Occurrences(given, row)' = Occurrences(given, row)
      BY <1>1 DEF Occurrences
    <3> HIDE DEF s, t
    <3> QED BY <3>1, <3>2 DEF SameRows
  <2>1. row \in Range(s) \cup Range(given)
    <3>1. DOMAIN t = DOMAIN s /\ \A k \in DOMAIN s : \E l \in DOMAIN s : t[k] = s[l]
      BY <1>3, <1>5
    <3> HIDE DEF s, t
    <3> QED BY <3>1 DEF Range
  <2> QED BY <1>5a, <2>1 DEF LutInv, LookupIsFaithful, SameRows
<1>9. Sorting'
  <2>1. ~RowLt(y, x)
    <3>1. x \in Wide(lut.width) /\ y \in Wide(lut.width) /\ RowLt(x, y)
      BY <1>1, <1>3
    <3> HIDE DEF x, y
    <3> QED BY <1>3, <3>1, RowOrder
  <2>2. ASSUME NEW k \in 1..Len(s), NEW l \in 1..Len(s), k < l, l <= i + 1, k # j, l # j
        PROVE  ~RowLt(t[l], t[k])
    <3>1. CASE k # j + 1 /\ l # j + 1
      BY <1>2, <1>5, <2>2, <3>1 DEF InOrder
    <3>2. CASE k = j + 1
      <4>1. t[k] = s[j] /\ t[l] = s[l] /\ j < l /\ l # j + 1
        BY <1>3, <1>5, <2>2, <3>2
      <4> QED BY <1>2, <1>3, <2>2, <4>1 DEF InOrder
    <3>3. CASE l = j + 1
      <4>1. t[k] = s[k] /\ t[l] = s[j] /\ k < j /\ j <= i + 1
        BY <1>2, <1>3, <1>5, <2>2, <3>3
      <4> QED BY <1>2, <1>3, <2>2, <4>1 DEF InOrder
    <3> QED BY <3>1, <3>2, <3>3
  <2>3. InOrder(i + 1, j + 1)'
    BY <1>1, <1>3, <1>5, <2>2 DEF InOrder
  <2>4. ASSUME NEW l \in (j + 1)..(i + 1), l <= Len(s) PROVE ~RowLt(t[l], t[j])
    <3>1. CASE l = j + 1
      BY <1>5, <2>1, <3>1
    <3>2. CASE l # j + 1
      BY <1>2, <1>3, <1>5, <2>4, <3>2
    <3> QED BY <3>1, <3>2
  <2>5. j' + 2 = j + 1 /\ j' + 1 = j /\ i' = i /\ Len(lut'.table) = Len(s) /\ j' <= i
    BY <1>1, <1>2, <1>5
  <2> QED BY <1>1, <1>2, <2>3, <2>4, <2>5 DEF Sorting
<1>10. ControlType' /\ Ordered' /\ Searching' /\ AnswersAreRight'
  BY <1>1, <1>2 DEF LutInv, ControlType, Ordered, Searching, AnswersAreRight
<1> QED BY <1>7, <1>8, <1>9, <1>10, Faithful, PTL

(* A row that met one not above it is where it belongs: one more row is in order. *)
LEMMA NextRowKeeps ==
  ASSUME LutInv, NextRow
  PROVE  LutInv'
<1> DEFINE s == lut.table
<1>1. /\ at = "sort" /\ i < Len(s) /\ i' = i + 1 /\ j' = i + 1
      /\ j > 0 => ~RowLt(s[j + 1], s[j])
      /\ UNCHANGED <<lut, given, at, lo, hi, query, answer>>
  BY DEF NextRow
<1>2. /\ TableType /\ i \in Nat /\ j \in Nat /\ j <= i /\ 1 <= i /\ answer = NoAnswer
      /\ InOrder(i + 1, j + 1)
      /\ \A l \in (j + 2)..(i + 1) : l <= Len(s) => ~RowLt(s[l], s[j + 1])
  BY <1>1 DEF LutInv, ControlType, Sorting
<1>3. /\ lut.width \in Nat /\ Len(s) \in Nat
      /\ \A k \in 1..Len(s) : s[k] \in [1..(lut.width + 1) -> Nat]
  BY <1>2, RowType DEF Wide
<1>4. TableType' /\ SameRows' /\ Ordered'
  BY <1>1 DEF LutInv, LookupIsFaithful, TableType, SameRows, Ordered, Wide, Occurrences
<1>5. ControlType' /\ Searching' /\ AnswersAreRight'
  BY <1>1, <1>2 DEF LutInv, ControlType, Searching, AnswersAreRight
<1>6. ASSUME NEW k \in 1..Len(s), NEW l \in 1..Len(s), k < l, l <= i + 1
      PROVE  ~RowLt(s[l], s[k])
  <2>1. CASE k # j + 1 /\ l # j + 1
    BY <1>2, <1>6, <2>1 DEF InOrder
  <2>2. CASE k = j + 1
    BY <1>2, <1>6, <2>2
  <2>3. CASE l = j + 1 /\ k = j
    BY <1>1, <1>2, <2>3
  <2>4. CASE l = j + 1 /\ k < j
    <3>1. ~RowLt(s[j], s[k]) /\ j \in 1..Len(s)
      <4>1. j \in 1..Len(s) /\ j <= i + 1 /\ j # j + 1 /\ k # j + 1
        BY <1>1, <1>2, <1>3, <1>6, <2>4
      <4> QED BY <1>2, <2>4, <4>1 DEF InOrder
    <3>2. ~RowLt(s[j + 1], s[j])
      BY <1>1, <1>2, <2>4
    <3>3. s[k] \in Wide(lut.width) /\ s[j] \in Wide(lut.width) /\ s[j + 1] \in Wide(lut.width)
      BY <1>3, <1>6, <2>4, <3>1 DEF Wide
    <3>4. ~RowLt(s[j + 1], s[k])
      <4> HIDE DEF s
      <4> QED BY <1>3, <3>1, <3>2, <3>3, RowOrder
    <3> QED BY <2>4, <3>4
  <2> QED BY <1>2, <1>6, <2>1, <2>2, <2>3, <2>4
<1>7. Sorting'
  BY <1>1, <1>2, <1>3, <1>6 DEF Sorting, InOrder
<1> QED BY <1>4, <1>5, <1>7, Faithful, PTL

(* Past the last row the whole table is in order. *)
LEMMA SortedKeeps ==
  ASSUME LutInv, Sorted
  PROVE  LutInv'
<1> DEFINE s == lut.table
<1>1. /\ at = "sort" /\ i >= Len(s) /\ at' = "idle"
      /\ UNCHANGED <<given, i, j, lo, hi, query, answer>>
  BY DEF Sorted
<1>2. /\ TableType /\ i \in Nat /\ 1 <= i /\ j = i /\ (i > 1 => i <= Len(s)) /\ answer = NoAnswer
      /\ InOrder(i + 1, j + 1)
  BY <1>1, RowType DEF LutInv, ControlType, Sorting
<1>3. /\ lut'.table = s /\ lut'.width = lut.width /\ lut'.sorted = TRUE
      /\ lut' \in [width : Nat, table : Seq(Wide(lut.width)), sorted : BOOLEAN]
  BY <1>2 DEF Sorted, TableType
<1>4. TableType' /\ SameRows'
  BY <1>1, <1>2, <1>3 DEF LutInv, LookupIsFaithful, TableType, SameRows, Wide, Occurrences
<1>5. Ordered'
  <2>1. \A k, l \in 1..Len(s) : k < l => ~RowLt(s[l], s[k])
    BY <1>1, <1>2, RowType DEF InOrder
  <2> QED BY <1>1, <1>3, <2>1 DEF Ordered, InOrder
<1>6. ControlType' /\ Sorting' /\ Searching' /\ AnswersAreRight'
  BY <1>1, <1>2 DEF LutInv, ControlType, Sorting, Searching, AnswersAreRight
<1> QED BY <1>4, <1>5, <1>6, Faithful, PTL

(* The rows that match a query depend on the table and the query. *)
LEMMA HitsKept ==
  ASSUME UNCHANGED <<lut, given, query>>
  PROVE  Hits' = Hits /\ Outs' = Outs
BY DEF Hits, Outs, InputEq

(* A scan answers with the first matching row, a search starts with the whole table. *)
LEMMA LookupKeeps ==
  ASSUME LutInv, NEW n \in Nat, NEW inputs \in [1..n -> Nat],
         NEW claim \in [asserted : BOOLEAN, out : Nat], Lookup(inputs, claim)
  PROVE  LutInv'
<1> DEFINE R == Wide(lut.width)
<1>1. /\ at = "idle" /\ query' = [inputs |-> inputs, claim |-> claim]
      /\ UNCHANGED <<lut, given, i, j>> /\ inputs \in Seq(Nat)
      /\ query' \in [inputs : Seq(Nat), claim : [asserted : BOOLEAN, out : Nat]]
  BY DEF Lookup
<1>2. TableType /\ TableType' /\ SameRows' /\ Sorting' /\ Ordered /\ Ordered'
  <2>1. TableType' /\ SameRows'
    BY <1>1, TableKept DEF LutInv, LookupIsFaithful
  <2>2. at' # "sort"
    BY <1>1 DEF Lookup
  <2> QED BY <1>1, <2>1, <2>2 DEF LutInv, Sorting, Ordered, InOrder
<1>3. CASE lut.sorted /\ Len(inputs) = lut.width
  <2>1. at' = "search" /\ lo' = 0 /\ hi' = Len(lut.table) /\ answer' = answer /\ answer = NoAnswer
    BY <1>3 DEF Lookup
  <2>2. ControlType' /\ Searching' /\ AnswersAreRight'
    BY <1>1, <1>2, <1>3, <2>1, RowType DEF LutInv, ControlType, Searching, AnswersAreRight
  <2> QED BY <1>2, <2>2, Faithful, PTL
<1>4. CASE Len(inputs) # lut.width
  <2>1. UNCHANGED <<at, lo, hi>> /\ answer' = [status |-> "InvalidInput", out |-> 0]
    BY <1>4 DEF Lookup, Refuse
  <2>2. ControlType' /\ Searching' /\ AnswersAreRight'
    BY <1>1, <1>2, <1>4, <2>1 DEF LutInv, ControlType, Searching, AnswersAreRight, NoAnswer
  <2> QED BY <1>2, <2>2, Faithful, PTL
<1>5. CASE ~lut.sorted /\ Len(inputs) = lut.width
  <2> DEFINE hits == {k \in DOMAIN given : InputEq(given[k], inputs)}
             out == given[Min(hits)][lut.width + 1]
  <2>1. /\ UNCHANGED <<at, lo, hi>> /\ lut.table = given
        /\ answer' = Against(claim, Scan(inputs))
    BY <1>1, <1>2, <1>5 DEF Lookup, Ordered
  <2>2. Scan(inputs) = IF hits = {} THEN Refuse("ConstraintUnsatisfied")
                       ELSE [status |-> "ok", out |-> out]
    BY <2>1 DEF Scan, Found
  <2>3. hits # {} => Min(hits) \in hits /\ out \in Nat
    <3>1. hits \in SUBSET Nat /\ \A k \in hits : given[k] \in R
      BY <1>2, RowType
    <3>2. hits # {} => Min(hits) \in hits
      <4> HIDE DEF hits
      <4> QED BY <3>1, LeastElement DEF Min
    <3>3. lut.width + 1 \in 1..(lut.width + 1)
      BY <1>2, RowType
    <3>4. hits # {} => given[Min(hits)] \in [1..(lut.width + 1) -> Nat]
      BY <3>1, <3>2 DEF Wide
    <3> HIDE DEF hits
    <3> QED BY <3>2, <3>3, <3>4
  <2>4. answer' \in [status : {"none", "ok", "InvalidInput", "ConstraintUnsatisfied"}, out : Nat]
        /\ answer'.status \in {"ok", "ConstraintUnsatisfied"}
    BY <2>1, <2>2, <2>3 DEF Against, Refuse
  <2>5. ControlType' /\ Searching'
    BY <1>1, <2>1, <2>4 DEF LutInv, ControlType, Searching, NoAnswer
  <2>6. AnswersAreRight'
    <3>1. Hits' = hits /\ Outs' = {given[k][lut.width + 1] : k \in hits}
      BY <1>1 DEF Hits, Outs, InputEq
    <3>2. hits # {} => out \in Outs'
      BY <2>3, <3>1
    <3>3. /\ query'.inputs = inputs /\ query'.claim = claim /\ lut' = lut /\ given' = given
          /\ Len(inputs) = lut.width
      BY <1>1, <1>5
    <3>4. CASE claim.asserted
      <4>1. answer'.status = "ok" => claim.out \in Outs'
        BY <2>1, <2>2, <3>2, <3>4 DEF Against, Refuse
      <4>2. Outs' = {claim.out} => answer'.status = "ok"
        <5>1. Outs' = {claim.out} => hits # {} /\ out = claim.out
          BY <3>1, <3>2
        <5> HIDE DEF hits, out
        <5> QED BY <2>1, <2>2, <5>1 DEF Against
      <4> QED BY <3>3, <3>4, <4>1, <4>2 DEF AnswersAreRight
    <3>5. CASE ~claim.asserted
      <4>1. /\ answer'.status = "ok" <=> Hits' # {}
            /\ Hits' # {} => answer'.out = given[Min(Hits')][lut.width + 1]
        BY <2>1, <2>2, <3>1, <3>5 DEF Against, Refuse
      <4>2. Hits' # {} => answer'.out \in Outs'
        BY <3>1, <3>2, <4>1
      <4> QED BY <3>3, <3>5, <4>1, <4>2 DEF AnswersAreRight
    <3> QED BY <3>4, <3>5
  <2> QED BY <1>2, <2>5, <2>6, Faithful, PTL
<1> QED BY <1>3, <1>4, <1>5

(* A search that meets a row with the inputs, at row p.                     *)
LEMMA ProbeHits ==
  ASSUME LutInv, at = "search", NEW p \in 1..Len(lut.table),
         InputEq(lut.table[p], query.inputs),
         at' = "idle", answer' = Against(query.claim, Found(lut.table[p])),
         UNCHANGED <<lut, given, i, j, lo, hi, query>>
  PROVE  LutInv'
<1> DEFINE out == lut.table[p][lut.width + 1]
<1>1. /\ TableType /\ SameRows /\ lut.sorted /\ Len(query.inputs) = lut.width
      /\ query \in [inputs : Seq(Nat), claim : [asserted : BOOLEAN, out : Nat]]
      /\ Ordered
  BY DEF LutInv, LookupIsFaithful, Searching, ControlType
<1>2. out \in Outs /\ Hits # {} /\ out \in Nat
  <2>1. PICK m \in 1..Len(given) : given[m] = lut.table[p]
    BY <1>1, TableHasRowsGiven
  <2>2. m \in Hits
    BY <1>1, <2>1, RowType DEF Hits
  <2>3. out \in Outs
    BY <2>1, <2>2 DEF Outs
  <2>4. out \in Nat
    <3>1. lut.width + 1 \in 1..(lut.width + 1) /\ lut.table[p] \in [1..(lut.width + 1) -> Nat]
      BY <1>1, RowType DEF Wide
    <3> QED BY <3>1
  <2> QED BY <2>2, <2>3, <2>4
<1>3. answer' = IF query.claim.asserted /\ out # query.claim.out THEN Refuse("ConstraintUnsatisfied")
                ELSE [status |-> "ok", out |-> out]
  BY DEF Against, Found
<1>4. TableType' /\ SameRows' /\ Sorting' /\ Ordered' /\ Searching'
  BY <1>1, TableKept DEF Sorting, Ordered, Searching, InOrder
<1>5. ControlType'
  BY <1>1, <1>2, <1>3 DEF LutInv, ControlType, Refuse, NoAnswer
<1>6. AnswersAreRight'
  <2>1. answer'.status = "ok" <=> (query.claim.asserted => out = query.claim.out)
    BY <1>1, <1>3 DEF Refuse
  <2>2. ~query.claim.asserted => answer'.out = out
    BY <1>1, <1>3
  <2>3. Hits' = Hits /\ Outs' = Outs
    BY HitsKept
  <2> HIDE DEF out
  <2> QED BY <1>1, <1>2, <2>1, <2>2, <2>3 DEF AnswersAreRight
<1> QED BY <1>4, <1>5, <1>6, Faithful, PTL

(* A probe answers, or drops the half that cannot match. *)
LEMMA ProbeKeeps ==
  ASSUME LutInv, Probe
  PROVE  LutInv'
<1> DEFINE p == Mid + 1
           row == lut.table[p]
<1>1. /\ at = "search" /\ lo < hi /\ UNCHANGED <<lut, given, i, j, query>>
  BY DEF Probe
<1>2. /\ TableType /\ SameRows /\ lut.sorted /\ Len(query.inputs) = lut.width
      /\ query.inputs \in Seq(Nat) /\ lo \in Nat /\ hi \in Nat /\ hi <= Len(lut.table)
      /\ \A k \in 1..lo : InputLess(lut.table[k], query.inputs)
      /\ \A k \in (hi + 1)..Len(lut.table) :
            ~InputLess(lut.table[k], query.inputs) /\ ~InputEq(lut.table[k], query.inputs)
      /\ Ordered
  BY <1>1 DEF LutInv, LookupIsFaithful, Searching, ControlType
<1>3. Mid \in Nat /\ lo <= Mid /\ Mid < hi /\ p \in 1..Len(lut.table) /\ Len(lut.table) \in Nat
  <2>1. Mid \in Nat /\ lo <= Mid /\ Mid < hi
    BY <1>1, <1>2 DEF Mid
  <2>2. Len(lut.table) \in Nat
    BY <1>2, RowType
  <2> QED BY <1>2, <2>1, <2>2
<1>4. CASE InputEq(row, query.inputs)
  <2>1. at' = "idle" /\ answer' = Against(query.claim, Found(row)) /\ UNCHANGED <<lo, hi>>
    BY <1>4 DEF Probe
  <2> HIDE DEF p
  <2> QED BY <1>1, <1>3, <1>4, <2>1, ProbeHits
<1>5. CASE ~InputEq(row, query.inputs)
  <2>1. /\ UNCHANGED <<at, answer>>
        /\ IF InputLess(row, query.inputs) THEN lo' = Mid + 1 /\ hi' = hi
                                           ELSE hi' = Mid /\ lo' = lo
    BY <1>5 DEF Probe
  <2>2. TableType' /\ SameRows' /\ Ordered'
    BY <1>1, <1>2, <2>1, TableKept DEF Ordered, InOrder
  <2>3. ControlType' /\ Sorting' /\ AnswersAreRight'
    BY <1>1, <1>2, <1>3, <2>1 DEF LutInv, ControlType, Sorting, AnswersAreRight
  <2>4. PICK n \in Nat, w \in Nat : n = lut.width /\ w = n + 1
    BY <1>2, RowType
  <2>5. /\ query.inputs \in [1..n -> Nat]
        /\ \A k \in 1..Len(lut.table) : lut.table[k] \in [1..w -> Nat]
        /\ \A k, l \in 1..Len(lut.table) : k < l => ~RowLt(lut.table[l], lut.table[k])
    BY <1>1, <1>2, <2>4, RowType DEF Wide, Ordered, InOrder
  <2>6. CASE InputLess(row, query.inputs)
    <3>1. ASSUME NEW k \in 1..(Mid + 1) PROVE InputLess(lut.table[k], query.inputs)
      <4>1. CASE k = p
        BY <2>6, <4>1
      <4>2. CASE k # p
        <5>1. k \in 1..Len(lut.table) /\ k < p
          BY <1>3, <4>2
        <5>2. ~RowLt(row, lut.table[k]) /\ row \in [1..w -> Nat] /\ lut.table[k] \in [1..w -> Nat]
          BY <1>3, <2>5, <5>1
        <5> HIDE DEF row
        <5> QED BY <2>4, <2>5, <2>6, <5>2, InputLessBelow
      <4> QED BY <4>1, <4>2
    <3>2. /\ lut' = lut /\ query' = query /\ at' = at /\ lo' = Mid + 1 /\ hi' = hi
          /\ \A k \in 1..lo' : InputLess(lut.table[k], query.inputs)
      BY <1>1, <2>1, <2>6, <3>1
    <3>3. Searching'
      BY <1>2, <1>3, <3>2 DEF Searching, InputLess, InputEq
    <3> QED BY <2>2, <2>3, <3>3, Faithful, PTL
  <2>7. CASE ~InputLess(row, query.inputs)
    <3>1. ASSUME NEW k \in (Mid + 1)..Len(lut.table)
          PROVE  ~InputLess(lut.table[k], query.inputs) /\ ~InputEq(lut.table[k], query.inputs)
      <4>1. CASE k = p
        BY <1>5, <2>7, <4>1
      <4>2. CASE k # p
        <5>1. k \in 1..Len(lut.table) /\ p < k
          BY <1>3, <4>2
        <5>2. ~RowLt(lut.table[k], row) /\ row \in [1..w -> Nat] /\ lut.table[k] \in [1..w -> Nat]
          BY <1>3, <2>5, <5>1
        <5> HIDE DEF row
        <5> QED BY <1>5, <2>4, <2>5, <2>7, <5>2, InputGreaterAbove
      <4> QED BY <4>1, <4>2
    <3>2. Searching'
      BY <1>1, <1>2, <1>3, <2>1, <2>7, <3>1 DEF Searching, InputLess, InputEq
    <3> QED BY <2>2, <2>3, <3>2, Faithful, PTL
  <2> QED BY <2>6, <2>7
<1> QED BY <1>4, <1>5

(* When no row is left to search, no row of the table matches. *)
LEMMA NotFoundKeeps ==
  ASSUME LutInv, NotFound
  PROVE  LutInv'
<1>1. /\ at = "search" /\ lo >= hi /\ at' = "idle"
      /\ answer' = [status |-> "ConstraintUnsatisfied", out |-> 0]
      /\ UNCHANGED <<lut, given, i, j, lo, hi, query>>
  BY DEF NotFound, Refuse
<1>2. /\ TableType /\ SameRows /\ Ordered /\ lut.sorted /\ Len(query.inputs) = lut.width
      /\ query \in [inputs : Seq(Nat), claim : [asserted : BOOLEAN, out : Nat]]
      /\ lo = hi /\ lo \in Nat /\ hi <= Len(lut.table)
      /\ \A k \in 1..lo : InputLess(lut.table[k], query.inputs)
      /\ \A k \in (hi + 1)..Len(lut.table) :
            ~InputLess(lut.table[k], query.inputs) /\ ~InputEq(lut.table[k], query.inputs)
  BY <1>1 DEF LutInv, LookupIsFaithful, Searching, ControlType
<1>3. Hits = {} /\ Outs = {}
  <2>1. ASSUME NEW k \in 1..Len(lut.table) PROVE ~InputEq(lut.table[k], query.inputs)
    <3>1. k \in 1..lo \/ k \in (hi + 1)..Len(lut.table)
      BY <1>2, RowType
    <3>2. CASE k \in 1..lo
      <4>1. PICK c \in DOMAIN query.inputs : lut.table[k][c] < query.inputs[c]
        BY <1>2, <3>2 DEF InputLess
      <4>2. query.inputs[c] \in Nat
        BY <1>2
      <4>3. lut.table[k][c] # query.inputs[c]
        BY <4>1, <4>2
      <4> QED BY <4>3 DEF InputEq
    <3> QED BY <1>2, <3>1, <3>2
  <2>2. \A k \in DOMAIN given : \E m \in 1..Len(lut.table) : lut.table[m] = given[k]
    BY <1>2, RowType, TableHasRowsGiven
  <2> QED BY <2>1, <2>2 DEF Hits, Outs
<1>4. TableType' /\ SameRows' /\ Ordered' /\ Sorting' /\ Searching'
  BY <1>1, <1>2, TableKept DEF Ordered, Sorting, Searching, InOrder
<1>5. ControlType'
  BY <1>1, <1>2 DEF LutInv, ControlType, NoAnswer
<1>6. AnswersAreRight'
  <2>1. Hits' = {} /\ Outs' = {}
    BY <1>1, <1>3, HitsKept
  <2> QED BY <1>1, <1>2, <2>1 DEF AnswersAreRight
<1> QED BY <1>4, <1>5, <1>6, Faithful, PTL

(* Taking an answer leaves the table. *)
LEMMA TakeAnswerKeeps ==
  ASSUME LutInv, TakeAnswer
  PROVE  LutInv'
<1>1. /\ answer # NoAnswer /\ answer' = NoAnswer /\ lo' = 0 /\ hi' = 0
      /\ UNCHANGED <<lut, given, at, i, j>> /\ at \in {"none", "idle"}
  BY DEF LutInv, TakeAnswer, ControlType
<1>2. TableType' /\ SameRows' /\ Ordered' /\ Sorting' /\ Searching'
  BY <1>1, TableKept DEF LutInv, LookupIsFaithful, Ordered, Sorting, Searching, InOrder
<1>3. ControlType' /\ AnswersAreRight'
  BY <1>1 DEF LutInv, ControlType, AnswersAreRight, NoAnswer
<1> QED BY <1>2, <1>3, Faithful, PTL

(* Dropping the table leaves none. *)
LEMMA DropKeeps ==
  ASSUME LutInv, Drop
  PROVE  LutInv'
<1>1. TableType' /\ SameRows' /\ Ordered' /\ Sorting' /\ Searching'
  BY DEF Drop, NoLut, TableType, SameRows, Ordered, Sorting, Searching, InOrder, Occurrences, Range
<1>2. ControlType' /\ AnswersAreRight'
  BY DEF LutInv, Drop, ControlType, AnswersAreRight, NoAnswer, NoLut
<1> QED BY <1>1, <1>2, Faithful, PTL

(* Steps of others leave the table and its search. *)
LEMMA LutStutter ==
  ASSUME LutInv, UNCHANGED lutVars
  PROVE  LutInv'
<1>1. TableType' /\ SameRows' /\ Ordered' /\ Sorting' /\ Searching'
  BY TableKept DEF LutInv, LookupIsFaithful, lutVars, Ordered, Sorting, Searching, InOrder
<1>2. ControlType' /\ AnswersAreRight'
  BY HitsKept DEF LutInv, LookupIsFaithful, lutVars, ControlType, AnswersAreRight
<1> QED BY <1>1, <1>2, Faithful, PTL

(* The tables a caller builds: rows it gives, a range, a gate.               *)
LEMMA RowsGiven ==
  ASSUME NEW w \in Widths, NEW cols \in Widths, NEW rows \in BoundedSeq(Rows(cols), MaxRows),
         \A k \in DOMAIN rows : Len(rows[k]) = w + 1
  PROVE  rows \in Seq(Wide(w))
<1>1. w \in Nat /\ cols \in Nat /\ MaxRows \in Nat /\ Words \subseteq Nat
  BY LutAssumption
<1>2. PICK n \in Nat : rows \in [1..n -> Rows(cols)]
  BY <1>1 DEF BoundedSeq, SeqOf
<1>3. ASSUME NEW k \in 1..n PROVE rows[k] \in Wide(w)
  <2>1. rows[k] \in [1..(cols + 1) -> Words]
    BY <1>2 DEF Rows
  <2>2. Len(rows[k]) = cols + 1
    BY <1>1, <2>1
  <2>3. cols = w
    BY <1>1, <1>2, <2>2
  <2> QED BY <1>1, <2>1, <2>3 DEF Wide
<1> QED BY <1>2, <1>3

(* The rows of range_lut are rows. *)
LEMMA RangeRows ==
  ASSUME NEW max \in Nat
  PROVE  [k \in 1..(max + 1) |-> <<k - 1, 1>>] \in Seq(Wide(1))
<1>1. ASSUME NEW k \in 1..(max + 1) PROVE <<k - 1, 1>> \in [1..2 -> Nat]
  OBVIOUS
<1>2. max + 1 \in Nat /\ Wide(1) = [1..2 -> Nat]
  BY DEF Wide
<1> QED BY <1>1, <1>2

(* The rows of binary_gate_lut are rows. *)
LEMMA GateRows ==
  ASSUME NEW op \in {"and", "or", "xor"}
  PROVE  TruthTable(op) \in Seq(Wide(2))
<1>1. Wide(2) = [1..3 -> Nat]
  BY DEF Wide
<1>2. \A a, b, c \in Nat : <<a, b, c>> \in [1..3 -> Nat]
  OBVIOUS
<1> QED BY <1>1, <1>2 DEF TruthTable

(* No action breaks the invariant.                                          *)
LEMMA LutInvStep ==
  ASSUME LutInv, [LutNext]_lutVars
  PROVE  LutInv'
<1>1. ASSUME NEW w \in Widths, NEW cols \in Widths, NEW rows \in BoundedSeq(Rows(cols), MaxRows),
             New(w, rows)
      PROVE  LutInv'
  BY <1>1, LutAssumption, RowsGiven, NewKeeps
<1>2. ASSUME NEW max \in Words, RangeLut(max) PROVE LutInv'
  BY <1>2, LutAssumption, RangeRows, NewKeeps DEF RangeLut
<1>3. ASSUME NEW op \in {"and", "or", "xor"}, BinaryGateLut(op) PROVE LutInv'
  BY <1>3, GateRows, NewKeeps DEF BinaryGateLut
<1>4. ASSUME NEW n \in Widths, NEW inputs \in [1..n -> Words], NEW claim \in Claims,
             Lookup(inputs, claim)
      PROVE  LutInv'
  <2>1. n \in Nat /\ inputs \in [1..n -> Nat]
    BY LutAssumption
  <2>2. claim \in [asserted : BOOLEAN, out : Nat]
    <3>1. CASE claim = [asserted |-> FALSE, out |-> 0]
      BY <3>1
    <3>2. CASE claim \in [asserted : {TRUE}, out : Words]
      BY <3>2, LutAssumption
    <3> QED BY <3>1, <3>2 DEF Claims
  <2> QED BY <1>4, <2>1, <2>2, LookupKeeps
<1>5. CASE UNCHANGED lutVars
  BY <1>5, LutStutter
<1> QED
  BY <1>1, <1>2, <1>3, <1>4, <1>5, SortKeeps, ExchangeKeepsInv, NextRowKeeps, SortedKeeps,
     ProbeKeeps, NotFoundKeeps, TakeAnswerKeeps, DropKeeps DEF LutNext

(* The invariant of the tables holds of every size of table and of word.    *)
THEOREM LutInvariant == LutSpec => []LutInv
BY LutInitInv, LutInvStep, PTL DEF LutSpec

(* Sorting keeps the rows, and every lookup, by a scan or by the binary     *)
(* search, answers as the rows given say.                                   *)
THEOREM LookupFaithful == LutSpec => []LookupIsFaithful
<1>1. LutInv => LookupIsFaithful
  BY DEF LutInv
<1> QED BY <1>1, LutInvariant, PTL

-----------------------------------------------------------------------------
(* The sizes that the proofs of the padding use. *)
LEMMA ShaSizes ==
  /\ BlockBytes \in Nat /\ LengthBytes \in Nat /\ LengthBytes > 0 /\ FieldBytes \in Nat
  /\ BlockBytes > LengthBytes + 1
BY ShaAssumption

(* The shifts of a length are a function. *)
LEMMA ShiftedUnfolds ==
  ASSUME NEW len
  PROVE  Shifted(len) = [k \in 0..LengthBytes |-> IF k = 0 THEN len * 8 ELSE Shifted(len)[k - 1] \div 256]
<1> DEFINE Step(f, k) == IF k = 0 THEN len * 8 ELSE f[k - 1] \div 256
           P(n) == \E f : f = [k \in 0..n |-> Step(f, k)]
           Q == {n \in Nat : P(n)}
<1>1. 0 \in Q
  <2> DEFINE f == [k \in 0..0 |-> len * 8]
  <2>1. f = [k \in 0..0 |-> Step(f, k)]
    OBVIOUS
  <2> QED BY <2>1
<1>2. ASSUME NEW n \in Q PROVE n + 1 \in Q
  <2> HIDE DEF Step
  <2>1. PICK f : f = [k \in 0..n |-> Step(f, k)]
    OBVIOUS
  <2> DEFINE f1 == [k \in 0..(n + 1) |-> Step(f, k)]
  <2>2. \A k \in 0..n : f1[k] = f[k]
    BY <2>1
  <2>3. ASSUME NEW k \in 0..(n + 1) PROVE Step(f, k) = Step(f1, k)
    <3>1. k # 0 => k - 1 \in 0..n
      OBVIOUS
    <3> HIDE DEF f1
    <3>2. k # 0 => f1[k - 1] = f[k - 1]
      BY <2>2, <3>1
    <3> QED BY <3>2 DEF Step
  <2>4. f1 = [k \in 0..(n + 1) |-> Step(f1, k)]
    BY <2>3
  <2> HIDE DEF f1
  <2>5. n + 1 \in Nat /\ P(n + 1)
    BY <2>4
  <2> HIDE DEF P
  <2> QED BY <2>5
<1>3. P(LengthBytes)
  <2>1. Q \in SUBSET Nat
    OBVIOUS
  <2>2. Q = Nat
    <3> HIDE DEF Q
    <3> QED BY <1>1, <1>2, <2>1, Inductive
  <2> HIDE DEF P
  <2> QED BY <2>2, ShaSizes
<1> QED BY <1>3 DEF Shifted

(* Each shift drops the lowest byte of the one before. *)
LEMMA ShiftedFacts ==
  ASSUME NEW len \in Nat
  PROVE  /\ Shifted(len)[0] = len * 8
         /\ \A k \in 1..LengthBytes : Shifted(len)[k] = Shifted(len)[k - 1] \div 256
         /\ \A k \in 0..LengthBytes : Shifted(len)[k] \in Nat
<1> DEFINE s == Shifted(len)
<1>1. s = [k \in 0..LengthBytes |-> IF k = 0 THEN len * 8 ELSE s[k - 1] \div 256]
  BY ShiftedUnfolds
<1> HIDE DEF s
<1>2. s[0] = len * 8 /\ \A k \in 1..LengthBytes : s[k] = s[k - 1] \div 256
  <2>1. \A k \in 0..LengthBytes : s[k] = IF k = 0 THEN len * 8 ELSE s[k - 1] \div 256
    BY <1>1
  <2> QED BY <2>1, ShaSizes
<1> DEFINE Q == {n \in Nat : n <= LengthBytes => s[n] \in Nat}
<1>3. ASSUME NEW n \in Q PROVE n + 1 \in Q
  <2>1. CASE n + 1 <= LengthBytes
    <3>1. s[n] \in Nat /\ s[n + 1] = s[(n + 1) - 1] \div 256
      BY <1>2, <2>1, ShaSizes
    <3> QED BY <3>1
  <2> QED BY <2>1, ShaSizes
<1>4. Q = Nat
  <2>1. Q \in SUBSET Nat /\ 0 \in Q
    BY <1>2
  <2> HIDE DEF Q
  <2> QED BY <1>3, <2>1, Inductive
<1> QED BY <1>2, <1>4 DEF s

(* The total is a multiple of the block, with less than a block of zeros.    *)
LEMMA PadFills ==
  ASSUME NEW len \in Nat
  PROVE  /\ PadLen(len) \in 0..(BlockBytes - 1)
         /\ \E m \in Nat : len + 1 + PadLen(len) + LengthBytes = m * BlockBytes
<1>1. PICK B \in Nat, x \in Nat : B = BlockBytes /\ B > 1 /\ x = len + 1 + LengthBytes
  BY ShaSizes
<1>2. PICK q \in Nat, r \in Nat : x = q * B + r /\ r < B /\ r = x % B
  <2>1. x = B * (x \div B) + (x % B) /\ x \div B \in Nat /\ x % B \in Nat /\ x % B < B
    BY <1>1
  <2>2. x = (x \div B) * B + (x % B)
    BY <1>1
  <2> QED BY <2>1, <2>2
<1>3. PadLen(len) = (B - r) % B
  BY <1>1, <1>2 DEF PadLen
<1>4. CASE r = 0
  <2>1. PadLen(len) = 0
    BY <1>1, <1>3, <1>4
  <2>2. len + 1 + PadLen(len) + LengthBytes = q * B
    <3>1. PICK y \in Nat : y = q * B
      OBVIOUS
    <3>2. x = y
      BY <1>2, <1>4, <3>1
    <3>3. len + 1 + PadLen(len) + LengthBytes = x
      BY <1>1, <2>1, ShaSizes
    <3> QED BY <3>1, <3>2, <3>3
  <2> QED BY <1>1, <2>1, <2>2
<1>5. CASE r > 0
  <2>1. PadLen(len) = B - r /\ B - r \in 0..(B - 1)
    BY <1>1, <1>2, <1>3, <1>5
  <2>2. x + (B - r) = (q + 1) * B
    BY <1>1, <1>2
  <2>3. len + 1 + PadLen(len) + LengthBytes = (q + 1) * B
    BY <1>1, <2>1, <2>2, ShaSizes
  <2>4. PICK m \in Nat : m = q + 1
    OBVIOUS
  <2>5. len + 1 + PadLen(len) + LengthBytes = m * B
    BY <2>3, <2>4
  <2> QED BY <1>1, <2>1, <2>5
<1> QED BY <1>2, <1>4, <1>5

(* The padded message is whole blocks. *)
LEMMA TotalFacts ==
  ASSUME data \in Nat
  PROVE  /\ Total \in Nat /\ Total = data + 1 + PadLen(data) + LengthBytes
         /\ PadLen(data) \in 0..(BlockBytes - 1)
         /\ \E m \in Nat : Total = m * BlockBytes
<1>1. /\ PadLen(data) \in 0..(BlockBytes - 1)
      /\ \E m \in Nat : data + 1 + PadLen(data) + LengthBytes = m * BlockBytes
  BY PadFills
<1>2. Total = data + 1 + PadLen(data) + LengthBytes
  BY DEF Total
<1>3. Total \in Nat
  BY <1>1, <1>2, ShaSizes
<1> QED BY <1>1, <1>2, <1>3

(* Every byte of the padded message is a symbol. *)
LEMMA PaddedByteType ==
  ASSUME data \in Nat, NEW k \in Nat, k < Total
  PROVE  PaddedByte(k) \in Int
<1>1. CASE k > data /\ k >= Total - LengthBytes
  <2>1. PICK o \in 0..(LengthBytes - 1) : o = LengthBytes - 1 - (k - (Total - LengthBytes))
    BY <1>1, TotalFacts, ShaSizes
  <2>2. Shifted(data)[o] \in Nat
    BY <2>1, ShiftedFacts, ShaSizes
  <2>3. BitLength(k - (Total - LengthBytes)) \in Int
    BY <2>1, <2>2 DEF BitLength
  <2> QED BY <1>1, <2>3, ShaSizes DEF PaddedByte, LengthByte
<1> QED BY <1>1, TotalFacts, ShaSizes DEF PaddedByte, END_MARK, ZERO_PAD

(* Whole blocks: a block that starts before the end ends before it, too.     *)
LEMMA BlockFits ==
  ASSUME NEW n \in Nat, NEW m \in Nat, NEW b \in Nat, b > 0, n * b < m * b
  PROVE  (n + 1) * b <= m * b
<1>1. n < m
  <2>1. CASE m <= n
    <3>1. PICK x \in Nat : n = m + x
      <4>1. n - m \in Nat /\ n = m + (n - m)
        BY <2>1
      <4> QED BY <4>1
    <3>2. n * b = m * b + x * b /\ x * b \in Nat /\ m * b \in Nat
      BY <3>1
    <3> QED BY <3>2
  <2> QED BY <2>1
<1>2. PICK x \in Nat : m = n + 1 + x
  <2>1. m - (n + 1) \in Nat /\ m = n + 1 + (m - (n + 1))
    BY <1>1
  <2> QED BY <2>1
<1>3. m * b = (n + 1) * b + x * b /\ x * b \in Nat /\ (n + 1) * b \in Nat
  BY <1>2
<1> QED BY <1>3

-----------------------------------------------------------------------------
(* The invariant of the padding.                                            *)

(* Division by the block of an index within it.                             *)
LEMMA IndexInBlock ==
  ASSUME NEW b \in Nat, b > 0, NEW k \in Nat
  PROVE  /\ k = (k \div b) * b + (k % b) /\ k \div b \in Nat /\ k % b \in 0..(b - 1)
OBVIOUS

(* Byte k of what was compressed is byte k of the padded message. *)
LEMMA CompressedIsPadded ==
  ASSUME ShaType, Padded, data \in Nat, NEW k \in Nat, k < g
  PROVE  CompressedByte(k) = PaddedByte(k)
<1>1. PICK b \in Nat, n \in Nat, o \in Nat, p \in Nat :
        b = BlockBytes /\ b > 0 /\ n = Len(h) /\ o = k \div b /\ p = k % b
        /\ k = o * b + p /\ p \in 0..(b - 1) /\ g = n * b
  <2>1. PICK b \in Nat : b = BlockBytes /\ b > 0
    BY ShaSizes
  <2>2. /\ k = (k \div b) * b + (k % b) /\ k \div b \in Nat /\ k % b \in Nat /\ k % b \in 0..(b - 1)
    BY <2>1, IndexInBlock
  <2>3. Len(h) \in Nat /\ g = Len(h) * b
    BY <2>1 DEF ShaType, Padded
  <2> QED BY <2>1, <2>2, <2>3
<1>2. o < n
  <2>1. CASE n <= o
    <3>1. PICK x \in Nat : o = n + x
      <4>1. o - n \in Nat /\ o = n + (o - n)
        BY <2>1
      <4> QED BY <4>1
    <3>2. o * b = n * b + x * b /\ x * b \in Nat /\ n * b \in Nat
      BY <3>1
    <3> QED BY <1>1, <3>2
  <2> QED BY <2>1
<1>3. PICK e \in 1..Len(h) : e = o + 1 /\ e - 1 = o
  BY <1>1, <1>2
<1>4. h[e][p] = PaddedByte((e - 1) * BlockBytes + p)
  <2>1. p \in 0..(BlockBytes - 1) /\ data >= 0
    BY <1>1
  <2> QED BY <1>3, <2>1 DEF Padded
<1>5. (e - 1) * BlockBytes + p = k
  BY <1>1, <1>3
<1>6. CompressedByte(k) = h[e][p]
  BY <1>1, <1>3 DEF CompressedByte
<1> QED BY <1>4, <1>5, <1>6

(* The bytes of the length, read as the padding is read back.               *)
ReadOf(f, body) ==
  /\ f[0] = 0
  /\ \A k \in 1..LengthBytes : f[k] = f[k - 1] * 256 + (-3 - CompressedByte(body + k - 1))
  /\ LengthRead(body) = f[LengthBytes]

(* Reading the length is a function of the bytes read so far. *)
LEMMA LengthReadUnfolds ==
  ASSUME NEW body
  PROVE  \E f : ReadOf(f, body)
<1> DEFINE Step(f, k) == IF k = 0 THEN 0
                         ELSE f[k - 1] * 256 + (-3 - CompressedByte(body + k - 1))
           P(n) == \E f : f = [k \in 0..n |-> Step(f, k)]
           Q == {n \in Nat : P(n)}
<1>1. 0 \in Q
  <2> DEFINE f == [k \in 0..0 |-> 0]
  <2>1. f = [k \in 0..0 |-> Step(f, k)]
    OBVIOUS
  <2> QED BY <2>1
<1>2. ASSUME NEW n \in Q PROVE n + 1 \in Q
  <2> HIDE DEF Step
  <2>1. PICK f : f = [k \in 0..n |-> Step(f, k)]
    OBVIOUS
  <2> DEFINE f1 == [k \in 0..(n + 1) |-> Step(f, k)]
  <2>2. \A k \in 0..n : f1[k] = f[k]
    BY <2>1
  <2>3. ASSUME NEW k \in 0..(n + 1) PROVE Step(f, k) = Step(f1, k)
    <3>1. k # 0 => k - 1 \in 0..n
      OBVIOUS
    <3> HIDE DEF f1
    <3>2. k # 0 => f1[k - 1] = f[k - 1]
      BY <2>2, <3>1
    <3> QED BY <3>2 DEF Step
  <2>4. f1 = [k \in 0..(n + 1) |-> Step(f1, k)]
    BY <2>3
  <2> HIDE DEF f1
  <2>5. n + 1 \in Nat /\ P(n + 1)
    BY <2>4
  <2> HIDE DEF P
  <2> QED BY <2>5
<1>3. P(LengthBytes)
  <2>1. Q \in SUBSET Nat
    OBVIOUS
  <2>2. Q = Nat
    <3> HIDE DEF Q
    <3> QED BY <1>1, <1>2, <2>1, Inductive
  <2> HIDE DEF P
  <2> QED BY <2>2, ShaSizes
<1> DEFINE f == CHOOSE f : f = [k \in 0..LengthBytes |-> Step(f, k)]
<1>4. f = [k \in 0..LengthBytes |-> Step(f, k)]
  BY <1>3
<1>5. LengthRead(body) = f[LengthBytes]
  BY DEF LengthRead
<1> HIDE DEF f
<1>6. \A k \in 0..LengthBytes : f[k] = Step(f, k)
  BY <1>4
<1>7. 0 \in 0..LengthBytes /\ \A k \in 1..LengthBytes : k \in 0..LengthBytes /\ k # 0
  BY ShaSizes
<1> QED BY <1>5, <1>6, <1>7 DEF ReadOf

(* The last bytes are the length: n of them, read from the highest on, are the length in
   bits without its lowest LengthBytes - n bytes. *)
LEMMA LengthReadBack ==
  ASSUME data \in Nat, Shifted(data)[LengthBytes] = 0, NEW body \in Nat, body = Total - LengthBytes,
         \A k \in 0..(Total - 1) : CompressedByte(k) = PaddedByte(k)
  PROVE  LengthRead(body) = 8 * data
<1>1. PICK f : ReadOf(f, body)
  BY LengthReadUnfolds
<1> DEFINE s == Shifted(data)
<1>2. /\ s[0] = data * 8 /\ s[LengthBytes] = 0
      /\ \A k \in 1..LengthBytes : s[k] = s[k - 1] \div 256
      /\ \A k \in 0..LengthBytes : s[k] \in Nat
  BY ShiftedFacts
<1>3. ASSUME NEW k \in 0..(LengthBytes - 1)
      PROVE  CompressedByte(body + k) = -3 - (s[LengthBytes - 1 - k] % 256)
  <2>1. body + k \in 0..(Total - 1) /\ body + k > data /\ body + k >= Total - LengthBytes
        /\ body + k - (Total - LengthBytes) = k
    BY TotalFacts, ShaSizes
  <2>2. CompressedByte(body + k) = PaddedByte(body + k)
    BY <2>1
  <2>3. PaddedByte(body + k) = LengthByte(BitLength(k))
    BY <2>1, ShaSizes DEF PaddedByte
  <2> QED BY <2>2, <2>3 DEF LengthByte, BitLength
<1> HIDE DEF s
<1> DEFINE Q == {n \in Nat : n <= LengthBytes => f[n] = s[LengthBytes - n]}
<1>4. 0 \in Q
  BY <1>1, <1>2, ShaSizes DEF ReadOf
<1>5. ASSUME NEW n \in Q PROVE n + 1 \in Q
  <2>1. CASE n + 1 <= LengthBytes
    <3>1. PICK w \in 1..LengthBytes, l \in 0..(LengthBytes - 1) :
            w = n + 1 /\ w - 1 = n /\ l = LengthBytes - w /\ l + 1 = LengthBytes - n /\ n \in 0..(LengthBytes - 1)
            /\ LengthBytes - 1 - n = l /\ l + 1 \in 1..LengthBytes /\ l \in 0..LengthBytes
      BY <2>1, ShaSizes
    <3>2. f[w] = f[n] * 256 + (-3 - CompressedByte(body + n))
      <4>1. f[w] = f[w - 1] * 256 + (-3 - CompressedByte(body + w - 1)) /\ body + w - 1 = body + n
        BY <1>1, <3>1 DEF ReadOf
      <4> QED BY <3>1, <4>1
    <3>3. CompressedByte(body + n) = -3 - (s[l] % 256)
      BY <1>3, <3>1
    <3>4. f[n] = s[l + 1] /\ s[l] \in Nat
      BY <1>2, <2>1, <3>1, ShaSizes
    <3>5. s[l + 1] = s[l] \div 256
      <4>1. s[l + 1] = s[(l + 1) - 1] \div 256 /\ (l + 1) - 1 = l
        BY <1>2, <3>1
      <4> QED BY <4>1
    <3>6. f[w] = s[l]
      BY <3>2, <3>3, <3>4, <3>5
    <3> QED BY <3>1, <3>6
  <2> QED BY <2>1, ShaSizes
<1>6. Q = Nat
  <2>1. Q \in SUBSET Nat
    OBVIOUS
  <2> HIDE DEF Q
  <2> QED BY <1>4, <1>5, <2>1, Inductive
<1>7. f[LengthBytes] = s[0]
  BY <1>6, ShaSizes
<1> QED BY <1>1, <1>2, <1>7 DEF ReadOf

(* The padding is exact once the blocks are those of the padded message.     *)
LEMMA PaddedIsExact ==
  ASSUME ShaType, Padded
  PROVE  PaddingIsExact
<1> SUFFICES ASSUME data >= 0, g >= Total PROVE PaddingIsExact
  BY DEF PaddingIsExact
<1> DEFINE total == Len(h) * BlockBytes
           body == total - LengthBytes
<1>1. data \in Nat /\ Shifted(data)[LengthBytes] = 0 /\ g = total /\ g \in Nat
  BY DEF ShaType, Padded
<1>2. total = Total
  BY <1>1, TotalFacts DEF Padded
<1> HIDE DEF total
<1>3. \A k \in 0..(total - 1) : CompressedByte(k) = PaddedByte(k)
  BY <1>1, CompressedIsPadded
<1>4. body \in Nat /\ body > data /\ body - data - 1 < BlockBytes /\ body = Total - LengthBytes
  BY <1>1, <1>2, TotalFacts, ShaSizes
<1>5. ASSUME NEW k \in 0..(data - 1) PROVE CompressedByte(k) = k
  <2>1. k \in 0..(total - 1) /\ k < data
    BY <1>1, <1>4, ShaSizes
  <2>2. PaddedByte(k) = k
    BY <1>1, <2>1 DEF PaddedByte
  <2> QED BY <1>3, <2>1, <2>2
<1>6. CompressedByte(data) = END_MARK
  <2>1. data \in 0..(total - 1) /\ ~(data < data)
    BY <1>1, <1>4, ShaSizes
  <2> QED BY <1>3, <2>1 DEF PaddedByte
<1>7. ASSUME NEW k \in (data + 1)..(body - 1) PROVE CompressedByte(k) = ZERO_PAD
  <2>1. k \in 0..(total - 1) /\ ~(k < data) /\ k # data /\ ~(k >= Total - LengthBytes)
    BY <1>1, <1>2, <1>4, ShaSizes
  <2> QED BY <1>3, <2>1 DEF PaddedByte
<1>8. ASSUME NEW k \in body..(total - 1) PROVE CompressedByte(k) <= -3
  <2>1. k \in 0..(total - 1) /\ k > data /\ k >= Total - LengthBytes
    BY <1>1, <1>2, <1>4, ShaSizes
  <2>2. PICK o \in 0..(LengthBytes - 1) : o = LengthBytes - 1 - (k - (Total - LengthBytes))
    BY <1>1, <1>2, <1>4, <2>1, ShaSizes
  <2>3. Shifted(data)[o] \in Nat
    BY <1>1, <2>2, ShiftedFacts, ShaSizes
  <2>4. BitLength(k - (Total - LengthBytes)) \in Nat
    BY <2>2, <2>3 DEF BitLength
  <2>5. PaddedByte(k) = -3 - BitLength(k - (Total - LengthBytes))
    BY <1>1, <2>1 DEF PaddedByte, LengthByte
  <2> QED BY <1>3, <2>1, <2>4, <2>5
<1>9. LengthRead(body) = 8 * data
  BY <1>1, <1>2, <1>3, <1>4, LengthReadBack
<1> HIDE DEF body
<1> QED BY <1>4, <1>5, <1>6, <1>7, <1>8, <1>9 DEF PaddingIsExact, body, total

(* No message is hashed at first. *)
LEMMA ShaInitInv == ShaInit => ShaType /\ Padded
<1>1. <<>> \in Seq([0..(BlockBytes - 1) -> Int])
  OBVIOUS
<1>2. ShaInit => ShaType
  <2> SUFFICES ASSUME ShaInit PROVE ShaType
    OBVIOUS
  <2>1. data = -1 /\ g = 0 /\ h = <<>> /\ refused = FALSE
    BY DEF ShaInit
  <2> QED BY <1>1, <2>1 DEF ShaType
<1>3. ShaInit => ~(data >= 0)
  BY DEF ShaInit
<1> QED BY <1>2, <1>3 DEF Padded

(* A message starts with no block. *)
LEMMA StartKeeps ==
  ASSUME ShaType, NEW len \in Nat, Shifted(len)[LengthBytes] = 0, Start(len)
  PROVE  (ShaType /\ Padded)'
<1>1. data' = len /\ g' = 0 /\ h' = <<>> /\ refused' = refused
  BY DEF Start
<1>2. Total' \in Nat
  <2>1. Total' = len + 1 + PadLen(len) + LengthBytes
    BY <1>1 DEF Total
  <2> QED BY <2>1, PadFills, ShaSizes
<1>3. Len(h') = 0 /\ h' \in Seq([0..(BlockBytes - 1) -> Int])
  BY <1>1
<1>4. Len(h') * BlockBytes = 0
  BY <1>3, ShaSizes
<1> QED BY <1>1, <1>2, <1>3, <1>4 DEF ShaType, Padded

(* A block adds the next bytes of the padded message and ends at its end at the latest. *)
LEMMA CompressKeeps ==
  ASSUME ShaType, Padded, Compress
  PROVE  (ShaType /\ Padded)'
<1>1. PICK b \in Nat, n \in Nat, m \in Nat :
        /\ b = BlockBytes /\ b > 0 /\ n = Len(h) /\ g = n * b /\ Total = m * b
  <2>1. data \in Nat /\ Len(h) \in Nat /\ g = Len(h) * BlockBytes
    BY DEF ShaType, Padded, Compress
  <2>2. PICK m \in Nat : Total = m * BlockBytes
    BY <2>1, TotalFacts
  <2>3. PICK b \in Nat : b = BlockBytes /\ b > 0
    BY ShaSizes
  <2>4. PICK n \in Nat : n = Len(h)
    BY <2>1
  <2>5. /\ b = BlockBytes /\ b > 0 /\ n = Len(h) /\ g = n * b /\ Total = m * b
    BY <2>1, <2>2, <2>3, <2>4
  <2> QED BY <2>5
<1> DEFINE block == [p \in 0..(BlockBytes - 1) |-> PaddedByte(g + p)]
<1>2. /\ data \in Nat /\ data' = data /\ refused' = refused /\ g' = g + b /\ g < Total
      /\ h' = Append(h, block) /\ g \in Nat
  BY <1>1 DEF Compress, ShaType
<1>3. (n + 1) * b <= m * b /\ (n + 1) * b = n * b + b
  <2>1. n * b < m * b
    BY <1>1, <1>2
  <2>2. (n + 1) * b <= m * b
    BY <1>1, <2>1, BlockFits
  <2> QED BY <2>2
<1>4. block \in [0..(BlockBytes - 1) -> Int]
  <2>1. ASSUME NEW p \in 0..(BlockBytes - 1) PROVE PaddedByte(g + p) \in Int
    <3>1. g + p \in Nat /\ g + p < Total
      BY <1>1, <1>2, <1>3, TotalFacts
    <3> QED BY <1>2, <3>1, PaddedByteType
  <2> QED BY <2>1
<1> HIDE DEF block
<1>5. /\ h' \in Seq([0..(BlockBytes - 1) -> Int]) /\ Len(h') = n + 1 /\ h'[n + 1] = block
      /\ \A k \in 1..n : h'[k] = h[k]
  <2>1. h \in Seq([0..(BlockBytes - 1) -> Int])
    BY DEF ShaType
  <2> QED BY <1>1, <1>2, <1>4, <2>1
<1>6. ASSUME NEW k \in 1..Len(h'), NEW p \in 0..(BlockBytes - 1)
      PROVE  h'[k][p] = PaddedByte((k - 1) * BlockBytes + p)
  <2>1. CASE k = n + 1
    <3>1. (k - 1) * BlockBytes = g
      BY <1>1, <2>1
    <3> QED BY <1>5, <2>1, <3>1 DEF block
  <2>2. CASE k # n + 1
    <3>1. k \in 1..Len(h)
      BY <1>1, <1>5, <2>2
    <3> QED BY <1>1, <1>2, <1>5, <3>1 DEF Padded
  <2> QED BY <2>1, <2>2
<1>7. \A k \in Int : PaddedByte(k)' = PaddedByte(k)
  BY <1>2 DEF PaddedByte, BitLength, Total
<1>8. Total' = Total
  BY <1>2 DEF Total
<1>9. ASSUME NEW k \in 1..Len(h'), NEW p \in 0..(BlockBytes - 1)
      PROVE  h'[k][p] = PaddedByte((k - 1) * BlockBytes + p)'
  <2>1. (k - 1) * BlockBytes + p \in Int
    BY <1>1, <1>5
  <2> QED BY <1>6, <1>7, <2>1
<1>10. g' = Len(h') * BlockBytes /\ g' <= Total' /\ g' \in Nat
  BY <1>1, <1>2, <1>3, <1>5, <1>8
<1> QED BY <1>2, <1>5, <1>9, <1>10 DEF ShaType, Padded

(* Elements are a message or are refused. *)
LEMMA Sha256FieldsKeeps ==
  ASSUME ShaType, Padded, NEW n \in FieldCounts, Sha256Fields(n)
  PROVE  (ShaType /\ Padded)'
<1>1. CASE n * FieldBytes > MAX_MSG_BYTES
  BY <1>1 DEF Sha256Fields, ShaType, Padded
<1>2. CASE ~(n * FieldBytes > MAX_MSG_BYTES)
  <2>1. n * FieldBytes \in Nat /\ MAX_MSG_BYTES \in Nat
    BY ShaAssumption
  <2>2. n * FieldBytes <= MAX_MSG_BYTES
    BY <1>2, <2>1
  <2>3. Shifted(n * FieldBytes)[LengthBytes] = 0 /\ Start(n * FieldBytes)
    BY <1>2, <2>2, ShaAssumption DEF Sha256Fields
  <2> QED BY <2>1, <2>3, StartKeeps
<1> QED BY <1>1, <1>2

(* Whatever the sizes of blocks and of the length, the blocks that sha256 compressed are those
   of the padded message up to g, and g stays within it. *)
THEOREM ShaInvariant == ShaSpec => []ShaInv
<1> DEFINE Inv == ShaType /\ Padded
<1>1. ShaInit => Inv
  BY ShaInitInv
<1>2. ASSUME Inv, [ShaNext]_shaVars PROVE Inv'
  <2>1. ASSUME NEW len \in Lengths, Start(len) PROVE Inv'
    <3>1. len \in Nat /\ Shifted(len)[LengthBytes] = 0
      BY ShaAssumption
    <3> QED BY <1>2, <2>1, <3>1, StartKeeps
  <2>2. CASE Compress
    BY <1>2, <2>2, CompressKeeps
  <2>3. ASSUME NEW n \in FieldCounts, Sha256Fields(n) PROVE Inv'
    BY <1>2, <2>3, Sha256FieldsKeeps
  <2>4. CASE TakeDigest
    <3>1. data' = -1 /\ g' = 0 /\ h' = <<>> /\ refused' = FALSE
      BY <2>4 DEF TakeDigest
    <3>2. <<>> \in Seq([0..(BlockBytes - 1) -> Int])
      OBVIOUS
    <3>3. ShaType'
      BY <3>1, <3>2 DEF ShaType
    <3>4. ~(data' >= 0)
      BY <3>1
    <3> QED BY <3>3, <3>4 DEF Padded
  <2>5. CASE UNCHANGED shaVars
    <3>1. UNCHANGED <<data, g, h, refused>>
      BY <2>5 DEF shaVars
    <3>2. Total' = Total /\ \A k \in Int : PaddedByte(k)' = PaddedByte(k)
      BY <3>1 DEF PaddedByte, BitLength, Total
    <3> QED BY <1>2, <3>1, <3>2 DEF ShaType, Padded, PaddedByte, BitLength, Total
  <2> QED BY <1>2, <2>1, <2>2, <2>3, <2>4, <2>5 DEF ShaNext
<1>3. Inv => ShaInv
  BY PaddedIsExact DEF ShaInv
<1>4. ShaSpec => []Inv
  BY <1>1, <1>2, PTL DEF ShaSpec
<1> QED BY <1>3, <1>4, PTL

(* Whatever the sizes and the message, what sha256 compresses is the message, the mark, less than
   a block of zeros and the length in bits, from which the message can be read back. *)
THEOREM PaddingExact == ShaSpec => []PaddingIsExact
<1>1. ShaInv => PaddingIsExact
  BY DEF ShaInv
<1> QED BY <1>1, ShaInvariant, PTL

-----------------------------------------------------------------------------
(* The depth of trees is a number. *)
LEMMA DepthType == MAX_DEPTH \in Nat
BY TreeAssumption

(* Powers of two.                                                           *)
LEMMA PowUnfolds == Pow2 = [d \in 0..MAX_DEPTH |-> IF d = 0 THEN 1 ELSE 2 * Pow2[d - 1]]
<1> DEFINE Step(f, d) == IF d = 0 THEN 1 ELSE 2 * f[d - 1]
           P(n) == \E f : f = [d \in 0..n |-> Step(f, d)]
           Q == {n \in Nat : P(n)}
<1>1. 0 \in Q
  <2> DEFINE f == [d \in 0..0 |-> 1]
  <2>1. f = [d \in 0..0 |-> Step(f, d)]
    OBVIOUS
  <2> QED BY <2>1
<1>2. ASSUME NEW n \in Q PROVE n + 1 \in Q
  <2>1. PICK f : f = [d \in 0..n |-> Step(f, d)]
    OBVIOUS
  <2> DEFINE f1 == [d \in 0..(n + 1) |-> Step(f, d)]
  <2>2. \A d \in 0..n : f1[d] = f[d]
    BY <2>1
  <2>3. ASSUME NEW d \in 0..(n + 1) PROVE Step(f, d) = Step(f1, d)
    <3>1. d # 0 => d - 1 \in 0..n
      OBVIOUS
    <3> HIDE DEF f1
    <3> QED BY <2>2, <3>1
  <2>4. f1 = [d \in 0..(n + 1) |-> Step(f1, d)]
    BY <2>3
  <2> HIDE DEF f1
  <2> QED BY <2>4
<1>3. P(MAX_DEPTH)
  <2>1. Q \in SUBSET Nat
    OBVIOUS
  <2>2. Q = Nat
    <3> HIDE DEF Q
    <3> QED BY <1>1, <1>2, <2>1, Inductive
  <2> HIDE DEF P
  <2> QED BY <2>2, DepthType
<1> QED BY <1>3 DEF Pow2

(* Powers of two are positive and double. *)
LEMMA PowFacts ==
  /\ Pow2[0] = 1
  /\ \A d \in 0..MAX_DEPTH : Pow2[d] \in Nat /\ Pow2[d] > 0
  /\ \A d \in 1..MAX_DEPTH : Pow2[d] = 2 * Pow2[d - 1]
<1>1. Pow2[0] = 1 /\ \A d \in 1..MAX_DEPTH : Pow2[d] = 2 * Pow2[d - 1]
  <2>1. \A d \in 0..MAX_DEPTH : Pow2[d] = IF d = 0 THEN 1 ELSE 2 * Pow2[d - 1]
    BY PowUnfolds
  <2> QED BY <2>1, DepthType
<1> DEFINE Q == {n \in Nat : n <= MAX_DEPTH => Pow2[n] \in Nat /\ Pow2[n] > 0}
<1>2. ASSUME NEW n \in Q PROVE n + 1 \in Q
  <2>1. CASE n + 1 <= MAX_DEPTH
    <3>1. Pow2[n] \in Nat /\ Pow2[n] > 0 /\ Pow2[n + 1] = 2 * Pow2[(n + 1) - 1]
      BY <1>1, <2>1, DepthType
    <3> QED BY <3>1
  <2> QED BY <2>1, DepthType
<1>3. Q = Nat
  <2>1. Q \in SUBSET Nat /\ 0 \in Q
    BY <1>1
  <2> HIDE DEF Q
  <2> QED BY <1>2, <2>1, Inductive
<1> QED BY <1>1, <1>3

(* Powers of two grow. *)
LEMMA PowInjective ==
  ASSUME NEW d \in 0..MAX_DEPTH, NEW e \in 0..MAX_DEPTH, d < e
  PROVE  Pow2[d] < Pow2[e]
<1> DEFINE Q == {n \in Nat : d < n /\ n <= MAX_DEPTH => Pow2[d] < Pow2[n]}
<1>1. ASSUME NEW n \in Q PROVE n + 1 \in Q
  <2>1. CASE d < n + 1 /\ n + 1 <= MAX_DEPTH
    <3>1. Pow2[n + 1] = 2 * Pow2[n] /\ Pow2[n] \in Nat /\ Pow2[n] > 0
      <4>1. n + 1 \in 1..MAX_DEPTH /\ n \in 0..MAX_DEPTH /\ (n + 1) - 1 = n
        BY <2>1, DepthType
      <4> QED BY <4>1, PowFacts
    <3>2. CASE d = n
      BY <3>1, <3>2
    <3>3. CASE d < n
      <4>1. Pow2[d] < Pow2[n] /\ Pow2[d] \in Nat
        BY <2>1, <3>3, PowFacts, DepthType
      <4> QED BY <3>1, <4>1
    <3> QED BY <2>1, <3>2, <3>3
  <2> QED BY <2>1
<1>2. Q = Nat
  <2>1. Q \in SUBSET Nat /\ 0 \in Q
    OBVIOUS
  <2> HIDE DEF Q
  <2> QED BY <1>1, <2>1, Inductive
<1> QED BY <1>2, DepthType

(* What is left of a power of two when a power of two is divided out.       *)
LEMMA OddPart ==
  ASSUME NEW d \in 0..MAX_DEPTH, NEW e \in 0..MAX_DEPTH, NEW m \in Nat, m * Pow2[d] = Pow2[e]
  PROVE  m = 1 \/ (m % 2 = 0 /\ m > 1 /\ d < e)
<1> DEFINE P(n, k) == m * Pow2[n] = Pow2[k] => m = 1 \/ (m % 2 = 0 /\ m > 1 /\ n < k)
           Q == {n \in Nat : n <= MAX_DEPTH => \A k \in 0..MAX_DEPTH : P(n, k)}
<1>1. 0 \in Q
  <2> SUFFICES ASSUME NEW k \in 0..MAX_DEPTH, m * Pow2[0] = Pow2[k]
               PROVE  m = 1 \/ (m % 2 = 0 /\ m > 1 /\ 0 < k)
    OBVIOUS
  <2>1. m = Pow2[k]
    BY PowFacts
  <2>2. CASE k = 0
    BY <2>1, <2>2, PowFacts
  <2>3. CASE k > 0
    <3>1. Pow2[k] = 2 * Pow2[k - 1] /\ k - 1 \in 0..MAX_DEPTH
      BY <2>3, DepthType, PowFacts
    <3> QED BY <2>1, <2>3, <3>1, PowFacts
  <2> QED BY <2>2, <2>3
<1>2. ASSUME NEW n \in Q PROVE n + 1 \in Q
  <2> SUFFICES ASSUME n + 1 <= MAX_DEPTH, NEW k \in 0..MAX_DEPTH, m * Pow2[n + 1] = Pow2[k]
               PROVE  m = 1 \/ (m % 2 = 0 /\ m > 1 /\ n + 1 < k)
    OBVIOUS
  <2>1. Pow2[n + 1] = 2 * Pow2[n] /\ Pow2[n] \in Nat /\ Pow2[n] > 0
    <3>1. n + 1 \in 1..MAX_DEPTH /\ n \in 0..MAX_DEPTH /\ (n + 1) - 1 = n
      BY DepthType
    <3> QED BY <3>1, PowFacts
  <2>2. PICK x \in Nat : x = m * Pow2[n]
    BY <2>1
  <2>3. m * Pow2[n + 1] = 2 * x
    BY <2>1, <2>2
  <2>4. k # 0
    BY <2>2, <2>3, PowFacts
  <2>5. Pow2[k] = 2 * Pow2[k - 1] /\ Pow2[k - 1] \in Nat /\ k - 1 \in 0..MAX_DEPTH
    BY <2>4, DepthType, PowFacts
  <2>6. m * Pow2[n] = Pow2[k - 1]
    BY <2>2, <2>3, <2>5
  <2>7. n <= MAX_DEPTH
    BY DepthType
  <2>8. P(n, k - 1)
    BY <2>5, <2>7
  <2> QED BY <2>6, <2>8, <2>5
<1>3. Q = Nat
  <2>1. Q \in SUBSET Nat
    OBVIOUS
  <2> HIDE DEF Q
  <2> QED BY <1>1, <1>2, <2>1, Inductive
<1>4. P(d, e)
  <2>1. d \in Q /\ d <= MAX_DEPTH
    BY <1>3, DepthType
  <2> HIDE DEF P
  <2> QED BY <2>1
<1> QED BY <1>4

(* The bit above the d lowest, and the number without them.                 *)
LEMMA ShiftOnce ==
  ASSUME NEW b \in Nat, b > 0, NEW v \in Nat
  PROVE  v \div (2 * b) = (v \div b) \div 2 /\ v \div b \in Nat
<1>1. PICK q \in Nat, r \in Nat : q = v \div b /\ r = v % b /\ r < b /\ v = b * q + r
  OBVIOUS
<1>2. PICK y \in Nat, e \in 0..1 : q = 2 * y + e
  <2>1. q = 2 * (q \div 2) + (q % 2) /\ q \div 2 \in Nat /\ q % 2 \in 0..1
    OBVIOUS
  <2> QED BY <2>1
<1>3. PICK c \in Nat, z \in Nat : c = 2 * b /\ z = b * e + r
  BY <1>1, <1>2
<1>4. z < c
  <2>1. CASE e = 0
    BY <1>1, <1>3, <2>1
  <2>2. CASE e = 1
    BY <1>1, <1>3, <2>2
  <2> QED BY <1>2, <2>1, <2>2
<1>5. v = c * y + z
  BY <1>1, <1>2, <1>3
<1>6. v \div c = y
  BY <1>3, <1>4, <1>5
<1>7. q \div 2 = y
  BY <1>2
<1> QED BY <1>1, <1>3, <1>6, <1>7

-----------------------------------------------------------------------------
(* The tree.                                                                *)
LEMMA NodeUnfolds ==
  ASSUME NEW t
  PROVE  NodeOf(t) = [d \in 0..MAX_DEPTH |->
            [k \in Nat |-> IF d = 0 THEN RowLeaf(t[k + 1])
                           ELSE ShaPair(NodeOf(t)[d - 1][2 * k], NodeOf(t)[d - 1][2 * k + 1])]]
<1> DEFINE Step(f, d) == [k \in Nat |-> IF d = 0 THEN RowLeaf(t[k + 1])
                                        ELSE ShaPair(f[d - 1][2 * k], f[d - 1][2 * k + 1])]
           P(n) == \E f : f = [d \in 0..n |-> Step(f, d)]
           Q == {n \in Nat : P(n)}
<1>1. 0 \in Q
  <2> DEFINE f == [d \in 0..0 |-> [k \in Nat |-> RowLeaf(t[k + 1])]]
  <2>1. f = [d \in 0..0 |-> Step(f, d)]
    OBVIOUS
  <2> QED BY <2>1
<1>2. ASSUME NEW n \in Q PROVE n + 1 \in Q
  <2>1. PICK f : f = [d \in 0..n |-> Step(f, d)]
    OBVIOUS
  <2> DEFINE f1 == [d \in 0..(n + 1) |-> Step(f, d)]
  <2>2. \A d \in 0..n : f1[d] = f[d]
    <3> HIDE DEF Step
    <3> QED BY <2>1
  <2>3. ASSUME NEW d \in 0..(n + 1) PROVE Step(f, d) = Step(f1, d)
    <3>1. d # 0 => d - 1 \in 0..n
      OBVIOUS
    <3> HIDE DEF f1
    <3> QED BY <2>2, <3>1
  <2>4. f1 = [d \in 0..(n + 1) |-> Step(f1, d)]
    BY <2>3
  <2> HIDE DEF f1, Step
  <2> QED BY <2>4
<1>3. P(MAX_DEPTH)
  <2>1. Q \in SUBSET Nat
    OBVIOUS
  <2>2. Q = Nat
    <3> HIDE DEF Q
    <3> QED BY <1>1, <1>2, <2>1, Inductive
  <2> HIDE DEF P
  <2> QED BY <2>2, DepthType
<1> QED BY <1>3 DEF NodeOf

(* A leaf is a row, a node the hash of the two below it. *)
LEMMA NodeFacts ==
  ASSUME NEW t, NEW k \in Nat
  PROVE  /\ NodeOf(t)[0][k] = RowLeaf(t[k + 1])
         /\ \A d \in 1..MAX_DEPTH :
              NodeOf(t)[d][k] = ShaPair(NodeOf(t)[d - 1][2 * k], NodeOf(t)[d - 1][2 * k + 1])
<1> DEFINE f == NodeOf(t)
<1>1. f = [d \in 0..MAX_DEPTH |->
            [l \in Nat |-> IF d = 0 THEN RowLeaf(t[l + 1])
                           ELSE ShaPair(f[d - 1][2 * l], f[d - 1][2 * l + 1])]]
  BY NodeUnfolds
<1> HIDE DEF f
<1>2. ASSUME NEW d \in 0..MAX_DEPTH
      PROVE  f[d] = [l \in Nat |-> IF d = 0 THEN RowLeaf(t[l + 1])
                                   ELSE ShaPair(f[d - 1][2 * l], f[d - 1][2 * l + 1])]
  BY <1>1, Zenon
<1>3. ASSUME NEW d \in 0..MAX_DEPTH
      PROVE  f[d][k] = IF d = 0 THEN RowLeaf(t[k + 1])
                       ELSE ShaPair(f[d - 1][2 * k], f[d - 1][2 * k + 1])
  BY <1>2
<1>4. 0 \in 0..MAX_DEPTH /\ \A d \in 1..MAX_DEPTH : d \in 0..MAX_DEPTH /\ d # 0
  BY DepthType
<1> QED BY <1>3, <1>4 DEF f

(* What compute_root computes on its way up.                                *)
Side(p, e) == (p.index \div Pow2[e - 1]) % 2
ClimbOf(cur, p, leaf) ==
  /\ cur[0] = leaf
  /\ \A e \in 1..p.depth :
       cur[e] = IF Side(p, e) = 0 THEN ShaPair(cur[e - 1], p.siblings[e])
                ELSE ShaPair(p.siblings[e], cur[e - 1])
  /\ ComputeRoot(p, leaf) = cur[p.depth]

(* compute_root climbs from the leaf, one sibling at a time. *)
LEMMA ComputeRootClimbs ==
  ASSUME NEW p, NEW leaf, p.depth \in Nat
  PROVE  \E cur : ClimbOf(cur, p, leaf)
<1> DEFINE Step(f, e) == IF e = 0 THEN leaf
                         ELSE IF (p.index \div Pow2[e - 1]) % 2 = 0
                              THEN ShaPair(f[e - 1], p.siblings[e]) ELSE ShaPair(p.siblings[e], f[e - 1])
           P(n) == \E f : f = [e \in 0..n |-> Step(f, e)]
           Q == {n \in Nat : P(n)}
<1>1. 0 \in Q
  <2> DEFINE f == [e \in 0..0 |-> leaf]
  <2>1. f = [e \in 0..0 |-> Step(f, e)]
    OBVIOUS
  <2> QED BY <2>1
<1>2. ASSUME NEW n \in Q PROVE n + 1 \in Q
  <2>1. PICK f : f = [e \in 0..n |-> Step(f, e)]
    OBVIOUS
  <2> DEFINE f1 == [e \in 0..(n + 1) |-> Step(f, e)]
  <2>2. \A e \in 0..n : f1[e] = f[e]
    BY <2>1
  <2>3. ASSUME NEW e \in 0..(n + 1) PROVE Step(f, e) = Step(f1, e)
    <3>1. e # 0 => e - 1 \in 0..n
      OBVIOUS
    <3> HIDE DEF f1
    <3> QED BY <2>2, <3>1
  <2>4. f1 = [e \in 0..(n + 1) |-> Step(f1, e)]
    BY <2>3
  <2> HIDE DEF f1
  <2> QED BY <2>4
<1>3. P(p.depth)
  <2>1. Q \in SUBSET Nat
    OBVIOUS
  <2>2. Q = Nat
    <3> HIDE DEF Q
    <3> QED BY <1>1, <1>2, <2>1, Inductive
  <2> HIDE DEF P
  <2> QED BY <2>2
<1> DEFINE cur == CHOOSE f : f = [e \in 0..p.depth |-> Step(f, e)]
<1>4. cur = [e \in 0..p.depth |-> Step(cur, e)]
  BY <1>3
<1>5. ComputeRoot(p, leaf) = cur[p.depth]
  BY DEF ComputeRoot
<1> HIDE DEF cur
<1>6. \A e \in 0..p.depth : cur[e] = Step(cur, e)
  BY <1>4
<1> QED BY <1>5, <1>6 DEF ClimbOf, Side

(* A path of the siblings of a node leads to the node above.                *)
LEMMA PathUp ==
  ASSUME NEW t, NEW p, p.depth \in 0..MAX_DEPTH, p.index \in Nat,
         \A e \in 1..p.depth : p.siblings[e] = NodeOf(t)[e - 1][Sibling(p.index \div Pow2[e - 1])]
  PROVE  ComputeRoot(p, RowLeaf(t[p.index + 1])) = NodeOf(t)[p.depth][p.index \div Pow2[p.depth]]
<1>1. PICK cur : ClimbOf(cur, p, RowLeaf(t[p.index + 1]))
  BY ComputeRootClimbs
<1> DEFINE At(e) == NodeOf(t)[e][p.index \div Pow2[e]]
           Q == {n \in Nat : n <= p.depth => cur[n] = At(n)}
<1>2. 0 \in Q
  <2>1. p.index \div Pow2[0] = p.index
    BY PowFacts
  <2> QED BY <1>1, <2>1, NodeFacts DEF ClimbOf
<1>3. ASSUME NEW n \in Q PROVE n + 1 \in Q
  <2> SUFFICES ASSUME n + 1 <= p.depth PROVE cur[n + 1] = At(n + 1)
    OBVIOUS
  <2>1. PICK e \in 1..p.depth : e = n + 1 /\ e - 1 = n /\ e \in 1..MAX_DEPTH /\ n \in 0..MAX_DEPTH
    BY DepthType
  <2>2. PICK v \in Nat, y \in Nat : v = p.index \div Pow2[n] /\ y = v \div 2 /\ p.index \div Pow2[e] = y
    <3>1. Pow2[e] = 2 * Pow2[n] /\ Pow2[n] \in Nat /\ Pow2[n] > 0
      BY <2>1, PowFacts
    <3>2. p.index \div (2 * Pow2[n]) = (p.index \div Pow2[n]) \div 2 /\ p.index \div Pow2[n] \in Nat
      BY <3>1, ShiftOnce
    <3> QED BY <3>1, <3>2
  <2>3. cur[n] = NodeOf(t)[n][v]
    BY <2>1, <2>2
  <2>4. p.siblings[e] = NodeOf(t)[n][Sibling(v)]
    BY <2>1, <2>2
  <2>5. cur[e] = IF v % 2 = 0 THEN ShaPair(cur[n], p.siblings[e]) ELSE ShaPair(p.siblings[e], cur[n])
    BY <1>1, <2>1, <2>2 DEF ClimbOf, Side
  <2>6. NodeOf(t)[e][y] = ShaPair(NodeOf(t)[n][2 * y], NodeOf(t)[n][2 * y + 1])
    <3>1. NodeOf(t)[e][y] = ShaPair(NodeOf(t)[e - 1][2 * y], NodeOf(t)[e - 1][2 * y + 1])
      BY <2>1, NodeFacts
    <3> QED BY <2>1, <3>1
  <2>7. IF v % 2 = 0 THEN v = 2 * y /\ Sibling(v) = 2 * y + 1 ELSE v = 2 * y + 1 /\ Sibling(v) = 2 * y
    BY <2>2 DEF Sibling
  <2>8. cur[e] = NodeOf(t)[e][y]
    BY <2>3, <2>4, <2>5, <2>6, <2>7
  <2> QED BY <2>1, <2>2, <2>8
<1>4. Q = Nat
  <2>1. Q \in SUBSET Nat
    OBVIOUS
  <2> HIDE DEF Q
  <2> QED BY <1>2, <1>3, <2>1, Inductive
<1>5. p.depth \in Q
  BY <1>4
<1> QED BY <1>1, <1>5 DEF ClimbOf

(* The remainder of a number given as multiple and rest. *)
LEMMA RemainderIs ==
  ASSUME NEW b \in Nat, NEW c \in Nat, NEW x \in Nat, NEW v \in Nat, v = b * c + x, x < b
  PROVE  v % b = x
OBVIOUS

(* A number is a multiple and a rest. *)
LEMMA RemainderOf ==
  ASSUME NEW b \in Nat, b > 0, NEW v \in Nat
  PROVE  v = b * (v \div b) + (v % b) /\ v % b \in Nat
OBVIOUS

(* What is hashed to a node spells the two digests below it.                *)
LEMMA PairSpells ==
  ASSUME NEW l, NEW r
  PROVE  (AsColumns(l) \o AsColumns(r))[1] = <<l, 1>> /\ (AsColumns(l) \o AsColumns(r))[DigestWords + 1] = <<r, 1>>
<1> DEFINE a == AsColumns(l)
           b == AsColumns(r)
           S == {a[k] : k \in 1..DigestWords} \cup {b[k] : k \in 1..DigestWords}
<1>0. DigestWords \in Nat /\ DigestWords > 0
  BY TreeAssumption
<1>1. /\ a \in [1..DigestWords -> S] /\ a[1] = <<l, 1>>
      /\ b \in [1..DigestWords -> S] /\ b[1] = <<r, 1>>
  BY <1>0 DEF AsColumns
<1> HIDE DEF a, b, S
<1>2. a \in Seq(S) /\ b \in Seq(S) /\ Len(a) = DigestWords /\ Len(b) = DigestWords
  BY <1>0, <1>1
<1>3. (a \o b)[1] = a[1] /\ (a \o b)[DigestWords + 1] = b[1]
  BY <1>0, <1>2
<1> QED BY <1>1, <1>3 DEF a, b

(* So the hash of two digests is that of no others.                         *)
LEMMA PairsDiffer ==
  ASSUME NEW l, NEW r, NEW l2, NEW r2, ShaPair(l, r) = ShaPair(l2, r2)
  PROVE  l = l2 /\ r = r2
<1>1. AsColumns(l) \o AsColumns(r) = AsColumns(l2) \o AsColumns(r2)
  BY DEF ShaPair, Sha
<1>2. <<l, 1>> = <<l2, 1>> /\ <<r, 1>> = <<r2, 1>>
  BY <1>1, PairSpells
<1> QED BY <1>2

(* A path at most as long as the tree is deep that leads a row to its root  *)
(* does so for the row its index names or, when it is cut, for the one that *)
(* spells the two digests below the node its index names.                   *)
LEMMA PathDown ==
  ASSUME NEW t, NEW p, NEW row, NEW D \in 0..MAX_DEPTH, p.depth \in 0..D, p.index \in Nat,
         ComputeRoot(p, RowLeaf(row)) = NodeOf(t)[D][0]
  PROVE  /\ D - p.depth = 0 => row = t[(p.index % Pow2[p.depth]) + 1]
         /\ D - p.depth > 0 =>
              row = Spelled(NodeOf(t)[(D - p.depth) - 1], p.index % Pow2[p.depth])
<1>1. PICK cur : ClimbOf(cur, p, RowLeaf(row))
  BY ComputeRootClimbs
<1>2. PICK c \in Nat, n1 \in 0..MAX_DEPTH : n1 = p.depth /\ c = p.index \div Pow2[n1] /\ n1 <= D
  <2>1. p.depth \in 0..MAX_DEPTH /\ Pow2[p.depth] \in Nat /\ Pow2[p.depth] > 0
    BY PowFacts, DepthType
  <2>2. p.index \div Pow2[p.depth] \in Nat
    BY <2>1, ShiftOnce
  <2> QED BY <2>1, <2>2
<1> DEFINE P(e) == \E x \in Nat : /\ x < Pow2[e]
                                  /\ p.index \div Pow2[n1 - e] = Pow2[e] * c + x
                                  /\ cur[n1 - e] = NodeOf(t)[D - e][x]
           Q == {e \in Nat : e <= n1 => P(e)}
<1>3. 0 \in Q
  <2>1. n1 - 0 = n1 /\ D - 0 = D /\ 0 < Pow2[0] /\ Pow2[0] * c + 0 = c
    BY <1>2, PowFacts
  <2> QED BY <1>1, <1>2, <2>1 DEF ClimbOf
<1>4. ASSUME NEW e \in Q PROVE e + 1 \in Q
  <2> SUFFICES ASSUME e + 1 <= n1 PROVE P(e + 1)
    OBVIOUS
  <2>1. PICK x \in Nat : /\ x < Pow2[e]
                         /\ p.index \div Pow2[n1 - e] = Pow2[e] * c + x
                         /\ cur[n1 - e] = NodeOf(t)[D - e][x]
    BY <1>2
  <2>2. PICK f \in 1..MAX_DEPTH, k \in 0..MAX_DEPTH, d \in 1..MAX_DEPTH, e1 \in 1..MAX_DEPTH :
          f = n1 - e /\ k = f - 1 /\ k = n1 - (e + 1) /\ d = D - e /\ d - 1 = D - (e + 1)
          /\ e1 = e + 1 /\ e1 - 1 = e /\ f \in 1..p.depth
    <3>1. e \in Nat /\ e + 1 <= n1 /\ n1 = p.depth /\ n1 \in Nat /\ D \in Nat /\ n1 <= D /\ D <= MAX_DEPTH
      BY <1>2
    <3>2. /\ n1 - e \in 1..MAX_DEPTH /\ (n1 - e) - 1 \in 0..MAX_DEPTH /\ D - e \in 1..MAX_DEPTH
          /\ e + 1 \in 1..MAX_DEPTH /\ (n1 - e) - 1 = n1 - (e + 1) /\ (D - e) - 1 = D - (e + 1)
          /\ (e + 1) - 1 = e /\ n1 - e \in 1..p.depth
      BY <3>1, DepthType
    <3> HIDE DEF P
    <3> QED BY <3>2
  <2>3. PICK v \in Nat, w \in Nat, b \in 0..1 :
          v = p.index \div Pow2[f] /\ w = p.index \div Pow2[k] /\ b = w % 2 /\ w = 2 * v + b
    <3>1. Pow2[f] = 2 * Pow2[k] /\ Pow2[k] \in Nat /\ Pow2[k] > 0
      BY <2>2, PowFacts
    <3>2. PICK w \in Nat : w = p.index \div Pow2[k] /\ p.index \div Pow2[f] = w \div 2
      BY <3>1, ShiftOnce
    <3>3. w = 2 * (w \div 2) + (w % 2) /\ w \div 2 \in Nat /\ w % 2 \in 0..1
      OBVIOUS
    <3> QED BY <3>2, <3>3
  <2>4. PICK y \in Nat : y = 2 * x + b
    OBVIOUS
  <2>5. Pow2[e1] = 2 * Pow2[e] /\ Pow2[e] \in Nat
    <3>1. Pow2[e1] = 2 * Pow2[e1 - 1] /\ e1 - 1 \in 0..MAX_DEPTH
      BY <2>2, PowFacts, DepthType
    <3> QED BY <2>2, <3>1, PowFacts
  <2>6. y < Pow2[e1]
    BY <2>1, <2>4, <2>5
  <2>7. w = Pow2[e1] * c + y
    <3>1. PICK z \in Nat : z = Pow2[e] * c
      BY <2>5
    <3>2. Pow2[e1] * c = 2 * z
      BY <2>5, <3>1
    <3> QED BY <2>1, <2>2, <2>3, <2>4, <3>1, <3>2
  <2>8. NodeOf(t)[d][x] = ShaPair(NodeOf(t)[d - 1][2 * x], NodeOf(t)[d - 1][2 * x + 1])
    BY NodeFacts
  <2>9. cur[f] = IF b = 0 THEN ShaPair(cur[k], p.siblings[f]) ELSE ShaPair(p.siblings[f], cur[k])
    BY <1>1, <2>2, <2>3 DEF ClimbOf, Side
  <2>10. cur[f] = NodeOf(t)[d][x]
    BY <2>1, <2>2
  <2>11. cur[k] = NodeOf(t)[d - 1][y]
    <3>1. CASE b = 0
      BY <2>4, <2>8, <2>9, <2>10, <3>1, PairsDiffer
    <3>2. CASE b = 1
      BY <2>4, <2>8, <2>9, <2>10, <3>2, PairsDiffer
    <3> QED BY <2>3, <3>1, <3>2
  <2> QED BY <2>2, <2>3, <2>6, <2>7, <2>11
<1>5. Q = Nat
  <2>1. Q \in SUBSET Nat
    OBVIOUS
  <2> HIDE DEF Q
  <2> QED BY <1>3, <1>4, <2>1, Inductive
<1>6. PICK x \in Nat : /\ x < Pow2[n1]
                       /\ p.index \div Pow2[n1 - n1] = Pow2[n1] * c + x
                       /\ cur[n1 - n1] = NodeOf(t)[D - n1][x]
  <2>1. n1 \in Q
    BY <1>5
  <2> QED BY <2>1
<1>7. n1 - n1 = 0 /\ cur[0] = RowLeaf(row) /\ RowLeaf(row) = NodeOf(t)[D - n1][x]
  BY <1>1, <1>6 DEF ClimbOf
<1>8. ASSUME n1 < D PROVE row = Spelled(NodeOf(t)[(D - n1) - 1], x)
  <2>1. PICK d \in 1..MAX_DEPTH : d = D - n1
    BY <1>2, <1>8, DepthType
  <2>2. NodeOf(t)[d][x] = ShaPair(NodeOf(t)[d - 1][2 * x], NodeOf(t)[d - 1][2 * x + 1])
    BY NodeFacts
  <2>3. ShaPair(NodeOf(t)[d - 1][2 * x], NodeOf(t)[d - 1][2 * x + 1])
          = Sha(Spelled(NodeOf(t)[d - 1], x))
    BY DEF ShaPair, Spelled
  <2>4. Sha(row) = Sha(Spelled(NodeOf(t)[d - 1], x))
    BY <1>7, <2>1, <2>2, <2>3 DEF RowLeaf
  <2>5. row = Spelled(NodeOf(t)[d - 1], x)
    BY <2>4 DEF Sha
  <2> QED BY <2>1, <2>5
<1>9. ASSUME n1 = D PROVE row = t[x + 1]
  <2>1. D - n1 = 0
    BY <1>9
  <2>2. RowLeaf(row) = RowLeaf(t[x + 1])
    BY <1>7, <2>1, NodeFacts
  <2> QED BY <2>2 DEF RowLeaf, Sha
<1>10. x = p.index % Pow2[n1]
  <2>1. p.index = Pow2[n1] * c + x /\ Pow2[n1] \in Nat /\ Pow2[n1] > 0
    <3>1. p.index \div Pow2[0] = p.index
      BY PowFacts
    <3> QED BY <1>6, <1>7, <3>1, PowFacts
  <2>2. PICK b \in Nat : b = Pow2[n1] /\ b > 0
    BY <2>1
  <2>3. p.index = b * c + x /\ x < b
    BY <1>6, <2>1, <2>2
  <2> QED BY <2>2, <2>3, RemainderIs
<1>11. D - n1 = 0 => n1 = D
  BY <1>2
<1>12. D - n1 > 0 => n1 < D
  BY <1>2
<1> QED BY <1>2, <1>8, <1>9, <1>10, <1>11, <1>12

-----------------------------------------------------------------------------
(* Levels.                                                                  *)
LEMMA LenIs ==
  ASSUME NEW n \in Nat, NEW f, f = [k \in 1..n |-> f[k]]
  PROVE  Len(f) = n
<1> DEFINE S == {f[k] : k \in 1..n}
<1>1. f \in [1..n -> S]
  OBVIOUS
<1> HIDE DEF S
<1> QED BY <1>1

(* The leaves of a trace are the lowest level of its tree. *)
LEMMA LeavesAre ==
  ASSUME NEW t \in Seq(Seq(Columns)), NEW lv, lv = [k \in DOMAIN t |-> RowLeaf(t[k])]
  PROVE  Len(lv) = Len(t) /\ \A k \in 1..Len(t) : lv[k] = NodeOf(t)[0][k - 1]
<1>1. DOMAIN t = 1..Len(t) /\ Len(t) \in Nat
  OBVIOUS
<1>2. ASSUME NEW k \in 1..Len(t) PROVE NodeOf(t)[0][k - 1] = RowLeaf(t[k])
  <2>1. k - 1 \in Nat /\ (k - 1) + 1 = k
    OBVIOUS
  <2>2. NodeOf(t)[0][k - 1] = RowLeaf(t[(k - 1) + 1])
    BY <2>1, NodeFacts
  <2> QED BY <2>1, <2>2
<1>3. \A k \in 1..Len(t) : lv[k] = NodeOf(t)[0][k - 1]
  BY <1>1, <1>2
<1>4. lv = [k \in 1..Len(t) |-> lv[k]]
  BY <1>1
<1> QED BY <1>1, <1>3, <1>4, LenIs

(* A trace has at most as many rows as the deepest tree has leaves. *)
LEMMA TraceFits ==
  ASSUME TreeType
  PROVE  trace \in Seq(Seq(Columns)) /\ Len(trace) \in Nat /\ Len(trace) <= Pow2[MAX_DEPTH]
<1>1. CASE trace \in Traces
  BY <1>1, TreeAssumption
<1>2. CASE trace = <<>>
  BY <1>2, PowFacts, DepthType
<1> QED BY <1>1, <1>2 DEF TreeType

(* A level of more than one node has one above it, when it is even.         *)
LEMMA LevelAbove ==
  ASSUME TreeType, NEW d \in 0..MAX_DEPTH, IsLevel(d), Len(level) > 1, Len(level) % 2 = 0,
         NEW lv, lv = NextLevel(level)
  PROVE  /\ d + 1 \in 1..MAX_DEPTH /\ Len(lv) \in Nat /\ Len(lv) * Pow2[d + 1] = Len(trace)
         /\ \A k \in 1..Len(lv) : lv[k] = Node[d + 1][k - 1]
<1>1. PICK n \in Nat, m \in Nat, b \in Nat, x \in Nat :
        n = Len(level) /\ n = 2 * m /\ m >= 1 /\ b = Pow2[d] /\ b > 0 /\ x = m * b /\ n * b = Len(trace)
  <2>1. PICK n \in Nat : n = Len(level)
    BY DEF IsLevel
  <2>2. PICK m \in Nat : n = 2 * m /\ m >= 1
    <3>1. n = 2 * (n \div 2) /\ n \div 2 \in Nat /\ n \div 2 >= 1
      BY <2>1
    <3> QED BY <3>1
  <2>3. PICK b \in Nat : b = Pow2[d] /\ b > 0
    BY PowFacts
  <2>4. PICK x \in Nat : x = m * b
    OBVIOUS
  <2>5. n * b = Len(trace)
    BY <2>1, <2>3 DEF IsLevel
  <2> QED BY <2>1, <2>2, <2>3, <2>4, <2>5
<1>2. n * b = 2 * x /\ x >= b
  BY <1>1
<1>3. d # MAX_DEPTH
  BY <1>1, <1>2, TraceFits
<1>4. PICK d1 \in 1..MAX_DEPTH : d1 = d + 1 /\ d1 - 1 = d
  BY <1>3, DepthType
<1>5. Len(lv) = m /\ \A k \in 1..m : lv[k] = Node[d1][k - 1]
  <2>1. Len(level) \div 2 = m
    BY <1>1
  <2>2. ASSUME NEW k \in 1..m
        PROVE  ShaPair(level[2 * k - 1], level[2 * k]) = Node[d1][k - 1]
    <3>1. PICK y \in Nat : y = k - 1 /\ 2 * k - 1 \in 1..n /\ 2 * k \in 1..n
                           /\ (2 * k - 1) - 1 = 2 * y /\ 2 * k - 1 = 2 * y + 1
      BY <1>1
    <3>2. level[2 * k - 1] = Node[d][2 * y] /\ level[2 * k] = Node[d][2 * y + 1]
      BY <1>1, <3>1 DEF IsLevel
    <3>3. Node[d1][y] = ShaPair(Node[d1 - 1][2 * y], Node[d1 - 1][2 * y + 1])
      BY NodeFacts DEF Node
    <3> QED BY <1>4, <3>1, <3>2, <3>3
  <2>3. lv = [k \in 1..m |-> ShaPair(level[2 * k - 1], level[2 * k])]
    BY <2>1 DEF NextLevel
  <2>4. lv = [k \in 1..m |-> lv[k]]
    BY <2>3
  <2>5. Len(lv) = m
    BY <2>4, LenIs
  <2> QED BY <2>2, <2>3, <2>5
<1>6. m * Pow2[d1] = Len(trace)
  <2>1. Pow2[d1] = 2 * b
    BY <1>1, <1>4, PowFacts
  <2> QED BY <1>1, <1>2, <2>1
<1> QED BY <1>4, <1>5, <1>6

(* A number of rows has one depth. *)
LEMMA RootOnce ==
  ASSUME NEW d \in 0..MAX_DEPTH, NEW e \in 0..MAX_DEPTH, Pow2[d] = Pow2[e]
  PROVE  d = e
<1>1. Pow2[d] \in Nat
  BY PowFacts
<1>2. ~(d < e) /\ ~(e < d)
  BY <1>1, PowInjective
<1> QED BY <1>2, DepthType

-----------------------------------------------------------------------------
(* The invariant of the tree.                                               *)
LEMMA TreeInitInv == TreeInit => TreeInv
<1> SUFFICES ASSUME TreeInit PROVE TreeInv
  OBVIOUS
<1>1. TreeType
  BY DepthType DEF TreeInit, TreeType, NoPath, NotRevealed, NoRoot
<1> QED BY <1>1 DEF TreeInit, TreeInv, Rooting, Rooted, Opening, PathsAuthenticate, NotRevealed

(* Committing starts with the leaves. *)
LEMMA CommitTraceKeeps ==
  ASSUME TreeInv, CommitTrace
  PROVE  TreeInv'
<1>1. PICK rows \in Traces :
        /\ trace' = rows
        /\ IF \E k \in DOMAIN rows : Len(rows[k]) > MAX_COLUMNS
           THEN phase' = "panic" /\ UNCHANGED level
           ELSE phase' = "root" /\ level' = [k \in DOMAIN rows |-> RowLeaf(rows[k])]
  BY DEF CommitTrace
<1>2. /\ root = NoRoot /\ revealed = NotRevealed /\ path = NoPath
      /\ UNCHANGED <<root, path, idx, revealed>>
  BY DEF CommitTrace, TreeInv, TreeType
<1>3. TreeType'
  BY <1>1, <1>2, DepthType DEF TreeType, NoPath, NotRevealed
<1>4. Rooted' /\ Opening' /\ PathsAuthenticate'
  BY <1>1, <1>2 DEF Rooted, Opening, PathsAuthenticate, NotRevealed
<1>5. Rooting'
  <2> SUFFICES ASSUME phase' = "root" PROVE \E d \in 0..MAX_DEPTH : IsLevel(d)'
    BY DEF Rooting
  <2>1. level' = [k \in DOMAIN rows |-> RowLeaf(rows[k])] /\ rows \in Seq(Seq(Columns))
    BY <1>1, TreeAssumption
  <2>2. Len(level') = Len(rows) /\ \A k \in 1..Len(rows) : level'[k] = NodeOf(rows)[0][k - 1]
    BY <2>1, LeavesAre
  <2>3. Len(rows) \in Nat /\ Len(rows) * Pow2[0] = Len(rows)
    BY <2>1, PowFacts
  <2>4. Node' = NodeOf(rows)
    BY <1>1 DEF Node
  <2>5. IsLevel(0)'
    BY <1>1, <2>2, <2>3, <2>4 DEF IsLevel
  <2> QED BY <2>5, DepthType
<1> QED BY <1>3, <1>4, <1>5 DEF TreeInv

(* The nodes do not change while the trace does not.                        *)
LEMMA NodeKept ==
  ASSUME trace' = trace
  PROVE  Node' = Node
BY DEF Node

(* What a level is a power of two wide when the trace is.                   *)
LEMMA LevelOdd ==
  ASSUME NEW d \in 0..MAX_DEPTH, IsLevel(d), NEW e \in 0..MAX_DEPTH, Len(trace) = Pow2[e]
  PROVE  Len(level) = 1 \/ (Len(level) % 2 = 0 /\ Len(level) > 1 /\ d < e)
<1>1. PICK n \in Nat : n = Len(level) /\ n * Pow2[d] = Pow2[e]
  BY DEF IsLevel
<1> QED BY <1>1, OddPart

(* Hashing the pairs of a level gives the level above, up to the root. *)
LEMMA RootLevelKeeps ==
  ASSUME TreeInv, RootLevel
  PROVE  TreeInv'
<1>1. /\ phase = "root" /\ root = NoRoot /\ path = NoPath /\ UNCHANGED <<trace, path, idx, revealed>>
      /\ revealed.call # "row" /\ TreeType
  BY DEF RootLevel, TreeInv, TreeType
<1>2. PICK d \in 0..MAX_DEPTH : IsLevel(d)
  BY <1>1 DEF TreeInv, Rooting
<1>3. Node' = Node
  BY <1>1, NodeKept
<1>4. Len(level) \in Nat
  BY <1>2 DEF IsLevel
<1>5. revealed.call = "aet" /\ revealed.ok => Pow2[revealed.size[1]] \in PowersOfTwo \ {1}
  BY DEF TreeInv, PathsAuthenticate
<1>6. CASE Len(level) = 1
  <2>1. root' = level[1] /\ phase' = "idle"
    BY <1>6 DEF RootLevel
  <2>2. root' = Node[d][0] /\ Len(trace) = Pow2[d]
    <3>1. level[1] = Node[d][1 - 1] /\ 1 * Pow2[d] = Len(trace)
      BY <1>2, <1>6 DEF IsLevel
    <3> QED BY <2>1, <3>1, PowFacts
  <2>3. TreeType'
    BY <1>1, <2>1 DEF TreeType
  <2>4. Rooting' /\ Rooted' /\ Opening'
    BY <1>1, <1>3, <2>1, <2>2 DEF Rooting, Rooted, Opening
  <2>5. PathsAuthenticate'
    BY <1>1, <1>5, <2>1, <2>2 DEF PathsAuthenticate, PowersOfTwo
  <2> QED BY <2>3, <2>4, <2>5 DEF TreeInv
<1>7. CASE Len(level) > 1 /\ Len(level) % 2 = 0
  <2>1. level' = NextLevel(level) /\ UNCHANGED <<root, phase>>
    BY <1>7 DEF RootLevel
  <2>2. TreeType'
    BY <1>1, <2>1 DEF TreeType
  <2>3. Rooting'
    <3>1. /\ d + 1 \in 1..MAX_DEPTH /\ Len(level') \in Nat /\ Len(level') * Pow2[d + 1] = Len(trace)
          /\ \A k \in 1..Len(level') : level'[k] = Node[d + 1][k - 1]
      BY <1>1, <1>2, <1>7, <2>1, LevelAbove
    <3>2. IsLevel(d + 1)' /\ d + 1 \in 0..MAX_DEPTH
      BY <1>1, <1>3, <3>1, DepthType DEF IsLevel
    <3> QED BY <3>2 DEF Rooting
  <2>4. Rooted' /\ Opening'
    BY <1>1, <2>1 DEF Rooted, Opening
  <2>5. PathsAuthenticate'
    BY <1>1, <1>5, <2>1 DEF PathsAuthenticate
  <2> QED BY <2>2, <2>3, <2>4, <2>5 DEF TreeInv
<1>8. CASE ~(Len(level) = 1) /\ ~(Len(level) > 1 /\ Len(level) % 2 = 0)
  <2>1. phase' = "panic" /\ UNCHANGED <<root, level>>
    BY <1>8 DEF RootLevel
  <2>2. Len(trace) \notin PowersOfTwo
    BY <1>2, <1>8, LevelOdd DEF PowersOfTwo
  <2>3. TreeType'
    BY <1>1, <2>1 DEF TreeType
  <2>4. Rooting' /\ Rooted' /\ Opening'
    BY <1>1, <2>1 DEF Rooting, Rooted, Opening
  <2>5. PathsAuthenticate'
    BY <1>1, <1>5, <2>1, <2>2 DEF PathsAuthenticate
  <2> QED BY <2>3, <2>4, <2>5 DEF TreeInv
<1> QED BY <1>6, <1>7, <1>8

(* Opening starts with the leaves and an empty path. *)
LEMMA OpenKeeps ==
  ASSUME TreeInv, Open
  PROVE  TreeInv'
<1>1. PICK n \in Nat : path' = [NoPath EXCEPT !.index = n] /\ idx' = n
                      /\ level' = [k \in DOMAIN trace |-> RowLeaf(trace[k])]
  BY TreeAssumption DEF Open
<1>2. /\ phase = "idle" /\ phase' = "open" /\ root # NoRoot /\ UNCHANGED <<trace, root, revealed>>
      /\ revealed.call # "row" /\ TreeType /\ Rooted
  BY DEF Open, TreeInv, TreeType
<1>3. path' = [siblings |-> <<>>, depth |-> 0, index |-> n]
  BY <1>1 DEF NoPath
<1>4. TreeType'
  BY <1>2, <1>3, DepthType DEF TreeType
<1>5. Node' = Node
  BY <1>2, NodeKept
<1>6. Opening'
  <2>1. trace \in Seq(Seq(Columns))
    BY <1>2, TraceFits
  <2>2. Len(level') = Len(trace) /\ \A k \in 1..Len(trace) : level'[k] = NodeOf(trace)[0][k - 1]
    BY <1>1, <2>1, LeavesAre
  <2>3. Len(trace) \in Nat /\ Len(trace) * Pow2[0] = Len(trace) /\ n \div Pow2[0] = n
    BY <2>1, PowFacts
  <2>4. IsLevel(0)'
    BY <1>2, <1>5, <2>2, <2>3 DEF IsLevel, Node
  <2> QED BY <1>1, <1>2, <1>3, <2>3, <2>4 DEF Opening
<1>7. Rooting' /\ Rooted'
  BY <1>2, <1>5 DEF Rooting, Rooted
<1>8. PathsAuthenticate'
  BY <1>2 DEF TreeInv, PathsAuthenticate
<1> QED BY <1>4, <1>6, <1>7, <1>8 DEF TreeInv

(* A path that has come to the root authenticates its row.                  *)
LEMMA OpenedVerifies ==
  ASSUME TreeType, Opening, phase = "open", NEW d \in 0..MAX_DEPTH, d = path.depth,
         Len(trace) = Pow2[d], root = Node[d][0], path.index < Len(trace)
  PROVE  VerifyPath(path, RowLeaf(trace[path.index + 1]), root)
<1>1. path.depth \in 0..MAX_DEPTH /\ path.index \in Nat
  BY DEF TreeType
<1>2. \A e \in 1..path.depth :
        path.siblings[e] = NodeOf(trace)[e - 1][Sibling(path.index \div Pow2[e - 1])]
  BY DEF Opening, Node
<1>3. ComputeRoot(path, RowLeaf(trace[path.index + 1]))
        = NodeOf(trace)[path.depth][path.index \div Pow2[path.depth]]
  BY <1>1, <1>2, PathUp
<1>4. path.index \div Pow2[d] = 0
  <2>1. PICK b \in Nat : b = Pow2[d] /\ b > 0
    BY PowFacts
  <2> QED BY <1>1, <2>1
<1> QED BY <1>3, <1>4 DEF VerifyPath, Node

(* A level opened adds the sibling of the node the path passes there. *)
LEMMA OpenLevelKeeps ==
  ASSUME TreeInv, OpenLevel
  PROVE  TreeInv'
<1>1. /\ phase = "open" /\ root # NoRoot /\ UNCHANGED <<trace, root, revealed>> /\ revealed.call # "row"
      /\ TreeType /\ Opening /\ path.index \in Nat /\ path.depth \in 0..MAX_DEPTH
  BY DEF OpenLevel, TreeInv, TreeType
<1>2. PICK D \in 0..MAX_DEPTH : Len(trace) = Pow2[D] /\ root = Node[D][0]
  BY <1>1 DEF TreeInv, Rooted
<1>3. PICK d \in 0..MAX_DEPTH, n \in Nat, b \in Nat :
        /\ d = path.depth /\ IsLevel(d) /\ n = Len(level) /\ b = Pow2[d] /\ b > 0 /\ n * b = Len(trace)
        /\ idx = path.index \div b
  BY <1>1, PowFacts DEF Opening, IsLevel
<1>4. n = 1 \/ (n % 2 = 0 /\ n > 1 /\ d < D)
  BY <1>2, <1>3, LevelOdd
<1>5. Node' = Node
  BY <1>1, NodeKept
<1>6. idx \in Nat
  BY <1>1, <1>3, ShiftOnce
<1>7. Rooted' /\ Rooting'
  <2>1. phase' \in {"open", "opened", "panic"}
    BY <1>1 DEF OpenLevel
  <2> QED BY <1>1, <1>2, <1>5, <2>1 DEF Rooted, Rooting
<1>8. /\ Len(trace) \in PowersOfTwo
      /\ revealed.call = "aet" /\ revealed.ok => Pow2[revealed.size[1]] \in PowersOfTwo \ {1}
  BY <1>1 DEF TreeInv, PathsAuthenticate
<1>9. CASE n <= 1
  <2>1. phase' = "opened" /\ UNCHANGED <<path, idx>>
    BY <1>3, <1>9 DEF OpenLevel
  <2>2. d = D /\ b = Len(trace)
    <3>1. Pow2[d] = Pow2[D]
      BY <1>2, <1>3, <1>4, <1>9
    <3> QED BY <1>2, <1>3, <3>1, RootOnce
  <2>3. TreeType'
    BY <1>1, <2>1 DEF TreeType
  <2>4. Opening'
    BY <1>1, <1>3, <1>5, <2>1, <2>2 DEF Opening
  <2>5. path.index < Len(trace) => VerifyPath(path, RowLeaf(trace[path.index + 1]), root)
    BY <1>1, <1>2, <1>3, <2>2, OpenedVerifies
  <2>6. PathsAuthenticate'
    BY <1>1, <1>3, <1>8, <2>1, <2>2, <2>5 DEF PathsAuthenticate, VerifyPath
  <2> QED BY <1>7, <2>3, <2>4, <2>6 DEF TreeInv
<1>10. CASE n > 1 /\ (Sibling(idx) >= n \/ path.depth = MAX_DEPTH \/ n % 2 = 1)
  <2>1. phase' = "panic" /\ UNCHANGED <<level, path, idx>>
    BY <1>3, <1>10 DEF OpenLevel
  <2>2. Sibling(idx) >= n /\ n % 2 = 0
    <3>1. n % 2 = 0 /\ d < D
      BY <1>4, <1>10
    <3>2. n % 2 # 1
      BY <3>1
    <3>3. path.depth # MAX_DEPTH
      BY <1>2, <1>3, <3>1, DepthType
    <3> QED BY <1>10, <3>1, <3>2, <3>3
  <2>3. idx >= n
    BY <1>6, <2>2 DEF Sibling
  <2>4. path.index >= n * b
    <3>1. PICK q \in Nat, r \in Nat : path.index = b * q + r /\ q = idx
      <4>1. path.index \in Nat /\ b \in Nat /\ b > 0
        BY <1>1, <1>3, PowFacts DEF TreeType
      <4>2. path.index = b * (path.index \div b) + (path.index % b) /\ path.index % b \in Nat
        BY <4>1, RemainderOf
      <4> QED BY <1>3, <1>6, <4>2
    <3>2. PICK x \in Nat : q = n + x
      <4>1. q - n \in Nat /\ q = n + (q - n)
        BY <2>3, <3>1
      <4> QED BY <4>1
    <3>3. b * q = n * b + b * x /\ b * x \in Nat /\ n * b \in Nat
      BY <3>2
    <3> QED BY <3>1, <3>3
  <2>5. TreeType'
    BY <1>1, <2>1 DEF TreeType
  <2>6. Opening'
    BY <1>1, <2>1 DEF Opening
  <2>7. PathsAuthenticate'
    BY <1>1, <1>3, <1>8, <2>1, <2>4 DEF PathsAuthenticate
  <2> QED BY <1>7, <2>5, <2>6, <2>7 DEF TreeInv
<1>11. CASE n > 1 /\ ~(Sibling(idx) >= n \/ path.depth = MAX_DEPTH \/ n % 2 = 1)
  <2> DEFINE x == level[Sibling(idx) + 1]
  <2>1. /\ path' = [path EXCEPT !.siblings = Append(@, x), !.depth = @ + 1]
        /\ idx' = idx \div 2 /\ level' = NextLevel(level) /\ phase' = "open"
    BY <1>1, <1>3, <1>11 DEF OpenLevel
  <2>2. n % 2 = 0 /\ n > 1
    BY <1>4, <1>11
  <2>3. x = Node[d][Sibling(idx)]
    <3>1. PICK k \in 1..n : k = Sibling(idx) + 1 /\ k - 1 = Sibling(idx)
      BY <1>6, <1>11 DEF Sibling
    <3> QED BY <1>3, <3>1 DEF IsLevel
  <2>4. /\ d + 1 \in 1..MAX_DEPTH /\ Len(level') \in Nat /\ Len(level') * Pow2[d + 1] = Len(trace)
        /\ \A k \in 1..Len(level') : level'[k] = Node[d + 1][k - 1]
    BY <1>1, <1>3, <2>1, <2>2, LevelAbove
  <2>5. path' = [siblings |-> Append(path.siblings, x), depth |-> d + 1, index |-> path.index]
    <3>1. path = [siblings |-> path.siblings, depth |-> path.depth, index |-> path.index]
      BY <1>1 DEF TreeType
    <3> HIDE DEF x
    <3> QED BY <1>3, <2>1, <3>1
  <2>6. /\ path'.siblings = [e \in 1..(d + 1) |-> path'.siblings[e]]
        /\ path'.siblings[d + 1] = x /\ \A e \in 1..d : path'.siblings[e] = path.siblings[e]
    <3>1. path.siblings = [e \in 1..d |-> path.siblings[e]] /\ d \in Nat
      BY <1>1, <1>3, DepthType DEF TreeType
    <3>2. Len(path.siblings) = d /\ DOMAIN path.siblings = 1..d
      BY <3>1, LenIs
    <3>3. path'.siblings = Append(path.siblings, x)
      BY <2>5
    <3> HIDE DEF x
    <3> QED BY <3>1, <3>2, <3>3
  <2>7. IsLevel(d + 1)'
    BY <1>1, <1>5, <2>4 DEF IsLevel
  <2>8. idx' = path.index \div Pow2[d + 1]
    <3>1. Pow2[d + 1] = 2 * b
      <4>1. Pow2[d + 1] = 2 * Pow2[(d + 1) - 1] /\ (d + 1) - 1 = d
        BY <2>4, PowFacts, DepthType
      <4> QED BY <1>3, <4>1
    <3>2. path.index \div (2 * b) = (path.index \div b) \div 2
      BY <1>1, <1>3, ShiftOnce
    <3> QED BY <1>3, <2>1, <3>1, <3>2
  <2>9. \A e \in 1..(d + 1) :
           path'.siblings[e] = Node[e - 1][Sibling(path.index \div Pow2[e - 1])]
    <3> TAKE e \in 1..(d + 1)
    <3>1. CASE e = d + 1
      <4>1. e - 1 = d
        BY <3>1, DepthType
      <4> QED BY <1>3, <2>3, <2>6, <3>1, <4>1
    <3>2. CASE e # d + 1
      <4>1. e \in 1..path.depth
        BY <1>3, <3>2, DepthType
      <4> QED BY <1>1, <1>3, <2>6, <4>1 DEF Opening
    <3> QED BY <3>1, <3>2
  <2>10. TreeType'
    <3>1. path'.depth = d + 1 /\ path'.index = path.index
      BY <2>5
    <3>2. path' = [siblings |-> path'.siblings, depth |-> path'.depth, index |-> path'.index]
      BY <2>5
    <3>3. path'.depth \in 0..MAX_DEPTH
      BY <2>4, <3>1, DepthType
    <3>4. path'.siblings = [e \in 1..path'.depth |-> path'.siblings[e]]
      BY <2>6, <3>1
    <3>5. path'.index \in Nat /\ trace' \in Traces \cup {<<>>} /\ root' # NoRoot
      BY <1>1, <3>1 DEF TreeType
    <3>6. revealed'.call # "row"
      BY <1>1 DEF TreeType
    <3> QED BY <2>1, <3>2, <3>3, <3>4, <3>5, <3>6 DEF TreeType
  <2>11. Opening'
    <3>1. path'.depth = d + 1 /\ path'.index = path.index
      BY <2>5
    <3>2. IsLevel(path.depth)'
      BY <1>5, <2>4, <3>1, <1>1 DEF IsLevel
    <3>3. idx' = path'.index \div Pow2[path'.depth]
      BY <2>8, <3>1
    <3>4. \A e \in 1..path'.depth :
             path'.siblings[e] = Node'[e - 1][Sibling(path'.index \div Pow2[e - 1])]
      <4> TAKE e \in 1..path'.depth
      <4> QED BY <1>5, <2>9, <3>1
    <3> QED BY <2>1, <3>2, <3>3, <3>4 DEF Opening
  <2>12. PathsAuthenticate'
    BY <1>1, <1>8, <2>1 DEF PathsAuthenticate
  <2> QED BY <1>7, <2>10, <2>11, <2>12 DEF TreeInv
<1> QED BY <1>3, <1>9, <1>10, <1>11

(* A revealed row that verifies is the one the path leads to. *)
LEMMA RevealKeeps ==
  ASSUME TreeInv, Reveal
  PROVE  TreeInv'
<1>1. /\ phase = "opened" /\ root # NoRoot /\ UNCHANGED <<trace, phase, level, root, path, idx>>
      /\ TreeType /\ Opening /\ path.index \in Nat /\ path.depth \in 0..MAX_DEPTH
      /\ Pow2[path.depth] = Len(trace)
  BY DEF Reveal, TreeInv, TreeType, Opening
<1>2. PICK D \in 0..MAX_DEPTH : Len(trace) = Pow2[D] /\ root = Node[D][0]
  BY <1>1 DEF TreeInv, Rooted
<1>3. path.depth = D
  BY <1>1, <1>2, RootOnce
<1> DEFINE Path(sib, d, n) == [siblings |-> SubSeq(sib, 1, d), depth |-> d, index |-> n]
           Checks(n, value, row) ==
             <<[constraint |-> [step |-> n, column |-> 0, value |-> value], cell |-> row[1]] >>
           Answer(row, n, d, sib, value) ==
             [call |-> "row", row |-> row, path |-> Path(sib, d, n), value |-> value,
              ok |-> /\ VerifyPath(Path(sib, d, n), RowLeaf(row), root)
                     /\ VerifyBoundaryConstraints(Checks(n, value, row)) = "ok"]
<1>4. PICK n \in PathIndices, d \in 0..path.depth : \E row, value, sib :
        revealed' = Answer(row, n, d, sib, value)
  BY DEF Reveal
<1>4a. PICK row, value, sib : revealed' = Answer(row, n, d, sib, value)
  BY <1>4
<1> DEFINE p == Path(sib, d, n)
           checks == Checks(n, value, row)
<1>5. /\ revealed'.call = "row" /\ revealed'.row = row /\ revealed'.path = p /\ revealed'.value = value
      /\ revealed'.ok = (VerifyPath(p, RowLeaf(row), root) /\ VerifyBoundaryConstraints(checks) = "ok")
  BY <1>4a
<1>6. p.depth = d /\ p.index = n /\ d \in 0..D /\ n \in Nat
  BY <1>3, TreeAssumption
<1>7. ASSUME VerifyBoundaryConstraints(checks) = "ok" PROVE value = row[1]
  <2>1. 1 \in DOMAIN checks /\ checks[1].cell = row[1] /\ checks[1].constraint.value = value
    OBVIOUS
  <2> HIDE DEF checks
  <2> QED BY <1>7, <2>1 DEF VerifyBoundaryConstraints, VerifyBoundary
<1> HIDE DEF p, checks
<1>8. ASSUME VerifyPath(p, RowLeaf(row), root)
      PROVE  /\ D - d = 0 => row = trace[(n % Pow2[d]) + 1]
             /\ D - d > 0 => row = Spelled(Node[(D - d) - 1], n % Pow2[d])
  <2>1. ComputeRoot(p, RowLeaf(row)) = NodeOf(trace)[D][0]
    BY <1>2, <1>8 DEF VerifyPath, Node
  <2>2. /\ D - p.depth = 0 => row = trace[(p.index % Pow2[p.depth]) + 1]
        /\ D - p.depth > 0 =>
             row = Spelled(NodeOf(trace)[(D - p.depth) - 1], p.index % Pow2[p.depth])
    BY <1>6, <2>1, PathDown
  <2> QED BY <1>6, <2>2 DEF Node
<1>9. TreeType' /\ Rooting'
  BY <1>1, <1>5 DEF TreeType, Rooting
<1>10. Node' = Node
  BY <1>1, NodeKept
<1>11. Rooted' /\ Opening'
  BY <1>1, <1>2, <1>10 DEF Rooted, Opening
<1>12. PathsAuthenticate'
  <2>1. revealed'.ok =>
          /\ path.depth - revealed'.path.depth = 0 =>
               revealed'.row = trace[(revealed'.path.index % Pow2[revealed'.path.depth]) + 1]
          /\ path.depth - revealed'.path.depth > 0 =>
               revealed'.row = Spelled(Node[(path.depth - revealed'.path.depth) - 1],
                                       revealed'.path.index % Pow2[revealed'.path.depth])
          /\ revealed'.value = revealed'.row[1]
    BY <1>3, <1>5, <1>6, <1>7, <1>8
  <2>2. /\ Len(trace) \in PowersOfTwo
        /\ path.index < Len(trace) => VerifyPath(path, RowLeaf(trace[path.index + 1]), root)
    BY <1>1 DEF TreeInv, PathsAuthenticate
  <2> QED BY <1>1, <1>5, <1>10, <2>1, <2>2 DEF PathsAuthenticate, VerifyPath
<1> QED BY <1>9, <1>11, <1>12 DEF TreeInv

(* A configuration that is accepted has a length with more than one row. *)
LEMMA NewAetKeeps ==
  ASSUME TreeInv, NewAet
  PROVE  TreeInv'
<1>1. PICK s \in AetSizes : revealed' = [call |-> "aet", size |-> s,
                                         ok |-> ~(s[1] = 0 \/ s[1] > MAX_DEPTH \/ s[2] = 0)]
  BY DEF NewAet
<1>2. phase = "idle" /\ root = NoRoot /\ UNCHANGED <<trace, phase, level, root, path, idx>>
  BY DEF NewAet
<1>3. TreeType' /\ Rooting' /\ Rooted' /\ Opening'
  BY <1>1, <1>2 DEF TreeInv, TreeType, Rooting, Rooted, Opening
<1>4. ASSUME ~(s[1] = 0 \/ s[1] > MAX_DEPTH \/ s[2] = 0)
      PROVE  Pow2[s[1]] \in PowersOfTwo \ {1}
  <2>1. s[1] \in Nat
    BY TreeAssumption
  <2>2. s[1] \in 1..MAX_DEPTH
    BY <1>4, <2>1, DepthType
  <2>3. s[1] \in 0..MAX_DEPTH /\ 0 \in 0..MAX_DEPTH /\ Pow2[0] = 1 /\ Pow2[s[1]] # Pow2[0]
    BY <2>2, PowFacts, RootOnce, DepthType
  <2> QED BY <2>3 DEF PowersOfTwo
<1>5. PathsAuthenticate'
  BY <1>1, <1>2, <1>4 DEF PathsAuthenticate
<1> QED BY <1>3, <1>5 DEF TreeInv

(* Forgetting the tree leaves none. *)
LEMMA TreeForgetKeeps ==
  ASSUME TreeForget
  PROVE  TreeInv'
<1>1. TreeType'
  BY DepthType DEF TreeForget, TreeType, NoPath, NotRevealed, NoRoot
<1> QED BY <1>1 DEF TreeForget, TreeInv, Rooting, Rooted, Opening, PathsAuthenticate, NotRevealed

(* Steps of others leave the tree. *)
LEMMA TreeStutterKeeps ==
  ASSUME TreeInv, UNCHANGED treeVars
  PROVE  TreeInv'
<1>1. UNCHANGED <<trace, phase, level, root, path, idx, revealed>>
  BY DEF treeVars
<1>2. Node' = Node
  BY <1>1, NodeKept
<1>3. TreeType' /\ PathsAuthenticate'
  BY <1>1, <1>2 DEF TreeInv, TreeType, PathsAuthenticate, VerifyPath
<1>4. Rooting' /\ Rooted'
  BY <1>1, <1>2 DEF TreeInv, Rooting, Rooted, IsLevel
<1>5. Opening'
  BY <1>1, <1>2 DEF TreeInv, Opening, IsLevel
<1> QED BY <1>3, <1>4, <1>5 DEF TreeInv

(* Whatever the traces, the level at hand is a level of the tree over the trace, a root is
   the root of that tree, and the path being opened holds the siblings below it. *)
THEOREM TreeInvariant == TreeSpec => []TreeInv
<1>1. ASSUME TreeInv, [TreeNext]_treeVars PROVE TreeInv'
  BY <1>1, CommitTraceKeeps, RootLevelKeeps, OpenKeeps, OpenLevelKeeps, RevealKeeps, NewAetKeeps,
     TreeForgetKeeps, TreeStutterKeeps DEF TreeNext
<1> QED BY <1>1, TreeInitInv, PTL DEF TreeSpec

(* Whatever the traces, the rows opened, the rows claimed and the paths sent with them: a
   path as long as the tree is deep verifies only the committed row at its index, a shorter
   one only the row that spells two digests of the tree, each with the value that the
   constraint demands; a path opened verifies its row. *)
THEOREM PathsAuthentic == TreeSpec => []PathsAuthenticate
<1>1. TreeInv => PathsAuthenticate
  BY DEF TreeInv
<1> QED BY <1>1, TreeInvariant, PTL

-----------------------------------------------------------------------------
(* Quotient and remainder.                                                  *)
LEMMA DivMod ==
  ASSUME NEW v \in Int, NEW m \in Nat, m > 0
  PROVE  /\ v = m * (v \div m) + (v % m)
         /\ v \div m \in Int /\ v % m \in 0..(m - 1)
<1>1. v = m * (v \div m) + (v % m)
  BY Z3
<1>2. v \div m \in Int /\ v % m \in 0..(m - 1)
  BY SMT
<1> QED
  BY <1>1, <1>2

(* Quotient and remainder are unique.                                      *)
LEMMA DivModIs ==
  ASSUME NEW v \in Int, NEW m \in Nat, m > 0, NEW k \in Int, NEW s \in 0..(m - 1),
         v = m * k + s
  PROVE  v \div m = k /\ v % m = s
<1> DEFINE d == v \div m
           r == v % m
<1>1. v = m * d + r /\ d \in Int /\ r \in 0..(m - 1)
  BY DivMod
<1> HIDE DEF d, r
<1>2. ~ (d < k)
  <2>1. d < k => m * (d + 1) <= m * k
    BY <1>1, Z3
  <2>2. m * (d + 1) = m * d + m
    BY <1>1, Z3
  <2> QED
    BY <1>1, <2>1, <2>2
<1>3. ~ (k < d)
  <2>1. k < d => m * (k + 1) <= m * d
    BY <1>1, Z3
  <2>2. m * (k + 1) = m * k + m
    BY Z3
  <2> QED
    BY <1>1, <2>1, <2>2
<1>4. d = k
  BY <1>1, <1>2, <1>3
<1>5. r = s
  BY <1>1, <1>4
<1> QED
  BY <1>4, <1>5 DEF d, r


-----------------------------------------------------------------------------
(* The addition on byte arrays, digit by digit.                             *)

(* The powers of the base of bytes are defined.                             *)
LEMMA ByteToUnfolds ==
  ByteTo = [k \in 0..(Bytes + 1) |-> IF k = 0 THEN 1 ELSE Byte * ByteTo[k - 1]]
<1> DEFINE Step(f, k) == IF k = 0 THEN 1 ELSE Byte * f[k - 1]
           P(n) == \E f : f = [k \in 0..n |-> Step(f, k)]
           Q == {n \in Nat : P(n)}
<1>1. 0 \in Q
  <2> DEFINE f == [k \in 0..0 |-> 1]
  <2>1. f = [k \in 0..0 |-> Step(f, k)]
    OBVIOUS
  <2> QED BY <2>1
<1>2. ASSUME NEW n \in Q PROVE n + 1 \in Q
  <2> HIDE DEF Step
  <2>1. PICK f : f = [k \in 0..n |-> Step(f, k)]
    OBVIOUS
  <2> DEFINE f1 == [k \in 0..(n + 1) |-> Step(f, k)]
  <2>2. \A k \in 0..n : f1[k] = f[k]
    BY <2>1
  <2>3. ASSUME NEW k \in 0..(n + 1) PROVE Step(f, k) = Step(f1, k)
    <3>1. k # 0 => k - 1 \in 0..n
      OBVIOUS
    <3> HIDE DEF f1
    <3>2. k # 0 => f1[k - 1] = f[k - 1]
      BY <2>2, <3>1
    <3> QED BY <3>2 DEF Step
  <2>4. f1 = [k \in 0..(n + 1) |-> Step(f1, k)]
    BY <2>3
  <2> HIDE DEF f1
  <2>5. n + 1 \in Nat /\ P(n + 1)
    BY <2>4
  <2> HIDE DEF P
  <2> QED BY <2>5
<1>3. P(Bytes + 1)
  <2>1. Q \in SUBSET Nat
    OBVIOUS
  <2>2. Q = Nat
    <3> HIDE DEF Q
    <3> QED BY <1>1, <1>2, <2>1, Inductive
  <2>3. Bytes + 1 \in Nat
    BY BytesAssumption
  <2> HIDE DEF P
  <2> QED BY <2>2, <2>3
<1> QED BY <1>3 DEF ByteTo

(* They are positive numbers.                                               *)
LEMMA ByteToFacts ==
  /\ Byte \in Nat /\ Byte > 1 /\ Bytes \in Nat /\ Bytes > 0 /\ ByteTo[0] = 1
  /\ \A k \in 0..(Bytes + 1) : ByteTo[k] \in Nat /\ ByteTo[k] > 0
  /\ \A k \in 0..Bytes : ByteTo[k + 1] = Byte * ByteTo[k]
<1>1. Byte \in Nat /\ Byte > 1 /\ Bytes \in Nat /\ Bytes > 0
  BY BytesAssumption
<1>2. ByteTo[0] = 1
  BY <1>1, ByteToUnfolds
<1>3. \A k \in 0..Bytes : ByteTo[k + 1] = Byte * ByteTo[k]
  <2> TAKE k \in 0..Bytes
  <2>1. k + 1 \in 0..(Bytes + 1) /\ k + 1 # 0 /\ (k + 1) - 1 = k
    BY <1>1
  <2> QED BY <2>1, ByteToUnfolds
<1> DEFINE Q == {n \in Nat : n <= Bytes + 1 => ByteTo[n] \in Nat /\ ByteTo[n] > 0}
<1>4. 0 \in Q
  BY <1>2
<1>5. ASSUME NEW n \in Q PROVE n + 1 \in Q
  <2>1. CASE n + 1 <= Bytes + 1
    <3>1. n \in 0..Bytes /\ n <= Bytes + 1
      BY <1>1, <2>1
    <3>2. PICK w \in Nat : w = ByteTo[n] /\ w > 0
      BY <3>1
    <3>3. Byte * w \in Nat /\ Byte * w > 0
      BY <1>1, <3>2
    <3> QED BY <1>3, <3>1, <3>2, <3>3
  <2> QED BY <2>1
<1>6. Q = Nat
  <2>1. Q \in SUBSET Nat
    OBVIOUS
  <2> HIDE DEF Q
  <2> QED BY <1>4, <1>5, <2>1, Inductive
<1>7. \A k \in 0..(Bytes + 1) : ByteTo[k] \in Nat /\ ByteTo[k] > 0
  BY <1>1, <1>6
<1> QED BY <1>1, <1>2, <1>3, <1>7

(* An array of n bytes, and the values of what it begins with.              *)
Arrays(n) == [1..n -> 0..(Byte - 1)]
Beginnings(f, a, n) == f[0] = 0 /\ \A k \in 0..(n - 1) : f[k + 1] = f[k] * Byte + a[k + 1]

(* The value of an array.                                                   *)
Holds(a, n, v) == a \in Arrays(n) /\ \E f : Beginnings(f, a, n) /\ f[n] = v

(* What an array begins with are numbers of so many digits.                 *)
LEMMA PrefixType ==
  ASSUME NEW n \in 0..(Bytes + 1), NEW a \in Arrays(n), NEW f, Beginnings(f, a, n), NEW e \in 0..n
  PROVE  f[e] \in Nat /\ f[e] < ByteTo[e]
<1> DEFINE Q == {k \in Nat : k <= n => f[k] \in Nat /\ f[k] < ByteTo[k]}
<1>1. 0 \in Q
  BY ByteToFacts DEF Beginnings
<1>2. ASSUME NEW k \in Q PROVE k + 1 \in Q
  <2>1. CASE k + 1 <= n
    <3>1. k \in 0..(n - 1) /\ k \in 0..Bytes /\ k + 1 \in 1..n /\ k <= n /\ k \in 0..(Bytes + 1)
      BY <2>1, ByteToFacts
    <3>2. PICK v \in Nat, w \in Nat, d \in 0..(Byte - 1), b \in Nat :
             v = f[k] /\ w = ByteTo[k] /\ d = a[k + 1] /\ b = Byte /\ v < w
      BY <3>1, ByteToFacts DEF Arrays
    <3>3. f[k + 1] = v * b + d /\ ByteTo[k + 1] = b * w
      BY <3>1, <3>2, ByteToFacts DEF Beginnings
    <3>4. v * b + d \in Nat /\ v * b + d < b * w
      <4>1. d \in Nat /\ d < b
        BY <3>2
      <4>2. (v + 1) * b <= w * b
        BY <3>2
      <4>3. (v + 1) * b = v * b + b /\ w * b = b * w /\ v * b \in Nat
        OBVIOUS
      <4> QED BY <4>1, <4>2, <4>3
    <3> QED BY <3>3, <3>4
  <2> QED BY <2>1
<1>3. Q = Nat
  <2>1. Q \in SUBSET Nat
    OBVIOUS
  <2> HIDE DEF Q
  <2> QED BY <1>1, <1>2, <2>1, Inductive
<1> QED BY <1>3

(* They are determined by the array.                                        *)
LEMMA PrefixUnique ==
  ASSUME NEW n \in Nat, NEW a, NEW f, NEW f1, Beginnings(f, a, n), Beginnings(f1, a, n)
  PROVE  f[n] = f1[n]
<1> DEFINE Q == {k \in Nat : k <= n => f[k] = f1[k]}
<1>1. 0 \in Q
  BY DEF Beginnings
<1>2. ASSUME NEW k \in Q PROVE k + 1 \in Q
  <2>1. CASE k + 1 <= n
    <3>1. k \in 0..(n - 1) /\ f[k] = f1[k]
      BY <2>1
    <3> QED BY <3>1 DEF Beginnings
  <2> QED BY <2>1
<1>3. Q = Nat
  <2>1. Q \in SUBSET Nat
    OBVIOUS
  <2> HIDE DEF Q
  <2> QED BY <1>1, <1>2, <2>1, Inductive
<1> QED BY <1>3

(* The value of an array is what it holds.                                  *)
LEMMA ValueOfHolds ==
  ASSUME NEW n \in 0..(Bytes + 1), NEW a, NEW v, Holds(a, n, v)
  PROVE  ValueOf(a) = v
<1>0. n \in Nat /\ a \in Arrays(n) /\ Len(a) = n
  BY ByteToFacts DEF Holds, Arrays
<1> DEFINE Step(f, k) == IF k = 0 THEN 0 ELSE f[k - 1] * Byte + a[k]
           P(m) == \E f : f = [k \in 0..m |-> Step(f, k)]
           Q == {m \in Nat : P(m)}
<1>1. 0 \in Q
  <2> DEFINE f == [k \in 0..0 |-> 0]
  <2>1. f = [k \in 0..0 |-> Step(f, k)]
    OBVIOUS
  <2> QED BY <2>1
<1>2. ASSUME NEW m \in Q PROVE m + 1 \in Q
  <2> HIDE DEF Step
  <2>1. PICK f : f = [k \in 0..m |-> Step(f, k)]
    OBVIOUS
  <2> DEFINE f1 == [k \in 0..(m + 1) |-> Step(f, k)]
  <2>2. \A k \in 0..m : f1[k] = f[k]
    BY <2>1
  <2>3. ASSUME NEW k \in 0..(m + 1) PROVE Step(f, k) = Step(f1, k)
    <3>1. k # 0 => k - 1 \in 0..m
      OBVIOUS
    <3> HIDE DEF f1
    <3>2. k # 0 => f1[k - 1] = f[k - 1]
      BY <2>2, <3>1
    <3> QED BY <3>2 DEF Step
  <2>4. f1 = [k \in 0..(m + 1) |-> Step(f1, k)]
    BY <2>3
  <2> HIDE DEF f1
  <2>5. m + 1 \in Nat /\ P(m + 1)
    BY <2>4
  <2> HIDE DEF P
  <2> QED BY <2>5
<1>3. P(Len(a))
  <2>1. Q \in SUBSET Nat
    OBVIOUS
  <2>2. Q = Nat
    <3> HIDE DEF Q
    <3> QED BY <1>1, <1>2, <2>1, Inductive
  <2> HIDE DEF P
  <2> QED BY <1>0, <2>2
<1> DEFINE value == CHOOSE f : f = [k \in 0..Len(a) |-> Step(f, k)]
<1>4. value = [k \in 0..Len(a) |-> Step(value, k)]
  BY <1>3
<1>5. ValueOf(a) = value[Len(a)]
  BY DEF ValueOf
<1> HIDE DEF value
<1>6. Beginnings(value, a, n)
  <2>1. value[0] = 0
    BY <1>0, <1>4
  <2>2. ASSUME NEW k \in 0..(n - 1) PROVE value[k + 1] = value[k] * Byte + a[k + 1]
    <3>1. k + 1 \in 0..Len(a) /\ k + 1 # 0 /\ (k + 1) - 1 = k
      BY <1>0
    <3> QED BY <1>4, <3>1
  <2> QED BY <2>1, <2>2 DEF Beginnings
<1>7. PICK f : Beginnings(f, a, n) /\ f[n] = v
  BY DEF Holds
<1>8. value[n] = f[n]
  BY <1>0, <1>6, <1>7, PrefixUnique
<1> QED BY <1>0, <1>5, <1>7, <1>8

(* Dropping a digit, in base b.                                             *)
LEMMA NextDigit ==
  ASSUME NEW v \in Nat, NEW w \in Nat, w > 0, NEW b \in Nat, b > 1
  PROVE  v \div w = ((v \div (b * w)) * b) + ((v \div w) % b)
<1>1. PICK w1 \in Nat : w1 = b * w /\ w1 > 0
  OBVIOUS
<1>2. PICK q \in Int, r \in 0..(w - 1) : q = v \div w /\ v = w * q + r
  <2>1. v \in Int
    OBVIOUS
  <2> QED BY <2>1, DivMod
<1>3. PICK q1 \in Int, r1 \in 0..(b - 1) : q1 = q \div b /\ r1 = q % b /\ q = b * q1 + r1
  <2>1. b > 0
    OBVIOUS
  <2> QED BY <2>1, DivMod
<1>4. PICK wr \in Int, s \in Int : wr = w * r1 /\ s = wr + r
  OBVIOUS
<1>5. v = w1 * q1 + s
  <2>1. w * (b * q1 + r1) = (b * w) * q1 + w * r1
    OBVIOUS
  <2>2. PICK big \in Int : big = (b * w) * q1
    OBVIOUS
  <2>3. v = w * q + r /\ w * q = big + wr /\ w1 * q1 = big
    BY <1>1, <1>2, <1>3, <1>4, <2>1, <2>2
  <2> QED BY <1>4, <2>3
<1>6. s \in 0..(w1 - 1)
  <2>1. w * r1 <= w * (b - 1)
    <3>1. r1 <= b - 1 /\ r1 \in Int /\ b - 1 \in Int
      OBVIOUS
    <3> QED BY <3>1
  <2>2. w * (b - 1) = b * w - w
    OBVIOUS
  <2>3. wr <= w1 - w /\ wr >= 0
    BY <1>1, <1>4, <2>1, <2>2
  <2> QED BY <1>1, <1>4, <2>3
<1>7. v \div w1 = q1
  <2>1. v \in Int /\ w1 > 0
    BY <1>1
  <2> QED BY <1>5, <1>6, <2>1, DivModIs
<1>8. q1 * b + r1 = b * q1 + r1
  OBVIOUS
<1> QED BY <1>1, <1>2, <1>3, <1>7, <1>8

(* A number is the value of the array of its digits.                        *)
LEMMA ArrayHolds ==
  ASSUME NEW v \in Nat, v < ByteTo[Bytes]
  PROVE  Holds(ArrayOf(v, Bytes), Bytes, v)
<1> DEFINE n == Bytes
           a == ArrayOf(v, n)
           f == [k \in 0..n |-> v \div ByteTo[n - k]]
<1>1. ASSUME NEW k \in 0..n
      PROVE  n - k \in 0..n /\ ByteTo[n - k] \in Nat /\ ByteTo[n - k] > 0 /\ f[k] \in Int
  <2>1. n - k \in 0..n /\ n - k \in 0..(Bytes + 1)
    BY ByteToFacts
  <2>2. PICK w \in Nat : w = ByteTo[n - k] /\ w > 0
    BY <2>1, ByteToFacts
  <2>3. f[k] = v \div w /\ v \div w \in Int
    BY <2>2, DivMod
  <2> QED BY <2>1, <2>2, <2>3
<1>2. a \in Arrays(n)
  <2>1. ASSUME NEW k \in 1..n PROVE (v \div ByteTo[n - k]) % Byte \in 0..(Byte - 1)
    <3>1. k \in 0..n
      BY ByteToFacts
    <3>2. PICK d \in Int : d = v \div ByteTo[n - k]
      BY <1>1, <3>1
    <3> QED BY <3>2, ByteToFacts, DivMod
  <2> QED BY <2>1 DEF Arrays, ArrayOf
<1>3. f[0] = 0
  <2>1. PICK w \in Nat : w = ByteTo[n] /\ w > 0 /\ v < w
    BY <1>1, ByteToFacts
  <2>2. v = w * 0 + v /\ v \in 0..(w - 1) /\ 0 \in Int
    BY <2>1
  <2>3. v \div w = 0
    BY <2>1, <2>2, DivModIs
  <2>4. 0 \in 0..n /\ n - 0 = n
    BY ByteToFacts
  <2> QED BY <2>1, <2>3, <2>4
<1>4. ASSUME NEW k \in 0..(n - 1) PROVE f[k + 1] = f[k] * Byte + a[k + 1]
  <2>1. k + 1 \in 1..n /\ k + 1 \in 0..n /\ k \in 0..n /\ n - (k + 1) \in 0..Bytes /\ (n - (k + 1)) + 1 = n - k
    BY ByteToFacts
  <2>2. PICK w \in Nat, b \in Nat : w = ByteTo[n - (k + 1)] /\ b = Byte /\ w > 0 /\ b > 1
    BY <1>1, <2>1, ByteToFacts
  <2>3. b * w = ByteTo[n - k]
    BY <2>1, <2>2, ByteToFacts
  <2>4. v \div w = ((v \div (b * w)) * b) + ((v \div w) % b)
    BY <2>2, NextDigit
  <2>5. f[k + 1] = v \div w /\ f[k] = v \div (b * w) /\ a[k + 1] = (v \div w) % b
    BY <2>1, <2>2, <2>3 DEF ArrayOf
  <2> QED BY <2>2, <2>4, <2>5
<1>5. f[n] = v
  <2>1. n \in 0..n /\ n - n = 0
    BY ByteToFacts
  <2>2. v \div 1 = v
    <3>1. v = 1 * v + 0 /\ 0 \in 0..(1 - 1) /\ v \in Int /\ 1 \in Nat /\ 1 > 0
      OBVIOUS
    <3> QED BY <3>1, DivModIs
  <2> QED BY <2>1, <2>2, ByteToFacts
<1> HIDE DEF f, a
<1>6. Beginnings(f, a, n)
  BY <1>3, <1>4 DEF Beginnings
<1> QED BY <1>2, <1>5, <1>6 DEF Holds, a

-----------------------------------------------------------------------------
(* The last digits decide between equal beginnings.                          *)
LEMMA DigitsCompare ==
  ASSUME NEW m \in Nat, NEW p \in Nat, NEW q \in Nat, NEW c \in 0..(m - 1), NEW d \in 0..(m - 1)
  PROVE  /\ p * m + c = q * m + d <=> p = q /\ c = d
         /\ p * m + c < q * m + d <=> p < q \/ (p = q /\ c < d)
<1>1. PICK pm \in Nat, qm \in Nat : pm = p * m /\ qm = q * m
  OBVIOUS
<1>2. p < q => pm + m <= qm
  <2>1. p < q => (p + 1) * m <= q * m
    OBVIOUS
  <2>2. (p + 1) * m = p * m + m
    OBVIOUS
  <2> QED BY <1>1, <2>1, <2>2
<1>3. q < p => qm + m <= pm
  <2>1. q < p => (q + 1) * m <= p * m
    OBVIOUS
  <2>2. (q + 1) * m = q * m + m
    OBVIOUS
  <2> QED BY <1>1, <2>1, <2>2
<1>4. p = q => pm = qm
  BY <1>1
<1>5. /\ pm + c = qm + d <=> p = q /\ c = d
      /\ pm + c < qm + d <=> p < q \/ (p = q /\ c < d)
  BY <1>2, <1>3, <1>4
<1> QED BY <1>1, <1>5

(* The first position that differs decides which array is greater.          *)
LEMMA BeGeCompares ==
  ASSUME NEW n \in 0..(Bytes + 1), NEW a, NEW b, NEW v, NEW w, Holds(a, n, v), Holds(b, n, w)
  PROVE  BeGe(a, b) <=> v >= w
<1>0. n \in Nat /\ a \in Arrays(n) /\ b \in Arrays(n) /\ DOMAIN a = 1..n
  BY ByteToFacts DEF Holds, Arrays
<1>1. PICK f : Beginnings(f, a, n) /\ f[n] = v
  BY DEF Holds
<1>2. PICK g1 : Beginnings(g1, b, n) /\ g1[n] = w
  BY DEF Holds
<1> DEFINE Less(k) == \E c \in 1..k : a[c] < b[c] /\ \A l \in 1..(c - 1) : a[l] = b[l]
           Equal(k) == \A l \in 1..k : a[l] = b[l]
           Q == {k \in Nat : k <= n => (f[k] = g1[k] <=> Equal(k)) /\ (f[k] < g1[k] <=> Less(k))}
<1>3. \A k \in 0..n : f[k] \in Nat /\ g1[k] \in Nat
  BY <1>0, <1>1, <1>2, PrefixType
<1>4. 0 \in Q
  BY <1>1, <1>2 DEF Beginnings
<1>5. ASSUME NEW k \in Q PROVE k + 1 \in Q
  <2>1. CASE k + 1 <= n
    <3>1. k \in 0..(n - 1) /\ k + 1 \in 1..n /\ k \in 0..n /\ k \in Nat /\ k + 1 \in Nat
      BY <2>1
    <3>2. PICK p \in Nat, q \in Nat, c \in 0..(Byte - 1), d \in 0..(Byte - 1) :
             p = f[k] /\ q = g1[k] /\ c = a[k + 1] /\ d = b[k + 1]
      BY <1>0, <1>3, <3>1 DEF Arrays
    <3>3. f[k + 1] = p * Byte + c /\ g1[k + 1] = q * Byte + d
      BY <1>1, <1>2, <3>1, <3>2 DEF Beginnings
    <3>4. /\ f[k + 1] = g1[k + 1] <=> p = q /\ c = d
          /\ f[k + 1] < g1[k + 1] <=> p < q \/ (p = q /\ c < d)
      BY <3>2, <3>3, ByteToFacts, DigitsCompare
    <3>5. Equal(k + 1) <=> Equal(k) /\ a[k + 1] = b[k + 1]
      BY <3>1
    <3>6. Less(k + 1) <=> Less(k) \/ (Equal(k) /\ a[k + 1] < b[k + 1])
      <4>1. ASSUME Less(k + 1) PROVE Less(k) \/ (Equal(k) /\ a[k + 1] < b[k + 1])
        <5>1. PICK e \in 1..(k + 1) : a[e] < b[e] /\ \A l \in 1..(e - 1) : a[l] = b[l]
          BY <4>1
        <5>2. CASE e = k + 1
          BY <3>1, <5>1, <5>2
        <5>3. CASE e # k + 1
          <6>1. e \in 1..k
            BY <3>1, <5>1, <5>3
          <6> QED BY <5>1, <6>1
        <5> QED BY <5>2, <5>3
      <4>2. ASSUME Less(k) PROVE Less(k + 1)
        <5>1. PICK e \in 1..k : a[e] < b[e] /\ \A l \in 1..(e - 1) : a[l] = b[l]
          BY <4>2
        <5>2. e \in 1..(k + 1)
          BY <3>1
        <5> QED BY <5>1, <5>2
      <4>3. ASSUME Equal(k), a[k + 1] < b[k + 1] PROVE Less(k + 1)
        <5>1. k + 1 \in 1..(k + 1) /\ (k + 1) - 1 = k
          BY <3>1
        <5>2. \A l \in 1..((k + 1) - 1) : a[l] = b[l]
          BY <4>3, <5>1
        <5> QED BY <4>3, <5>1, <5>2
      <4> HIDE DEF Less, Equal
      <4> QED BY <4>1, <4>2, <4>3
    <3> HIDE DEF Less, Equal
    <3>7. (f[k] = g1[k] <=> Equal(k)) /\ (f[k] < g1[k] <=> Less(k))
      BY <3>1
    <3>8. (f[k + 1] = g1[k + 1] <=> Equal(k + 1)) /\ (f[k + 1] < g1[k + 1] <=> Less(k + 1))
      BY <3>2, <3>4, <3>5, <3>6, <3>7
    <3> QED BY <3>1, <3>8
  <2> HIDE DEF Less, Equal
  <2> QED BY <2>1
<1>6. Q = Nat
  <2>1. Q \in SUBSET Nat
    OBVIOUS
  <2> HIDE DEF Q
  <2> QED BY <1>4, <1>5, <2>1, Inductive
<1>7. v < w <=> Less(n)
  <2> HIDE DEF Less, Equal
  <2>1. n \in Q
    BY <1>0, <1>6
  <2> QED BY <1>0, <1>1, <1>2, <2>1
<1>8. BeGe(a, b) <=> ~ Less(n)
  BY <1>0 DEF BeGe
<1>9. v \in Nat /\ w \in Nat
  BY <1>0, <1>1, <1>2, <1>3
<1> HIDE DEF Less
<1> QED BY <1>7, <1>8, <1>9

-----------------------------------------------------------------------------
(* A carry or a borrow ripples from the last position to the first: what    *)
(* leaves position k is a function of what enters it.                       *)
LEMMA Ripple ==
  ASSUME NEW n \in Nat, NEW G \in [(1..n) \X {0, 1} -> {0, 1}]
  PROVE  \E f \in [1..(n + 1) -> {0, 1}] :
            f[n + 1] = 0 /\ \A k \in 1..n : f[k] = G[<<k, f[k + 1]>>]
<1> DEFINE P(m) == \E f \in [(n + 1 - m)..(n + 1) -> {0, 1}] :
                      f[n + 1] = 0 /\ \A k \in (n + 1 - m)..n : f[k] = G[<<k, f[k + 1]>>]
           Q == {m \in Nat : m <= n => P(m)}
<1>1. 0 \in Q
  <2> DEFINE f == [k \in (n + 1 - 0)..(n + 1) |-> 0]
  <2>1. f \in [(n + 1 - 0)..(n + 1) -> {0, 1}] /\ f[n + 1] = 0 /\ (n + 1 - 0)..n = {}
    OBVIOUS
  <2> QED BY <2>1
<1>2. ASSUME NEW m \in Q PROVE m + 1 \in Q
  <2>1. ASSUME m + 1 <= n PROVE P(m + 1)
    <3>1. PICK f \in [(n + 1 - m)..(n + 1) -> {0, 1}] :
             f[n + 1] = 0 /\ \A k \in (n + 1 - m)..n : f[k] = G[<<k, f[k + 1]>>]
      BY <2>1
    <3>2. PICK at1 \in 1..n, below \in 2..(n + 1) : at1 = n - m /\ below = at1 + 1 /\ below = n + 1 - m
      BY <2>1
    <3>3. n + 1 - (m + 1) = at1
      BY <3>2
    <3> DEFINE f1 == [k \in at1..(n + 1) |-> IF k = at1 THEN G[<<at1, f[below]>>] ELSE f[k]]
    <3>4. f[below] \in {0, 1} /\ below \in (n + 1 - m)..(n + 1)
      BY <3>1, <3>2
    <3>5. G[<<at1, f[below]>>] \in {0, 1}
      BY <3>2, <3>4
    <3>6. \A k \in at1..(n + 1) : k # at1 => k \in (n + 1 - m)..(n + 1)
      BY <3>2
    <3>7. f1 \in [at1..(n + 1) -> {0, 1}]
      BY <3>1, <3>5, <3>6
    <3>8. f1[n + 1] = 0
      BY <3>1, <3>2
    <3>9. ASSUME NEW k \in at1..n PROVE f1[k] = G[<<k, f1[k + 1]>>]
      <4>1. k \in at1..(n + 1) /\ k + 1 \in at1..(n + 1) /\ k + 1 # at1
        BY <3>2
      <4>2. f1[k + 1] = f[k + 1]
        BY <4>1
      <4>3. CASE k = at1
        BY <3>2, <4>1, <4>2, <4>3
      <4>4. CASE k # at1
        <5>1. k \in (n + 1 - m)..n
          BY <3>2, <4>4
        <5> QED BY <3>1, <4>1, <4>2, <4>4, <5>1
      <4> QED BY <4>3, <4>4
    <3> HIDE DEF f1
    <3> QED BY <3>3, <3>7, <3>8, <3>9
  <2> HIDE DEF P
  <2> QED BY <2>1
<1>3. P(n)
  <2>1. Q \in SUBSET Nat
    OBVIOUS
  <2>2. Q = Nat
    <3> HIDE DEF Q
    <3> QED BY <1>1, <1>2, <2>1, Inductive
  <2> HIDE DEF P
  <2> QED BY <2>2
<1>4. n + 1 - n = 1
  OBVIOUS
<1> QED BY <1>3, <1>4

(* What ripples is a bit all the way.                                       *)
LEMMA RippleIsBits ==
  ASSUME NEW n \in Nat, NEW G \in [(1..n) \X {0, 1} -> {0, 1}], NEW f, f[n + 1] = 0,
         \A k \in 1..n : f[k + 1] \in {0, 1} => f[k] = G[<<k, f[k + 1]>>], NEW e \in 1..(n + 1)
  PROVE  f[e] \in {0, 1}
<1> DEFINE Q == {m \in Nat : m <= n => f[n + 1 - m] \in {0, 1}}
<1>1. 0 \in Q
  OBVIOUS
<1>2. ASSUME NEW m \in Q PROVE m + 1 \in Q
  <2>1. CASE m + 1 <= n
    <3>1. PICK k \in 1..n : k = n - m /\ k + 1 = n + 1 - m /\ k = n + 1 - (m + 1)
      BY <2>1
    <3>2. f[k + 1] \in {0, 1}
      BY <2>1, <3>1
    <3>3. f[k] \in {0, 1}
      BY <3>2
    <3> QED BY <3>1, <3>3
  <2> QED BY <2>1
<1>3. Q = Nat
  <2>1. Q \in SUBSET Nat
    OBVIOUS
  <2> HIDE DEF Q
  <2> QED BY <1>1, <1>2, <2>1, Inductive
<1>4. PICK m \in Nat : m <= n /\ n + 1 - m = e
  <2>1. n + 1 - e \in Nat /\ n + 1 - e <= n /\ n + 1 - (n + 1 - e) = e
    OBVIOUS
  <2> QED BY <2>1
<1>5. m \in Q
  BY <1>3
<1> QED BY <1>4, <1>5

(* Two digits and a carry are less than twice the base.                     *)
LEMMA CarryIsBit ==
  ASSUME NEW m \in Nat, m > 1, NEW c \in 0..(m - 1), NEW d \in 0..(m - 1), NEW e \in {0, 1}
  PROVE  (c + d + e) \div m \in {0, 1}
<1>1. PICK v \in Int : v = c + d + e /\ v >= 0 /\ v < 2 * m
  OBVIOUS
<1>2. CASE v < m
  <2>1. v = m * 0 + v /\ v \in 0..(m - 1) /\ 0 \in Int /\ m > 0
    BY <1>1, <1>2
  <2>2. v \div m = 0
    BY <2>1, DivModIs
  <2> QED BY <1>1, <2>2
<1>3. CASE v >= m
  <2>1. PICK r \in 0..(m - 1) : v = m * 1 + r /\ 1 \in Int /\ m > 0
    <3>1. v - m \in 0..(m - 1) /\ v = m * 1 + (v - m)
      BY <1>1, <1>3
    <3> QED BY <3>1
  <2>2. v \div m = 1
    BY <2>1, DivModIs
  <2> QED BY <1>1, <2>2
<1> QED BY <1>1, <1>2, <1>3

(* What leaves a position of an addition.                                    *)
LEMMA CarryOut ==
  ASSUME NEW n \in Nat, NEW a \in Arrays(n), NEW b \in Arrays(n), NEW k \in 1..n, NEW c \in {0, 1}
  PROVE  (a[k] + b[k] + c) \div Byte \in {0, 1}
<1>1. PICK da \in 0..(Byte - 1), db \in 0..(Byte - 1) : da = a[k] /\ db = b[k]
  BY DEF Arrays
<1>2. Byte \in Nat /\ Byte > 1
  BY ByteToFacts
<1>3. (da + db + c) \div Byte \in {0, 1}
  BY <1>2, CarryIsBit
<1> QED BY <1>1, <1>3

(* The carries of an addition exist,                                        *)
LEMMA CarriesExist ==
  ASSUME NEW n \in Nat, NEW a \in Arrays(n), NEW b \in Arrays(n)
  PROVE  \E f : f = [k \in 1..(n + 1) |->
                       IF k = n + 1 THEN 0 ELSE (a[k] + b[k] + f[k + 1]) \div Byte]
<1> DEFINE Out(k, c) == (a[k] + b[k] + c) \div Byte
           G == [p \in (1..n) \X {0, 1} |-> Out(p[1], p[2])]
<1>1. \A k \in 1..n, c \in {0, 1} : Out(k, c) \in {0, 1}
  BY CarryOut
<1>2. G \in [(1..n) \X {0, 1} -> {0, 1}] /\ \A k \in 1..n, c \in {0, 1} : G[<<k, c>>] = Out(k, c)
  BY <1>1
<1>3. PICK f \in [1..(n + 1) -> {0, 1}] : f[n + 1] = 0 /\ \A k \in 1..n : f[k] = G[<<k, f[k + 1]>>]
  <2> HIDE DEF G
  <2> QED BY <1>2, Ripple
<1> HIDE DEF G, Out
<1>4. ASSUME NEW k \in 1..(n + 1) PROVE f[k] = IF k = n + 1 THEN 0 ELSE Out(k, f[k + 1])
  <2>1. CASE k # n + 1
    <3>1. k \in 1..n /\ k + 1 \in 1..(n + 1)
      BY <2>1
    <3>2. f[k + 1] \in {0, 1}
      BY <3>1
    <3> QED BY <1>2, <1>3, <2>1, <3>1, <3>2
  <2> QED BY <1>3, <2>1
<1>5. f = [k \in 1..(n + 1) |-> IF k = n + 1 THEN 0 ELSE Out(k, f[k + 1])]
  BY <1>4
<1> QED BY <1>5 DEF Out

(* and are bits.                                                            *)
LEMMA CarriesAre ==
  ASSUME NEW n \in Nat, NEW a \in Arrays(n), NEW b \in Arrays(n), NEW carry,
         carry[n + 1] = 0,
         \A k \in 1..n : carry[k] = (a[k] + b[k] + carry[k + 1]) \div Byte,
         NEW e \in 1..(n + 1)
  PROVE  carry[e] \in {0, 1}
<1> DEFINE Out(k, c) == (a[k] + b[k] + c) \div Byte
           G == [p \in (1..n) \X {0, 1} |-> Out(p[1], p[2])]
<1>1. \A k \in 1..n, c \in {0, 1} : Out(k, c) \in {0, 1}
  BY CarryOut
<1>2. G \in [(1..n) \X {0, 1} -> {0, 1}] /\ \A k \in 1..n, c \in {0, 1} : G[<<k, c>>] = Out(k, c)
  BY <1>1
<1>3. \A k \in 1..n : carry[k] = Out(k, carry[k + 1])
  OBVIOUS
<1> HIDE DEF G, Out
<1>4. \A k \in 1..n : carry[k + 1] \in {0, 1} => carry[k] = G[<<k, carry[k + 1]>>]
  BY <1>2, <1>3
<1> QED BY <1>2, <1>4, RippleIsBits

(* A sum of arrays holds the sum.                                           *)
LEMMA SumHolds ==
  ASSUME NEW n \in 0..Bytes, NEW a, NEW b, NEW v, NEW w, Holds(a, n, v), Holds(b, n, w)
  PROVE  Holds(BeAdd(a, b), n + 1, v + w)
<1>0. n \in Nat /\ a \in Arrays(n) /\ b \in Arrays(n) /\ Len(a) = n /\ n \in 0..(Bytes + 1)
  BY ByteToFacts DEF Holds, Arrays
<1> DEFINE carry == CHOOSE f : f = [k \in 1..(n + 1) |->
                                      IF k = n + 1 THEN 0 ELSE (a[k] + b[k] + f[k + 1]) \div Byte]
           digit(k) == (a[k] + b[k] + carry[k + 1]) % Byte
           s == <<carry[1]>> \o [k \in 1..n |-> digit(k)]
<1>1. BeAdd(a, b) = s
  BY <1>0 DEF BeAdd
<1>2. /\ \A k \in 1..(n + 1) : carry[k] \in {0, 1}
      /\ carry[n + 1] = 0
      /\ \A k \in 1..n : carry[k] = (a[k] + b[k] + carry[k + 1]) \div Byte
  <2>1. carry = [k \in 1..(n + 1) |-> IF k = n + 1 THEN 0 ELSE (a[k] + b[k] + carry[k + 1]) \div Byte]
    BY <1>0, CarriesExist
  <2> HIDE DEF carry
  <2>2. carry[n + 1] = 0
    BY <1>0, <2>1
  <2>3. ASSUME NEW k \in 1..n PROVE carry[k] = (a[k] + b[k] + carry[k + 1]) \div Byte
    <3>1. k \in 1..(n + 1) /\ k # n + 1
      BY <1>0
    <3> QED BY <2>1, <3>1
  <2>4. ASSUME NEW e \in 1..(n + 1) PROVE carry[e] \in {0, 1}
    BY <1>0, <2>2, <2>3, CarriesAre
  <2> QED BY <2>2, <2>3, <2>4
<1> HIDE DEF carry
<1>3. ASSUME NEW k \in 1..n
      PROVE  /\ k + 1 \in 1..(n + 1) /\ a[k] \in 0..(Byte - 1) /\ b[k] \in 0..(Byte - 1)
             /\ digit(k) \in 0..(Byte - 1)
             /\ a[k] + b[k] + carry[k + 1] = carry[k] * Byte + digit(k)
  <2>1. k + 1 \in 1..(n + 1) /\ k \in 1..(n + 1)
    BY <1>0
  <2>2. PICK da \in 0..(Byte - 1), db \in 0..(Byte - 1), c \in {0, 1} : da = a[k] /\ db = b[k] /\ c = carry[k + 1]
    BY <1>0, <1>2, <2>1 DEF Arrays
  <2>3. PICK t1 \in Nat, m \in Nat : t1 = da + db + c /\ m = Byte /\ m > 0
    BY <2>2, ByteToFacts
  <2>4. t1 = m * (t1 \div m) + (t1 % m) /\ t1 % m \in 0..(m - 1) /\ t1 \div m \in Int
    <3>1. t1 \in Int
      OBVIOUS
    <3> QED BY <2>3, <3>1, DivMod
  <2>5. digit(k) = t1 % m /\ carry[k] = t1 \div m
    BY <1>2, <2>2, <2>3
  <2>6. m * (t1 \div m) = (t1 \div m) * m
    BY <2>4
  <2> QED BY <2>1, <2>2, <2>3, <2>4, <2>5, <2>6
<1> HIDE DEF digit
<1>4. s \in Arrays(n + 1) /\ s[1] = carry[1] /\ \A k \in 1..n : s[k + 1] = digit(k)
  <2> DEFINE D == 0..(Byte - 1)
             rest == [k \in 1..n |-> digit(k)]
  <2>1. rest \in Seq(D) /\ Len(rest) = n
    <3>1. rest \in [1..n -> D]
      BY <1>3
    <3> HIDE DEF D, rest
    <3> QED BY <1>0, <3>1
  <2>2. carry[1] \in D
    <3>1. 1 \in 1..(n + 1)
      BY <1>0
    <3> QED BY <1>2, <3>1, ByteToFacts
  <2>3. \A k \in 1..n : rest[k] = digit(k)
    OBVIOUS
  <2>4. s = <<carry[1]>> \o rest
    OBVIOUS
  <2> HIDE DEF D, rest, s
  <2>5. s \in Seq(D) /\ Len(s) = n + 1 /\ s[1] = carry[1] /\ \A k \in 1..n : s[k + 1] = rest[k]
    BY <1>0, <2>1, <2>2, <2>4
  <2>6. s \in [1..(n + 1) -> D]
    BY <1>0, <2>5
  <2>7. s[1] = carry[1] /\ \A k \in 1..n : s[k + 1] = digit(k)
    BY <2>3, <2>5
  <2> QED BY <2>6, <2>7 DEF Arrays, D
<1> HIDE DEF s
<1>5. PICK f : Beginnings(f, a, n) /\ f[n] = v
  BY DEF Holds
<1>6. PICK g1 : Beginnings(g1, b, n) /\ g1[n] = w
  BY DEF Holds
<1>7. \A k \in 0..n : f[k] \in Nat /\ g1[k] \in Nat
  BY <1>0, <1>5, <1>6, PrefixType
<1> DEFINE h1 == [k \in 0..(n + 1) |-> IF k = 0 THEN 0 ELSE f[k - 1] + g1[k - 1] + carry[k]]
<1>8. h1[0] = 0 /\ \A k \in 0..n : h1[k + 1] = f[k] + g1[k] + carry[k + 1]
  <2>1. \A k \in 0..n : k + 1 \in 0..(n + 1) /\ k + 1 # 0 /\ (k + 1) - 1 = k
    BY <1>0
  <2> QED BY <1>0, <2>1
<1> HIDE DEF h1
<1>9. ASSUME NEW k \in 0..n PROVE h1[k + 1] = h1[k] * Byte + s[k + 1]
  <2>1. CASE k = 0
    <3>1. f[0] = 0 /\ g1[0] = 0 /\ 0 \in 0..n /\ 1 \in 1..(n + 1)
      BY <1>0, <1>5, <1>6 DEF Beginnings
    <3>2. h1[1] = carry[1] /\ carry[1] \in {0, 1}
      BY <1>2, <1>8, <3>1
    <3> QED BY <1>4, <1>8, <2>1, <3>2, ByteToFacts
  <2>2. CASE k # 0
    <3>1. PICK e \in 0..(n - 1) : k = e + 1 /\ k \in 1..n /\ e \in 0..n /\ k \in 1..(n + 1) /\ k + 1 \in 1..(n + 1)
      <4>1. k - 1 \in 0..(n - 1) /\ k = (k - 1) + 1
        BY <1>0, <2>2
      <4> QED BY <1>0, <4>1
    <3>2. PICK p \in Nat, q \in Nat, c \in {0, 1}, da \in Nat, db \in Nat, c1 \in {0, 1}, d \in Nat, m \in Nat :
             /\ p = f[e] /\ q = g1[e] /\ c = carry[k] /\ da = a[k] /\ db = b[k] /\ c1 = carry[k + 1]
             /\ d = digit(k) /\ m = Byte /\ da + db + c1 = c * m + d
      <4>1. f[e] \in Nat /\ g1[e] \in Nat /\ carry[k] \in {0, 1} /\ carry[k + 1] \in {0, 1}
        BY <1>2, <1>7, <3>1
      <4>2. a[k] \in Nat /\ b[k] \in Nat /\ digit(k) \in Nat /\ Byte \in Nat
            /\ a[k] + b[k] + carry[k + 1] = carry[k] * Byte + digit(k)
        BY <1>3, <3>1, ByteToFacts
      <4> QED BY <4>1, <4>2
    <3>3. f[k] = p * m + da /\ g1[k] = q * m + db
      BY <1>5, <1>6, <3>1, <3>2 DEF Beginnings
    <3>4. h1[k + 1] = (p * m + da) + (q * m + db) + c1 /\ h1[k] = p + q + c /\ s[k + 1] = d
      BY <1>4, <1>8, <3>1, <3>2, <3>3
    <3>5. (p + q + c) * m = p * m + q * m + c * m
      OBVIOUS
    <3>6. PICK pm \in Nat, qm \in Nat, cm \in Nat : pm = p * m /\ qm = q * m /\ cm = c * m
      OBVIOUS
    <3>7. h1[k + 1] = (pm + da) + (qm + db) + c1 /\ h1[k] * m = pm + qm + cm /\ da + db + c1 = cm + d
      BY <3>2, <3>4, <3>5, <3>6
    <3> QED BY <3>2, <3>4, <3>7
  <2> QED BY <2>1, <2>2
<1>10. Beginnings(h1, s, n + 1)
  <2>1. (n + 1) - 1 = n
    BY <1>0
  <2> QED BY <1>8, <1>9, <2>1 DEF Beginnings
<1>11. h1[n + 1] = v + w
  <2>1. n \in 0..n
    BY <1>0
  <2> QED BY <1>2, <1>5, <1>6, <1>7, <1>8, <2>1
<1> QED BY <1>1, <1>4, <1>10, <1>11 DEF Holds

-----------------------------------------------------------------------------
(* A digit of a difference and its borrow.                                  *)
LEMMA BorrowOut ==
  ASSUME NEW m \in Nat, m > 1, NEW x \in Int, x >= 0 - m, x < m
  PROVE  x % m \in 0..(m - 1) /\ x = (x % m) - (IF x < 0 THEN m ELSE 0)
<1>1. CASE x < 0
  <2>1. PICK r \in 0..(m - 1) : x = m * (-1) + r /\ r = x + m /\ -1 \in Int /\ m > 0
    <3>1. x + m \in 0..(m - 1) /\ x = m * (-1) + (x + m)
      BY <1>1
    <3> QED BY <3>1
  <2>2. x % m = r
    BY <2>1, DivModIs
  <2> QED BY <1>1, <2>1, <2>2
<1>2. CASE x >= 0
  <2>1. x \in 0..(m - 1) /\ x = m * 0 + x /\ 0 \in Int /\ m > 0
    BY <1>2
  <2>2. x % m = x
    BY <2>1, DivModIs
  <2> QED BY <1>2, <2>1, <2>2
<1> QED BY <1>1, <1>2

(* The borrows of a difference exist.                                       *)
LEMMA BorrowsExist ==
  ASSUME NEW n \in Nat, NEW a \in Arrays(n), NEW b \in Arrays(n)
  PROVE  \E f : f = [k \in 1..(n + 1) |->
                       IF k = n + 1 THEN 0 ELSE IF a[k] - b[k] - f[k + 1] < 0 THEN 1 ELSE 0]
<1> DEFINE Out(k, c) == IF a[k] - b[k] - c < 0 THEN 1 ELSE 0
           G == [p \in (1..n) \X {0, 1} |-> Out(p[1], p[2])]
<1>1. \A k \in 1..n, c \in {0, 1} : Out(k, c) \in {0, 1}
  OBVIOUS
<1>2. G \in [(1..n) \X {0, 1} -> {0, 1}] /\ \A k \in 1..n, c \in {0, 1} : G[<<k, c>>] = Out(k, c)
  BY <1>1
<1>3. PICK f \in [1..(n + 1) -> {0, 1}] : f[n + 1] = 0 /\ \A k \in 1..n : f[k] = G[<<k, f[k + 1]>>]
  <2> HIDE DEF G
  <2> QED BY <1>2, Ripple
<1> HIDE DEF G, Out
<1>4. ASSUME NEW k \in 1..(n + 1) PROVE f[k] = IF k = n + 1 THEN 0 ELSE Out(k, f[k + 1])
  <2>1. CASE k # n + 1
    <3>1. k \in 1..n /\ k + 1 \in 1..(n + 1)
      BY <2>1
    <3>2. f[k + 1] \in {0, 1}
      BY <3>1
    <3> QED BY <1>2, <1>3, <2>1, <3>1, <3>2
  <2> QED BY <1>3, <2>1
<1>5. f = [k \in 1..(n + 1) |-> IF k = n + 1 THEN 0 ELSE Out(k, f[k + 1])]
  BY <1>4
<1> QED BY <1>5 DEF Out

(* The digits and the borrows of a difference.                              *)
LEMMA DifferenceDigits ==
  ASSUME NEW n \in Nat, NEW a \in Arrays(n), NEW b \in Arrays(n)
  PROVE  /\ BeSub(a, b) \in Arrays(n)
         /\ \E borrow :
              /\ \A k \in 1..(n + 1) : borrow[k] \in {0, 1}
              /\ borrow[n + 1] = 0
              /\ \A k \in 1..n : a[k] - b[k] - borrow[k + 1] = BeSub(a, b)[k] - (borrow[k] * Byte)
<1>0. Len(a) = n /\ DOMAIN a = 1..n
  BY DEF Arrays
<1> DEFINE Borrows(f) == f = [k \in 1..(n + 1) |->
                        IF k = n + 1 THEN 0 ELSE IF a[k] - b[k] - f[k + 1] < 0 THEN 1 ELSE 0]
           borrow == CHOOSE f : Borrows(f)
           digit(k) == (a[k] - b[k] - borrow[k + 1]) % Byte
           s == [k \in 1..n |-> digit(k)]
<1>1. BeSub(a, b) = s
  BY <1>0 DEF BeSub
<1>2. /\ \A k \in 1..(n + 1) : borrow[k] \in {0, 1}
      /\ borrow[n + 1] = 0
      /\ \A k \in 1..n : borrow[k] = IF a[k] - b[k] - borrow[k + 1] < 0 THEN 1 ELSE 0
  <2>1. borrow = [k \in 1..(n + 1) |->
                    IF k = n + 1 THEN 0 ELSE IF a[k] - b[k] - borrow[k + 1] < 0 THEN 1 ELSE 0]
    <3>0. n \in Nat /\ a \in Arrays(n) /\ b \in Arrays(n)
      BY <1>0
    <3>1. \E f : Borrows(f)
      BY ONLY <3>0, BorrowsExist
    <3>2. Borrows(borrow)
      <4> HIDE DEF Borrows
      <4> QED BY <3>1
    <3> HIDE DEF borrow
    <3> QED BY <3>2
  <2> HIDE DEF borrow
  <2>2. borrow[n + 1] = 0
    BY <1>0, <2>1
  <2>3. ASSUME NEW k \in 1..n PROVE borrow[k] = IF a[k] - b[k] - borrow[k + 1] < 0 THEN 1 ELSE 0
    <3>1. k \in 1..(n + 1) /\ k # n + 1
      BY <1>0
    <3> QED BY <2>1, <3>1
  <2>4. ASSUME NEW e \in 1..(n + 1) PROVE borrow[e] \in {0, 1}
    <3>1. e = n + 1 \/ e \in 1..n
      BY <1>0
    <3> QED BY <2>2, <2>3, <3>1
  <2> QED BY <2>2, <2>3, <2>4
<1> HIDE DEF borrow
<1>3. ASSUME NEW k \in 1..n
      PROVE  /\ k + 1 \in 1..(n + 1) /\ k \in 1..(n + 1) /\ a[k] \in 0..(Byte - 1) /\ b[k] \in 0..(Byte - 1)
             /\ digit(k) \in 0..(Byte - 1)
             /\ a[k] - b[k] - borrow[k + 1] = digit(k) - (borrow[k] * Byte)
  <2>1. k + 1 \in 1..(n + 1) /\ k \in 1..(n + 1)
    BY <1>0
  <2>2. PICK da \in 0..(Byte - 1), db \in 0..(Byte - 1), c \in {0, 1} : da = a[k] /\ db = b[k] /\ c = borrow[k + 1]
    BY <1>0, <1>2, <2>1 DEF Arrays
  <2>3. PICK m \in Nat : m = Byte /\ m > 1
    BY ByteToFacts
  <2>4. PICK x \in Int : x = da - db - c /\ x >= 0 - m /\ x < m
    BY <2>2, <2>3
  <2>5. x % m \in 0..(m - 1) /\ x = (x % m) - (IF x < 0 THEN m ELSE 0)
    BY <2>3, <2>4, BorrowOut
  <2>6. digit(k) = x % m /\ borrow[k] = IF x < 0 THEN 1 ELSE 0
    BY <1>2, <2>2, <2>3, <2>4
  <2> HIDE DEF digit
  <2>7. borrow[k] * m = IF x < 0 THEN m ELSE 0
    BY <2>3, <2>6
  <2> QED BY <2>1, <2>2, <2>3, <2>4, <2>5, <2>6, <2>7
<1>4. s \in Arrays(n) /\ \A k \in 1..n : s[k] = digit(k)
  BY <1>3 DEF Arrays
<1> HIDE DEF digit, s
<1>5. \A k \in 1..n : a[k] - b[k] - borrow[k + 1] = s[k] - (borrow[k] * Byte)
  BY <1>3, <1>4
<1> QED BY <1>1, <1>2, <1>4, <1>5

(* A difference of arrays holds the difference, when it is not negative.    *)
LEMMA DifferenceHolds ==
  ASSUME NEW n \in 0..(Bytes + 1), NEW a, NEW b, NEW v, NEW w, Holds(a, n, v), Holds(b, n, w), v >= w
  PROVE  Holds(BeSub(a, b), n, v - w)
<1>0. n \in Nat /\ a \in Arrays(n) /\ b \in Arrays(n)
  BY ByteToFacts DEF Holds, Arrays
<1> DEFINE s == BeSub(a, b)
<1>1. s \in Arrays(n)
  BY <1>0, DifferenceDigits
<1>2. PICK borrow :
        /\ \A k \in 1..(n + 1) : borrow[k] \in {0, 1}
        /\ borrow[n + 1] = 0
        /\ \A k \in 1..n : a[k] - b[k] - borrow[k + 1] = s[k] - (borrow[k] * Byte)
  BY <1>0, DifferenceDigits
<1> HIDE DEF s
<1>5. PICK f : Beginnings(f, a, n) /\ f[n] = v
  BY DEF Holds
<1>6. PICK g1 : Beginnings(g1, b, n) /\ g1[n] = w
  BY DEF Holds
<1>7. \A k \in 0..n : f[k] \in Nat /\ g1[k] \in Nat
  BY <1>0, <1>5, <1>6, PrefixType
<1>8. PICK top \in {0, 1} : top = borrow[1]
  <2>1. 1 \in 1..(n + 1)
    BY <1>0
  <2> QED BY <1>2, <2>1
<1> DEFINE h1 == [k \in 0..n |-> f[k] - g1[k] - borrow[k + 1] + (top * ByteTo[k])]
<1>9. \A k \in 0..n : h1[k] = f[k] - g1[k] - borrow[k + 1] + (top * ByteTo[k])
  OBVIOUS
<1> HIDE DEF h1
<1>10. h1[0] = 0
  <2>1. f[0] = 0 /\ g1[0] = 0 /\ 0 \in 0..n /\ 0 + 1 = 1
    BY <1>0, <1>5, <1>6 DEF Beginnings
  <2>2. h1[0] = 0 - 0 - top + (top * 1)
    BY <1>8, <1>9, <2>1, ByteToFacts
  <2> QED BY <2>2
<1>11. ASSUME NEW k \in 0..(n - 1) PROVE h1[k + 1] = h1[k] * Byte + s[k + 1]
  <2>1. /\ k \in 0..n /\ k + 1 \in 0..n /\ k + 1 \in 1..n /\ k \in 0..Bytes /\ k \in 0..(Bytes + 1)
        /\ k + 1 \in 1..(n + 1) /\ (k + 1) + 1 \in 1..(n + 1)
    BY <1>0, ByteToFacts
  <2>2. PICK p \in Nat, q \in Nat, c \in {0, 1}, da \in Nat, db \in Nat, c1 \in {0, 1}, d \in Nat, m \in Nat, w1 \in Nat :
           /\ p = f[k] /\ q = g1[k] /\ c = borrow[k + 1] /\ da = a[k + 1] /\ db = b[k + 1]
           /\ c1 = borrow[(k + 1) + 1] /\ d = s[k + 1] /\ m = Byte /\ w1 = ByteTo[k]
           /\ da - db - c1 = d - (c * m)
    <3>1. f[k] \in Nat /\ g1[k] \in Nat /\ borrow[k + 1] \in {0, 1} /\ borrow[(k + 1) + 1] \in {0, 1} /\ ByteTo[k] \in Nat
      BY <1>2, <1>7, <2>1, ByteToFacts
    <3>2. a[k + 1] \in Nat /\ b[k + 1] \in Nat /\ s[k + 1] \in Nat /\ Byte \in Nat
          /\ a[k + 1] - b[k + 1] - borrow[(k + 1) + 1] = s[k + 1] - (borrow[k + 1] * Byte)
      BY <1>0, <1>1, <1>2, <2>1, ByteToFacts DEF Arrays
    <3> QED BY <3>1, <3>2
  <2>3. f[k + 1] = p * m + da /\ g1[k + 1] = q * m + db /\ ByteTo[k + 1] = m * w1
    BY <1>5, <1>6, <2>1, <2>2, ByteToFacts DEF Beginnings
  <2>4. h1[k + 1] = (p * m + da) - (q * m + db) - c1 + (top * (m * w1)) /\ h1[k] = p - q - c + (top * w1) /\ s[k + 1] = d
    BY <1>9, <2>1, <2>2, <2>3
  <2>5. PICK tw \in Int, pm \in Int, qm \in Int, cm \in Int, twm \in Int :
           tw = top * w1 /\ pm = p * m /\ qm = q * m /\ cm = c * m /\ twm = tw * m
    OBVIOUS
  <2>6. top * (m * w1) = (top * w1) * m
    OBVIOUS
  <2>7. (p - q - c + tw) * m = p * m - q * m - c * m + tw * m
    OBVIOUS
  <2>8. /\ h1[k + 1] = (pm + da) - (qm + db) - c1 + twm
        /\ h1[k] * m = pm - qm - cm + twm /\ da - db - c1 = d - cm
    BY <2>2, <2>4, <2>5, <2>6, <2>7
  <2>9. PICK x \in Int : x = h1[k] * m
    BY <2>8
  <2>10. h1[k + 1] = x + d
    BY <2>8, <2>9
  <2> QED BY <2>2, <2>4, <2>9, <2>10
<1>12. Beginnings(h1, s, n)
  BY <1>10, <1>11 DEF Beginnings
<1>13. n \in 0..n /\ n + 1 \in 1..(n + 1)
  BY <1>0
<1>14. PICK p \in Nat, q \in Nat, w1 \in Nat : p = v /\ q = w /\ w1 = ByteTo[n] /\ p >= q
  BY <1>5, <1>6, <1>7, <1>13, ByteToFacts
<1>15. h1[n] = p - q - 0 + (top * w1)
  BY <1>2, <1>5, <1>6, <1>9, <1>13, <1>14
<1>16. h1[n] < w1
  BY <1>1, <1>12, <1>13, <1>14, PrefixType
<1>17. top = 0
  <2>1. CASE top = 1
    BY <1>14, <1>15, <1>16, <2>1
  <2> QED BY <2>1
<1>18. h1[n] = v - w
  BY <1>14, <1>15, <1>17
<1> QED BY <1>1, <1>12, <1>18 DEF Holds, s

(* Without its first digit, an array is an array of one digit less.         *)
LEMMA TailIsArray ==
  ASSUME NEW n \in Nat, NEW a \in Arrays(n + 1)
  PROVE  Tail(a) \in Arrays(n) /\ \A k \in 1..n : Tail(a)[k] = a[k + 1]
<1> DEFINE D == 0..(Byte - 1)
<1>1. a \in [1..(n + 1) -> D]
  BY DEF Arrays
<1> HIDE DEF D
<1>2. a \in Seq(D) /\ Len(a) = n + 1 /\ a # << >>
  BY <1>1
<1>3. Tail(a) \in Seq(D) /\ Len(Tail(a)) = n /\ \A k \in 1..n : Tail(a)[k] = a[k + 1]
  BY <1>2
<1>4. Tail(a) \in [1..n -> D]
  <2>1. PICK b : b = Tail(a)
    OBVIOUS
  <2>2. b \in Seq(D) /\ Len(b) = n
    BY <1>3, <2>1
  <2>3. b \in [1..n -> D]
    BY <2>2
  <2> QED BY <2>1, <2>3
<1> QED BY <1>3, <1>4 DEF Arrays, D

(* It holds what is below that digit.                                       *)
LEMMA TailHolds ==
  ASSUME NEW n \in 0..Bytes, NEW a, NEW v, Holds(a, n + 1, v)
  PROVE  Holds(Tail(a), n, v % ByteTo[n])
<1>0. n \in Nat /\ n + 1 \in 0..(Bytes + 1) /\ a \in Arrays(n + 1)
  BY ByteToFacts DEF Holds, Arrays
<1>1. Tail(a) \in Arrays(n) /\ \A k \in 1..n : Tail(a)[k] = a[k + 1]
  BY <1>0, TailIsArray
<1>2. PICK f : Beginnings(f, a, n + 1) /\ f[n + 1] = v
  BY DEF Holds
<1>3. \A k \in 0..(n + 1) : f[k] \in Nat
  BY <1>0, <1>2, PrefixType
<1>4. PICK top \in Nat : top = f[1]
  <2>1. 1 \in 0..(n + 1)
    BY <1>0
  <2> QED BY <1>3, <2>1
<1> DEFINE h1 == [k \in 0..n |-> f[k + 1] - (top * ByteTo[k])]
<1>5. \A k \in 0..n : h1[k] = f[k + 1] - (top * ByteTo[k])
  OBVIOUS
<1> HIDE DEF h1
<1>6. h1[0] = 0
  <2>1. 0 \in 0..n /\ 0 + 1 = 1
    BY <1>0
  <2>2. h1[0] = top - (top * 1)
    BY <1>4, <1>5, <2>1, ByteToFacts
  <2> QED BY <2>2
<1>7. ASSUME NEW k \in 0..(n - 1) PROVE h1[k + 1] = h1[k] * Byte + Tail(a)[k + 1]
  <2>1. /\ k \in 0..n /\ k + 1 \in 0..n /\ k + 1 \in 1..n /\ k \in 0..Bytes /\ k \in 0..(Bytes + 1)
        /\ k + 1 \in 0..(n + 1) /\ k + 1 \in 0..((n + 1) - 1) /\ (k + 1) + 1 \in 1..(n + 1)
    BY <1>0, ByteToFacts
  <2>2. PICK p \in Nat, d \in Nat, m \in Nat, w1 \in Nat :
           p = f[k + 1] /\ d = a[(k + 1) + 1] /\ m = Byte /\ w1 = ByteTo[k]
    <3>1. a[(k + 1) + 1] \in 0..(Byte - 1)
      BY <1>0, <2>1 DEF Arrays
    <3>2. f[k + 1] \in Nat /\ a[(k + 1) + 1] \in Nat /\ Byte \in Nat /\ ByteTo[k] \in Nat
      BY <1>3, <2>1, <3>1, ByteToFacts
    <3> QED BY <3>2
  <2>3. f[(k + 1) + 1] = p * m + d /\ ByteTo[k + 1] = m * w1
    BY <1>2, <2>1, <2>2, ByteToFacts DEF Beginnings
  <2>4. h1[k + 1] = (p * m + d) - (top * (m * w1)) /\ h1[k] = p - (top * w1) /\ Tail(a)[k + 1] = d
    BY <1>1, <1>5, <2>1, <2>2, <2>3
  <2>5. (p - (top * w1)) * m = p * m - (top * (m * w1))
    OBVIOUS
  <2>6. PICK x \in Int, y \in Int : x = p * m /\ y = top * (m * w1)
    OBVIOUS
  <2>7. h1[k] * m = x - y /\ h1[k + 1] = (x + d) - y
    BY <2>4, <2>5, <2>6
  <2>8. h1[k + 1] = h1[k] * m + d
    BY <2>7
  <2> QED BY <2>2, <2>4, <2>8
<1>8. Beginnings(h1, Tail(a), n)
  BY <1>6, <1>7 DEF Beginnings
<1>9. n \in 0..n /\ n \in 0..(Bytes + 1) /\ n + 1 \in 0..(n + 1)
  BY <1>0, ByteToFacts
<1>10. h1[n] \in Nat /\ h1[n] < ByteTo[n]
  BY <1>1, <1>8, <1>9, PrefixType
<1>11. PICK m \in Nat, r \in Nat, x \in Int : m = ByteTo[n] /\ m > 0 /\ r = h1[n] /\ r < m /\ x = v
  <2>1. ByteTo[n] \in Nat /\ ByteTo[n] > 0 /\ v \in Int
    BY <1>2, <1>3, <1>9, ByteToFacts
  <2> QED BY <1>10, <2>1
<1>12. x = m * top + r
  <2>1. r = x - (top * m)
    BY <1>2, <1>5, <1>9, <1>11
  <2>2. m * top = top * m
    OBVIOUS
  <2> QED BY <2>1, <2>2
<1>13. x % m = r
  <2>1. top \in Int /\ r \in 0..(m - 1) /\ m > 0
    BY <1>11
  <2> QED BY <1>12, <2>1, DivModIs
<1> QED BY <1>1, <1>8, <1>11, <1>13 DEF Holds

(* With a zero before it.                                                   *)
LEMMA ZeroExtendHolds ==
  ASSUME NEW n \in 0..Bytes, NEW a, NEW v, Holds(a, n, v)
  PROVE  Holds(ZeroExtend(a), n + 1, v)
<1>0. n \in Nat /\ a \in Arrays(n) /\ n \in 0..(Bytes + 1)
  BY ByteToFacts DEF Holds, Arrays
<1> DEFINE z == ZeroExtend(a)
<1>1. z \in Arrays(n + 1) /\ z[1] = 0 /\ \A k \in 1..n : z[k + 1] = a[k]
  <2> DEFINE D == 0..(Byte - 1)
  <2>1. a \in [1..n -> D] /\ 0 \in D
    BY <1>0, ByteToFacts DEF Arrays
  <2>2. z = <<0>> \o a
    BY DEF ZeroExtend
  <2> HIDE DEF D, z
  <2>3. a \in Seq(D) /\ Len(a) = n
    BY <1>0, <2>1
  <2>4. z \in Seq(D) /\ Len(z) = n + 1 /\ z[1] = 0 /\ \A k \in 1..n : z[k + 1] = a[k]
    BY <1>0, <2>1, <2>2, <2>3
  <2>5. z \in [1..(n + 1) -> D]
    BY <1>0, <2>4
  <2> QED BY <2>4, <2>5 DEF Arrays, D
<1>2. PICK f : Beginnings(f, a, n) /\ f[n] = v
  BY DEF Holds
<1> HIDE DEF z
<1> DEFINE h1 == [k \in 0..(n + 1) |-> IF k = 0 THEN 0 ELSE f[k - 1]]
<1>3. h1[0] = 0 /\ \A k \in 0..n : h1[k + 1] = f[k]
  <2>1. \A k \in 0..n : k + 1 \in 0..(n + 1) /\ k + 1 # 0 /\ (k + 1) - 1 = k
    BY <1>0
  <2> QED BY <1>0, <2>1
<1> HIDE DEF h1
<1>4. ASSUME NEW k \in 0..n PROVE h1[k + 1] = h1[k] * Byte + z[k + 1]
  <2>1. CASE k = 0
    <3>1. f[0] = 0 /\ 0 \in 0..n
      BY <1>0, <1>2 DEF Beginnings
    <3> QED BY <1>1, <1>3, <2>1, <3>1, ByteToFacts
  <2>2. CASE k # 0
    <3>1. PICK e \in 0..(n - 1) : k = e + 1 /\ e \in 0..n /\ k \in 1..n
      <4>1. k - 1 \in 0..(n - 1) /\ k = (k - 1) + 1
        BY <1>0, <2>2
      <4> QED BY <1>0, <4>1
    <3>2. f[k] = f[e] * Byte + a[k]
      BY <1>2, <3>1 DEF Beginnings
    <3> QED BY <1>1, <1>3, <3>1, <3>2
  <2> QED BY <2>1, <2>2
<1>5. Beginnings(h1, z, n + 1)
  <2>1. (n + 1) - 1 = n
    BY <1>0
  <2> QED BY <1>3, <1>4, <2>1 DEF Beginnings
<1>6. h1[n + 1] = v
  <2>1. n \in 0..n
    BY <1>0
  <2> QED BY <1>2, <1>3, <2>1
<1> QED BY <1>1, <1>5, <1>6 DEF Holds, z

-----------------------------------------------------------------------------
(* A selection is one of the two arrays.                                    *)
LEMMA SelectIs ==
  ASSUME NEW n \in Nat, NEW a \in Arrays(n), NEW b \in Arrays(n)
  PROVE  Select(TRUE, a, b) = a /\ Select(FALSE, a, b) = b
<1>1. DOMAIN a = 1..n /\ a = [k \in 1..n |-> a[k]] /\ b = [k \in 1..n |-> b[k]]
  BY DEF Arrays
<1> QED BY <1>1 DEF Select

(* What an array holds is below the power of its length.                    *)
LEMMA HoldsType ==
  ASSUME NEW n \in 0..(Bytes + 1), NEW a, NEW v, Holds(a, n, v)
  PROVE  n \in Nat /\ a \in Arrays(n) /\ v \in Nat /\ v < ByteTo[n]
<1>1. n \in Nat /\ n \in 0..n /\ a \in Arrays(n)
  BY ByteToFacts DEF Holds
<1>2. PICK f : Beginnings(f, a, n) /\ f[n] = v
  BY DEF Holds
<1> QED BY <1>1, <1>2, PrefixType

(* The larger of a digit more, less the modulus, and cut to a word again.   *)
LEMMA CutHolds ==
  ASSUME NEW n \in 0..Bytes, NEW x, NEW m, NEW v, NEW w,
         Holds(x, n + 1, v), Holds(m, n, w)
  PROVE  /\ Holds(Tail(x), n, v % ByteTo[n])
         /\ BeGe(x, ZeroExtend(m)) <=> v >= w
         /\ Tail(BeSub(x, ZeroExtend(m))) \in Arrays(n)
         /\ v >= w => Holds(Tail(BeSub(x, ZeroExtend(m))), n, (v - w) % ByteTo[n])
<1> DEFINE z == ZeroExtend(m)
<1>1. n \in Nat /\ n + 1 \in Nat /\ n + 1 \in 0..(Bytes + 1)
  BY ByteToFacts
<1>2. Holds(z, n + 1, w)
  BY ZeroExtendHolds
<1>3. x \in Arrays(n + 1) /\ z \in Arrays(n + 1)
  BY <1>1, <1>2, HoldsType
<1> HIDE DEF z
<1>4. Holds(Tail(x), n, v % ByteTo[n])
  BY TailHolds
<1>5. BeGe(x, z) <=> v >= w
  BY <1>1, <1>2, BeGeCompares
<1>6. Tail(BeSub(x, z)) \in Arrays(n)
  <2>1. BeSub(x, z) \in Arrays(n + 1)
    BY <1>1, <1>3, DifferenceDigits
  <2> QED BY <1>1, <2>1, TailIsArray
<1>7. ASSUME v >= w PROVE Holds(Tail(BeSub(x, z)), n, (v - w) % ByteTo[n])
  <2>1. Holds(BeSub(x, z), n + 1, v - w)
    BY <1>1, <1>2, <1>7, DifferenceHolds
  <2> QED BY <2>1, TailHolds
<1> QED BY <1>4, <1>5, <1>6, <1>7 DEF z

(* A number below a power is its own remainder.                             *)
LEMMA SmallRemainder ==
  ASSUME NEW x \in Nat, NEW m \in Nat, x < m
  PROVE  x % m = x
<1>1. x \in Int /\ m > 0 /\ 0 \in Int /\ x \in 0..(m - 1) /\ x = m * 0 + x
  OBVIOUS
<1> QED BY <1>1, DivModIs

(* What a subtraction of the modulus leaves, if it can be subtracted.       *)
Rest(v, w) == IF v >= w THEN v - w ELSE v

(* The first reduction of an operand.                                       *)
LEMMA ReduceOnceHolds ==
  ASSUME NEW n \in 0..Bytes, NEW x, NEW m, NEW v, NEW w, Holds(x, n, v), Holds(m, n, w)
  PROVE  Holds(ReduceOnce(x, m), n, Rest(v, w))
<1> DEFINE z == ZeroExtend(x)
           d == Tail(BeSub(z, ZeroExtend(m)))
<1>1. n \in Nat /\ n + 1 \in 0..(Bytes + 1) /\ n \in 0..(Bytes + 1)
  BY ByteToFacts
<1>2. x \in Arrays(n) /\ v \in Nat /\ w \in Nat /\ v < ByteTo[n] /\ ByteTo[n] \in Nat
  BY <1>1, HoldsType, ByteToFacts
<1>3. Holds(z, n + 1, v)
  BY ZeroExtendHolds
<1> HIDE DEF z
<1>4. /\ BeGe(z, ZeroExtend(m)) <=> v >= w
      /\ d \in Arrays(n)
      /\ v >= w => Holds(d, n, (v - w) % ByteTo[n])
  BY <1>3, CutHolds
<1> HIDE DEF d
<1>5. ReduceOnce(x, m) = Select(BeGe(z, ZeroExtend(m)), d, x)
  BY DEF ReduceOnce, z, d
<1>6. BeGe(z, ZeroExtend(m)) \in BOOLEAN
  BY DEF BeGe
<1>7. Select(TRUE, d, x) = d /\ Select(FALSE, d, x) = x
  BY <1>1, <1>2, <1>4, SelectIs
<1>8. CASE v >= w
  <2>1. PICK r \in Nat : r = v - w /\ r < ByteTo[n]
    BY <1>2, <1>8
  <2>2. r % ByteTo[n] = r
    BY <1>2, <2>1, SmallRemainder
  <2>3. BeGe(z, ZeroExtend(m)) = TRUE
    BY <1>4, <1>6, <1>8
  <2>4. ReduceOnce(x, m) = d
    BY <1>5, <1>7, <2>3
  <2> QED BY <1>4, <1>8, <2>1, <2>2, <2>4 DEF Rest
<1>9. CASE ~ (v >= w)
  <2>1. BeGe(z, ZeroExtend(m)) = FALSE
    BY <1>4, <1>6, <1>9
  <2>2. ReduceOnce(x, m) = x
    BY <1>5, <1>7, <2>1
  <2> QED BY <1>9, <2>2 DEF Rest
<1> QED BY <1>8, <1>9

(* An addition holds what the reductions leave, cut to a word.              *)
LEMMA FieldAddHolds ==
  ASSUME NEW x, NEW y, NEW v, NEW w, Holds(x, Bytes, v), Holds(y, Bytes, w)
  PROVE  /\ v \in Nat /\ w \in Nat
         /\ Holds(FieldAdd(x, y), Bytes,
                  Rest(Rest(v, Modulus) + Rest(w, Modulus), Modulus) % ByteTo[Bytes])
<1> DEFINE n == Bytes
           m == ArrayOf(Modulus, Bytes)
           s == BeAdd(ReduceOnce(x, m), ReduceOnce(y, m))
           d == Tail(BeSub(s, ZeroExtend(m)))
           t == Rest(v, Modulus) + Rest(w, Modulus)
<1>1. n \in Nat /\ n \in 0..Bytes /\ n \in 0..(Bytes + 1) /\ n + 1 \in 0..(Bytes + 1)
  BY ByteToFacts
<1>2. Holds(m, n, Modulus)
  BY ArrayHolds, BytesAssumption
<1> HIDE DEF m
<1>3. v \in Nat /\ w \in Nat
  BY <1>1, HoldsType
<1>4. Holds(s, n + 1, t)
  <2>1. Holds(ReduceOnce(x, m), n, Rest(v, Modulus)) /\ Holds(ReduceOnce(y, m), n, Rest(w, Modulus))
    BY <1>1, <1>2, ReduceOnceHolds
  <2> QED BY <1>1, <2>1, SumHolds
<1> HIDE DEF s, t
<1>5. /\ Holds(Tail(s), n, t % ByteTo[n])
      /\ BeGe(s, ZeroExtend(m)) <=> t >= Modulus
      /\ d \in Arrays(n)
      /\ t >= Modulus => Holds(d, n, (t - Modulus) % ByteTo[n])
  BY <1>1, <1>2, <1>4, CutHolds
<1> HIDE DEF d
<1>6. FieldAdd(x, y) = Select(BeGe(s, ZeroExtend(m)), d, Tail(s))
  BY DEF FieldAdd, m, s, d
<1>7. BeGe(s, ZeroExtend(m)) \in BOOLEAN /\ Tail(s) \in Arrays(n)
  BY <1>1, <1>5, HoldsType DEF BeGe
<1>8. Select(TRUE, d, Tail(s)) = d /\ Select(FALSE, d, Tail(s)) = Tail(s)
  BY <1>1, <1>5, <1>7, SelectIs
<1>9. CASE t >= Modulus
  <2>1. BeGe(s, ZeroExtend(m)) = TRUE
    BY <1>5, <1>7, <1>9
  <2>2. FieldAdd(x, y) = d
    BY <1>6, <1>8, <2>1
  <2> QED BY <1>3, <1>5, <1>9, <2>2 DEF Rest, t
<1>10. CASE ~ (t >= Modulus)
  <2>1. BeGe(s, ZeroExtend(m)) = FALSE
    BY <1>5, <1>7, <1>10
  <2>2. FieldAdd(x, y) = Tail(s)
    BY <1>6, <1>8, <2>1
  <2> QED BY <1>3, <1>5, <1>10, <2>2 DEF Rest, t
<1> QED BY <1>9, <1>10

(* What the reductions leave of a sum, for the operands that matter.        *)
LEMMA RestOfSum ==
  ASSUME NEW m \in Nat, m > 1, NEW v \in Nat, NEW w \in Nat
  PROVE  /\ Rest(Rest(v, m) + Rest(w, m), m) \in Nat
         /\ v < 2 * m /\ w < 2 * m => Rest(Rest(v, m) + Rest(w, m), m) < m
         /\ \E times \in Nat : v + w = m * times + Rest(Rest(v, m) + Rest(w, m), m)
<1> DEFINE r == Rest(Rest(v, m) + Rest(w, m), m)
<1>1. PICK p \in Nat, once \in {0, 1} : p = Rest(v, m) /\ v = m * once + p /\ (v < 2 * m => p < m)
  <2>1. CASE v >= m
    <3>1. v - m \in Nat /\ v = m * 1 + (v - m) /\ Rest(v, m) = v - m /\ (v < 2 * m => v - m < m)
      BY <2>1 DEF Rest
    <3> QED BY <3>1
  <2>2. CASE ~ (v >= m)
    <3>1. v = m * 0 + v /\ Rest(v, m) = v /\ v < m
      BY <2>2 DEF Rest
    <3> QED BY <3>1
  <2> QED BY <2>1, <2>2
<1>2. PICK q \in Nat, k \in {0, 1} : q = Rest(w, m) /\ w = m * k + q /\ (w < 2 * m => q < m)
  <2>1. CASE w >= m
    <3>1. w - m \in Nat /\ w = m * 1 + (w - m) /\ Rest(w, m) = w - m /\ (w < 2 * m => w - m < m)
      BY <2>1 DEF Rest
    <3> QED BY <3>1
  <2>2. CASE ~ (w >= m)
    <3>1. w = m * 0 + w /\ Rest(w, m) = w /\ w < m
      BY <2>2 DEF Rest
    <3> QED BY <3>1
  <2> QED BY <2>1, <2>2
<1>3. PICK e \in Nat, l \in {0, 1} : e = Rest(p + q, m) /\ p + q = m * l + e /\ (p + q < 2 * m => e < m)
  <2>1. CASE p + q >= m
    <3>1. (p + q) - m \in Nat /\ p + q = m * 1 + ((p + q) - m) /\ Rest(p + q, m) = (p + q) - m
          /\ (p + q < 2 * m => (p + q) - m < m)
      BY <2>1 DEF Rest
    <3> QED BY <3>1
  <2>2. CASE ~ (p + q >= m)
    <3>1. p + q = m * 0 + (p + q) /\ Rest(p + q, m) = p + q /\ p + q < m /\ p + q \in Nat
      BY <2>2 DEF Rest
    <3> QED BY <3>1
  <2> QED BY <2>1, <2>2
<1>4. r = e
  BY <1>1, <1>2, <1>3
<1>5. v < 2 * m /\ w < 2 * m => e < m
  BY <1>1, <1>2, <1>3
<1>6. PICK times \in Nat : times = once + k + l
  OBVIOUS
<1>7. v + w = m * times + e
  <2>1. m * (once + k + l) = m * once + m * k + m * l
    OBVIOUS
  <2>2. PICK x1 \in Int, x2 \in Int, x3 \in Int : x1 = m * once /\ x2 = m * k /\ x3 = m * l
    OBVIOUS
  <2> QED BY <1>1, <1>2, <1>3, <1>6, <2>1, <2>2
<1> QED BY <1>4, <1>5, <1>7

(* What is said of an addition, of its operands and its result.             *)
ExactSum(a, b, out) ==
  /\ out \in 0..(ByteTo[Bytes] - 1)
  /\ a < 2 * Modulus /\ b < 2 * Modulus => out = (a + b) % Modulus
  /\ Rest(Rest(a, Modulus) + Rest(b, Modulus), Modulus) < ByteTo[Bytes] => (out - (a + b)) % Modulus = 0

(* An addition on byte arrays is exact, for every size of a byte and of a   *)
(* word and every modulus below a word.                                     *)
LEMMA SumIsExact ==
  ASSUME NEW a \in 0..(ByteTo[Bytes] - 1), NEW b \in 0..(ByteTo[Bytes] - 1), NEW out,
         out = ValueOf(FieldAdd(ArrayOf(a, Bytes), ArrayOf(b, Bytes)))
  PROVE  ExactSum(a, b, out)
<1>1. PICK big \in Nat, m \in Nat : big = ByteTo[Bytes] /\ m = Modulus /\ 1 < m /\ m < big
  <2>1. Bytes \in 0..(Bytes + 1)
    BY ByteToFacts
  <2> QED BY <2>1, ByteToFacts, BytesAssumption
<1>2. PICK v \in Nat, w \in Nat : v = a /\ w = b /\ v < big /\ w < big
  BY <1>1
<1> DEFINE r == Rest(Rest(v, m) + Rest(w, m), m)
<1>3. out = r % big
  <2>1. Holds(ArrayOf(v, Bytes), Bytes, v) /\ Holds(ArrayOf(w, Bytes), Bytes, w)
    BY <1>1, <1>2, ArrayHolds
  <2>2. Holds(FieldAdd(ArrayOf(v, Bytes), ArrayOf(w, Bytes)), Bytes, r % big)
    BY <1>1, <2>1, FieldAddHolds
  <2>3. Bytes \in 0..(Bytes + 1)
    BY ByteToFacts
  <2>4. ValueOf(FieldAdd(ArrayOf(v, Bytes), ArrayOf(w, Bytes))) = r % big
    BY <2>2, <2>3, ValueOfHolds
  <2> QED BY <1>2, <2>4
<1>4. r \in Nat /\ (v < 2 * m /\ w < 2 * m => r < m)
  BY <1>1, RestOfSum
<1>5. PICK times \in Nat : v + w = m * times + r
  <2>1. m > 1
    BY <1>1
  <2>2. \E times \in Nat : v + w = m * times + Rest(Rest(v, m) + Rest(w, m), m)
    BY <2>1, RestOfSum, Zenon
  <2> QED BY <2>2
<1>6. r = Rest(Rest(a, Modulus) + Rest(b, Modulus), Modulus)
  BY <1>1, <1>2
<1> HIDE DEF r
<1>7. r % big \in 0..(big - 1)
  <2>1. r \in Int /\ big > 0
    BY <1>1, <1>4
  <2> QED BY <2>1, DivMod
<1>8. r < big => r % big = r
  BY <1>4, SmallRemainder
<1>9. ASSUME v < 2 * m, w < 2 * m PROVE r % big = (v + w) % m
  <2>1. r < m /\ r < big /\ r \in 0..(m - 1) /\ m > 0 /\ times \in Int /\ v + w \in Int
    BY <1>1, <1>4, <1>9
  <2>2. (v + w) % m = r
    BY <1>5, <2>1, DivModIs
  <2> QED BY <1>8, <2>1, <2>2
<1>10. ASSUME r < big PROVE ((r % big) - (v + w)) % m = 0
  <2>1. PICK x \in Int : x = r - (v + w)
    BY <1>4
  <2>2. PICK j1 \in Int : j1 = 0 - times
    OBVIOUS
  <2>3. x = m * j1 + 0
    <3>1. m * (0 - times) = 0 - (m * times)
      OBVIOUS
    <3>2. PICK mj \in Int : mj = m * times
      OBVIOUS
    <3> QED BY <1>4, <1>5, <2>1, <2>2, <3>1, <3>2
  <2>4. 0 \in 0..(m - 1) /\ m > 0
    BY <1>1
  <2>5. x % m = 0
    BY <2>3, <2>4, DivModIs
  <2> QED BY <1>8, <1>10, <2>1, <2>5
<1> QED BY <1>1, <1>2, <1>3, <1>6, <1>7, <1>9, <1>10 DEF ExactSum

(* Every addition the sponge performs is exact.                             *)
THEOREM SumsExact == SumSpec => []FieldAddIsExact
<1>1. SumInit => FieldAddIsExact
  BY DEF SumInit, FieldAddIsExact
<1>2. FieldAddIsExact /\ [SumNext]_sum => FieldAddIsExact'
  <2> SUFFICES ASSUME FieldAddIsExact, [SumNext]_sum PROVE FieldAddIsExact'
    OBVIOUS
  <2>1. CASE UNCHANGED sum
    BY <2>1 DEF FieldAddIsExact
  <2>2. CASE sum' = NoSum
    BY <2>2 DEF FieldAddIsExact
  <2>3. ASSUME NEW a \in 0..(ByteTo[Bytes] - 1), NEW b \in 0..(ByteTo[Bytes] - 1),
               sum' = [a |-> a, b |-> b, out |-> ValueOf(FieldAdd(ArrayOf(a, Bytes), ArrayOf(b, Bytes)))]
        PROVE  FieldAddIsExact'
    <3>1. ExactSum(a, b, sum'.out)
      <4>1. PICK out : out = ValueOf(FieldAdd(ArrayOf(a, Bytes), ArrayOf(b, Bytes)))
        OBVIOUS
      <4>2. sum'.out = out
        BY <2>3, <4>1
      <4> QED BY <4>1, <4>2, SumIsExact
    <3>2. sum'.a = a /\ sum'.b = b
      BY <2>3
    <3> QED BY <3>1, <3>2 DEF FieldAddIsExact, ExactSum, Rest
  <2> QED BY <2>1, <2>2, <2>3 DEF SumNext
<1> QED BY <1>1, <1>2, PTL DEF SumSpec

-----------------------------------------------------------------------------
(* Bits and their weights.                                                  *)

(* The weights of the bits are defined.                                     *)
LEMMA BitWeightUnfolds ==
  BitWeight = [k \in 0..WordBits |-> IF k = 0 THEN 1 ELSE 2 * BitWeight[k - 1]]
<1> DEFINE Step(f, k) == IF k = 0 THEN 1 ELSE 2 * f[k - 1]
           P(n) == \E f : f = [k \in 0..n |-> Step(f, k)]
           Q == {n \in Nat : P(n)}
<1>1. 0 \in Q
  <2> DEFINE f == [k \in 0..0 |-> 1]
  <2>1. f = [k \in 0..0 |-> Step(f, k)]
    OBVIOUS
  <2> QED BY <2>1
<1>2. ASSUME NEW n \in Q PROVE n + 1 \in Q
  <2> HIDE DEF Step
  <2>1. PICK f : f = [k \in 0..n |-> Step(f, k)]
    OBVIOUS
  <2> DEFINE f1 == [k \in 0..(n + 1) |-> Step(f, k)]
  <2>2. \A k \in 0..n : f1[k] = f[k]
    BY <2>1
  <2>3. ASSUME NEW k \in 0..(n + 1) PROVE Step(f, k) = Step(f1, k)
    <3>1. k # 0 => k - 1 \in 0..n
      OBVIOUS
    <3> HIDE DEF f1
    <3>2. k # 0 => f1[k - 1] = f[k - 1]
      BY <2>2, <3>1
    <3> QED BY <3>2 DEF Step
  <2>4. f1 = [k \in 0..(n + 1) |-> Step(f1, k)]
    BY <2>3
  <2> HIDE DEF f1
  <2>5. n + 1 \in Nat /\ P(n + 1)
    BY <2>4
  <2> HIDE DEF P
  <2> QED BY <2>5
<1>3. P(WordBits)
  <2>1. Q \in SUBSET Nat
    OBVIOUS
  <2>2. Q = Nat
    <3> HIDE DEF Q
    <3> QED BY <1>1, <1>2, <2>1, Inductive
  <2>3. WordBits \in Nat
    BY BooleanAssumption
  <2> HIDE DEF P
  <2> QED BY <2>2, <2>3
<1> QED BY <1>3 DEF BitWeight

(* The part below a weight, and below the next.                             *)
LEMMA LowerPart ==
  ASSUME NEW v \in Nat, NEW w \in Nat, w > 0
  PROVE  v % (2 * w) = (v % w) + (((v \div w) % 2) * w)
<1>1. PICK q \in Int, r \in 0..(w - 1) : q = v \div w /\ r = v % w /\ v = w * q + r
  <2>1. v \in Int
    OBVIOUS
  <2> QED BY <2>1, DivMod
<1>2. PICK q1 \in Int, b \in 0..1 : b = q % 2 /\ q = 2 * q1 + b
  <2>1. 2 \in Nat /\ 2 > 0 /\ 0..(2 - 1) = 0..1
    OBVIOUS
  <2> QED BY <2>1, DivMod
<1>3. PICK w2 \in Nat, s \in Int : w2 = 2 * w /\ w2 > 0 /\ s = (b * w) + r /\ s \in 0..(w2 - 1)
  <2>1. b = 0 \/ b = 1
    OBVIOUS
  <2>2. (b * w) + r \in 0..((2 * w) - 1)
    <3>1. CASE b = 0
      BY <3>1
    <3>2. CASE b = 1
      BY <3>2
    <3> QED BY <2>1, <3>1, <3>2
  <2> QED BY <2>2
<1>4. v = w2 * q1 + s
  <2>1. w * (2 * q1 + b) = (2 * w) * q1 + b * w
    OBVIOUS
  <2>2. PICK x \in Int, y \in Int : x = (2 * w) * q1 /\ y = b * w
    OBVIOUS
  <2>3. v = (x + y) + r /\ w2 * q1 = x /\ s = y + r
    BY <1>1, <1>2, <1>3, <2>1, <2>2
  <2> QED BY <2>3
<1>5. v % w2 = s
  <2>1. v \in Int
    OBVIOUS
  <2> QED BY <1>3, <1>4, <2>1, DivModIs
<1> QED BY <1>1, <1>2, <1>3, <1>5

(* They are positive and double.                                            *)
LEMMA BitWeightFacts ==
  /\ WordBits \in Nat /\ WordBits > 0 /\ BitWeight[0] = 1
  /\ \A k \in 0..WordBits : BitWeight[k] \in Nat /\ BitWeight[k] > 0
  /\ \A k \in 0..(WordBits - 1) : BitWeight[k + 1] = 2 * BitWeight[k]
<1>1. WordBits \in Nat /\ WordBits > 0
  BY BooleanAssumption
<1>2. BitWeight[0] = 1
  BY <1>1, BitWeightUnfolds
<1>3. \A k \in 0..(WordBits - 1) : BitWeight[k + 1] = 2 * BitWeight[k]
  <2> TAKE k \in 0..(WordBits - 1)
  <2>1. k + 1 \in 0..WordBits /\ k + 1 # 0 /\ (k + 1) - 1 = k
    BY <1>1
  <2> QED BY <2>1, BitWeightUnfolds
<1> DEFINE Q == {n \in Nat : n <= WordBits => BitWeight[n] \in Nat /\ BitWeight[n] > 0}
<1>4. 0 \in Q
  BY <1>2
<1>5. ASSUME NEW n \in Q PROVE n + 1 \in Q
  <2>1. CASE n + 1 <= WordBits
    <3>1. n \in 0..(WordBits - 1) /\ n <= WordBits
      BY <1>1, <2>1
    <3>2. PICK w \in Nat : w = BitWeight[n] /\ w > 0
      BY <3>1
    <3>3. 2 * w \in Nat /\ 2 * w > 0
      BY <3>2
    <3> QED BY <1>3, <3>1, <3>2, <3>3
  <2> QED BY <2>1
<1>6. Q = Nat
  <2>1. Q \in SUBSET Nat
    OBVIOUS
  <2> HIDE DEF Q
  <2> QED BY <1>4, <1>5, <2>1, Inductive
<1>7. \A k \in 0..WordBits : BitWeight[k] \in Nat /\ BitWeight[k] > 0
  BY <1>1, <1>6
<1> QED BY <1>1, <1>2, <1>3, <1>7

(* A weight is a multiple of every lower one.                               *)
LEMMA WeightDivides ==
  ASSUME NEW k \in 0..WordBits, NEW n \in k..WordBits
  PROVE  \E x \in Nat : x > 0 /\ BitWeight[n] = BitWeight[k] * x
<1> DEFINE Q == {m \in Nat : k + m <= WordBits => \E x \in Nat : x > 0 /\ BitWeight[k + m] = BitWeight[k] * x}
<1>0. k \in Nat /\ WordBits \in Nat
  BY BitWeightFacts
<1>1. 0 \in Q
  <2>1. PICK w \in Nat : w = BitWeight[k]
    BY BitWeightFacts
  <2>2. k + 0 = k /\ w = w * 1 /\ 1 \in Nat /\ 1 > 0
    BY <1>0
  <2> QED BY <2>1, <2>2
<1>2. ASSUME NEW m \in Q PROVE m + 1 \in Q
  <2>1. CASE k + (m + 1) <= WordBits
    <3>1. k + m \in 0..(WordBits - 1) /\ k + m <= WordBits /\ k + (m + 1) = (k + m) + 1
      BY <1>0, <2>1
    <3>2. PICK x \in Nat : x > 0 /\ BitWeight[k + m] = BitWeight[k] * x
      BY <3>1
    <3>3. PICK w \in Nat : w = BitWeight[k]
      BY BitWeightFacts
    <3>4. BitWeight[(k + m) + 1] = 2 * (w * x)
      BY <3>1, <3>2, <3>3, BitWeightFacts
    <3>5. 2 * (w * x) = w * (2 * x) /\ 2 * x \in Nat /\ 2 * x > 0
      BY <3>2
    <3> QED BY <3>1, <3>3, <3>4, <3>5
  <2> QED BY <2>1
<1>3. Q = Nat
  <2>1. Q \in SUBSET Nat
    OBVIOUS
  <2> HIDE DEF Q
  <2> QED BY <1>1, <1>2, <2>1, Inductive
<1>4. PICK m \in Nat : m = n - k /\ k + m = n /\ k + m <= WordBits
  BY <1>0
<1>5. m \in Q
  BY <1>3
<1> QED BY <1>4, <1>5

(* Vectors of bits, and what the bits up to a position count.               *)
BitArrays(n) == [1..n -> {0, 1}]
Sums(f, bits, n) == f[0] = 0 /\ \A k \in 0..(n - 1) : f[k + 1] = f[k] + (bits[k + 1] * BitWeight[k])

(* In a vector that fits in the word every bit keeps its position.          *)
LEMMA WrappedIs ==
  ASSUME NEW n \in 0..WordBits, NEW bits \in BitArrays(n)
  PROVE  Wrapped(bits) = bits
<1>1. n \in Nat /\ WordBits \in Nat /\ WordBits > 0 /\ Len(bits) = n /\ DOMAIN bits = 1..n
  BY BitWeightFacts DEF BitArrays
<1>2. ASSUME NEW l \in 1..n PROVE (l - 1) % WordBits = l - 1
  <2>1. l - 1 \in Int /\ l - 1 = WordBits * 0 + (l - 1) /\ l - 1 \in 0..(WordBits - 1) /\ 0 \in Int
    BY <1>1
  <2> QED BY <1>1, <2>1, DivModIs
<1>3. ASSUME NEW k \in 1..n
      PROVE  (IF \E l \in DOMAIN bits : bits[l] = 1 /\ (l - 1) % WordBits = k - 1 THEN 1 ELSE 0) = bits[k]
  <2>1. bits[k] \in {0, 1}
    BY DEF BitArrays
  <2>2. \A l \in 1..n : l - 1 = k - 1 => l = k
    BY <1>1
  <2>3. (\E l \in 1..n : bits[l] = 1 /\ (l - 1) % WordBits = k - 1) <=> bits[k] = 1
    BY <1>2, <2>2
  <2> QED BY <1>1, <2>1, <2>3
<1>4. Wrapped(bits) = [k \in 1..n |-> IF \E l \in DOMAIN bits : bits[l] = 1 /\ (l - 1) % WordBits = k - 1 THEN 1 ELSE 0]
  <2>1. ~ (Len(bits) > WordBits) /\ Len(bits) = n
    BY <1>1
  <2> QED BY <2>1 DEF Wrapped
<1>5. bits = [k \in 1..n |-> bits[k]]
  BY DEF BitArrays
<1> QED BY <1>3, <1>4, <1>5

(* Its recomposition is such a sum.                                         *)
LEMMA RecompositionSums ==
  ASSUME NEW n \in 0..WordBits, NEW bits \in BitArrays(n)
  PROVE  \E f : Sums(f, bits, n) /\ f[n] = Recomposition(bits)
<1> DEFINE w == Wrapped(bits)
<1>0. w = bits /\ Len(w) = n /\ n \in Nat
  BY WrappedIs, BitWeightFacts DEF BitArrays
<1> HIDE DEF w
<1> DEFINE Step(f, k) == IF k = 0 THEN 0 ELSE f[k - 1] + (w[k] * BitWeight[k - 1])
           P(m) == \E f : f = [k \in 0..m |-> Step(f, k)]
           Q == {m \in Nat : P(m)}
<1>1. 0 \in Q
  <2> DEFINE f == [k \in 0..0 |-> 0]
  <2>1. f = [k \in 0..0 |-> Step(f, k)]
    OBVIOUS
  <2> QED BY <2>1
<1>2. ASSUME NEW m \in Q PROVE m + 1 \in Q
  <2> HIDE DEF Step
  <2>1. PICK f : f = [k \in 0..m |-> Step(f, k)]
    OBVIOUS
  <2> DEFINE f1 == [k \in 0..(m + 1) |-> Step(f, k)]
  <2>2. \A k \in 0..m : f1[k] = f[k]
    BY <2>1
  <2>3. ASSUME NEW k \in 0..(m + 1) PROVE Step(f, k) = Step(f1, k)
    <3>1. k # 0 => k - 1 \in 0..m
      OBVIOUS
    <3> HIDE DEF f1
    <3>2. k # 0 => f1[k - 1] = f[k - 1]
      BY <2>2, <3>1
    <3> QED BY <3>2 DEF Step
  <2>4. f1 = [k \in 0..(m + 1) |-> Step(f1, k)]
    BY <2>3
  <2> HIDE DEF f1
  <2>5. m + 1 \in Nat /\ P(m + 1)
    BY <2>4
  <2> HIDE DEF P
  <2> QED BY <2>5
<1>3. P(Len(w))
  <2>1. Q \in SUBSET Nat
    OBVIOUS
  <2>2. Q = Nat
    <3> HIDE DEF Q
    <3> QED BY <1>1, <1>2, <2>1, Inductive
  <2> HIDE DEF P
  <2> QED BY <2>2
<1> DEFINE joined == CHOOSE f : f = [k \in 0..Len(w) |-> Step(f, k)]
<1>4. joined = [k \in 0..Len(w) |-> Step(joined, k)]
  BY <1>3
<1>5. Recomposition(bits) = joined[Len(w)]
  BY DEF Recomposition, w
<1> HIDE DEF joined
<1>6. Sums(joined, w, n)
  <2>1. joined[0] = 0
    BY <1>4
  <2>2. ASSUME NEW k \in 0..(n - 1) PROVE joined[k + 1] = joined[k] + (w[k + 1] * BitWeight[k])
    <3>1. k + 1 \in 0..Len(w) /\ k + 1 # 0 /\ (k + 1) - 1 = k
      BY <1>0
    <3> QED BY <1>4, <3>1
  <2> QED BY <2>1, <2>2 DEF Sums
<1> QED BY <1>0, <1>5, <1>6

(* It is below the weight of the next position.                             *)
LEMMA SumType ==
  ASSUME NEW n \in 0..WordBits, NEW bits \in BitArrays(n), NEW f, Sums(f, bits, n), NEW e \in 0..n
  PROVE  f[e] \in Nat /\ f[e] < BitWeight[e]
<1> DEFINE Q == {k \in Nat : k <= n => f[k] \in Nat /\ f[k] < BitWeight[k]}
<1>1. 0 \in Q
  BY BitWeightFacts DEF Sums
<1>2. ASSUME NEW k \in Q PROVE k + 1 \in Q
  <2>1. CASE k + 1 <= n
    <3>1. k \in 0..(n - 1) /\ k \in 0..(WordBits - 1) /\ k + 1 \in 1..n /\ k <= n /\ k \in 0..WordBits
      BY <2>1, BitWeightFacts
    <3>2. PICK v \in Nat, w \in Nat, b \in {0, 1} : v = f[k] /\ w = BitWeight[k] /\ b = bits[k + 1] /\ v < w
      BY <3>1, BitWeightFacts DEF BitArrays
    <3>3. f[k + 1] = v + (b * w) /\ BitWeight[k + 1] = 2 * w
      BY <3>1, <3>2, BitWeightFacts DEF Sums
    <3>4. v + (b * w) \in Nat /\ v + (b * w) < 2 * w
      <4>1. CASE b = 0
        BY <3>2, <4>1
      <4>2. CASE b = 1
        BY <3>2, <4>2
      <4> QED BY <4>1, <4>2
    <3> QED BY <3>3, <3>4
  <2> QED BY <2>1
<1>3. Q = Nat
  <2>1. Q \in SUBSET Nat
    OBVIOUS
  <2> HIDE DEF Q
  <2> QED BY <1>1, <1>2, <2>1, Inductive
<1> QED BY <1>3

(* It is what is below a position, its bit, and a multiple of the next      *)
(* weight.                                                                  *)
LEMMA SumSplits ==
  ASSUME NEW n \in 0..WordBits, NEW bits \in BitArrays(n), NEW f, Sums(f, bits, n), NEW k \in 0..(n - 1)
  PROVE  \E q \in Nat : f[n] = f[k + 1] + (BitWeight[k + 1] * q)
<1> DEFINE Split(m) == \E q \in Nat : f[k + 1 + m] = f[k + 1] + (BitWeight[k + 1] * q)
           Q == {m \in Nat : k + 1 + m <= n => Split(m)}
<1>0. k \in Nat /\ n \in Nat /\ k + 1 \in 0..n /\ k + 1 \in 0..WordBits /\ WordBits \in Nat
  BY BitWeightFacts
<1>1. PICK v \in Nat, w \in Nat : v = f[k + 1] /\ w = BitWeight[k + 1]
  BY <1>0, SumType, BitWeightFacts
<1>2. 0 \in Q
  <2>1. k + 1 + 0 = k + 1 /\ v = v + (w * 0) /\ 0 \in Nat
    BY <1>0
  <2> QED BY <1>1, <2>1
<1>3. ASSUME NEW m \in Q PROVE m + 1 \in Q
  <2>1. CASE k + 1 + (m + 1) <= n
    <3>1. PICK e \in 0..(n - 1) : e = k + 1 + m /\ e + 1 = k + 1 + (m + 1) /\ e + 1 \in 1..n /\ e \in (k + 1)..WordBits /\ k + 1 + m <= n
      <4>1. k + 1 + m \in 0..(n - 1) /\ (k + 1 + m) + 1 = k + 1 + (m + 1) /\ k + 1 + m \in (k + 1)..WordBits
        BY <1>0, <2>1
      <4> QED BY <1>0, <4>1
    <3>2. PICK q \in Nat : f[e] = v + (w * q)
      BY <1>1, <3>1
    <3>3. PICK x \in Nat : BitWeight[e] = w * x
      <4>1. \E x \in Nat : x > 0 /\ BitWeight[e] = BitWeight[k + 1] * x
        BY <1>0, <3>1, WeightDivides
      <4> QED BY <1>1, <4>1
    <3>4. PICK b \in Nat : b = bits[e + 1]
      BY <3>1 DEF BitArrays
    <3>5. f[e + 1] = (v + (w * q)) + (b * (w * x))
      BY <3>1, <3>2, <3>3, <3>4 DEF Sums
    <3>6. (v + (w * q)) + (b * (w * x)) = v + (w * (q + (b * x)))
      OBVIOUS
    <3>7. PICK q1 \in Nat : q1 = q + (b * x)
      OBVIOUS
    <3> QED BY <1>1, <3>1, <3>5, <3>6, <3>7
  <2> HIDE DEF Split
  <2> QED BY <2>1
<1>4. Q = Nat
  <2>1. Q \in SUBSET Nat
    OBVIOUS
  <2> HIDE DEF Q
  <2> QED BY <1>2, <1>3, <2>1, Inductive
<1>5. PICK m \in Nat : m = n - (k + 1) /\ k + 1 + m = n /\ k + 1 + m <= n
  BY <1>0
<1>6. m \in Q
  <2> HIDE DEF Q
  <2> QED BY <1>4
<1>7. Split(m)
  <2> HIDE DEF Split
  <2> QED BY <1>5, <1>6
<1> QED BY <1>5, <1>7

(* The bits of the sum are the bits summed, and no others.                  *)
LEMMA BitOfSum ==
  ASSUME NEW n \in 0..WordBits, NEW bits \in BitArrays(n), NEW f, Sums(f, bits, n), NEW k \in 0..(WordBits - 1)
  PROVE  (f[n] \div BitWeight[k]) % 2 = IF k < n THEN bits[k + 1] ELSE 0
<1>0. n \in Nat /\ k \in Nat /\ WordBits \in Nat /\ k \in 0..WordBits /\ n \in 0..n
  BY BitWeightFacts
<1>1. PICK w \in Nat, v \in Nat : w = BitWeight[k] /\ w > 0 /\ v = f[n] /\ v < BitWeight[n]
  BY <1>0, SumType, BitWeightFacts
<1>2. CASE k < n
  <2>1. k \in 0..(n - 1) /\ k + 1 \in 1..n /\ k \in 0..n
    BY <1>0, <1>2
  <2>2. PICK r \in Nat : r = f[k] /\ r < w
    BY <1>1, <2>1, SumType
  <2>3. PICK b \in {0, 1} : b = bits[k + 1]
    BY <2>1 DEF BitArrays
  <2>4. PICK q \in Nat : f[n] = f[k + 1] + (BitWeight[k + 1] * q)
    BY <2>1, SumSplits
  <2>5. f[k + 1] = r + (b * w) /\ BitWeight[k + 1] = 2 * w
    BY <1>1, <2>1, <2>2, <2>3, BitWeightFacts DEF Sums
  <2>6. PICK c \in Int : c = (2 * q) + b
    OBVIOUS
  <2>7. v = w * c + r
    <3>1. w * ((2 * q) + b) = ((2 * w) * q) + (b * w)
      OBVIOUS
    <3>2. PICK x \in Int, y \in Int : x = (2 * w) * q /\ y = b * w
      OBVIOUS
    <3>3. v = (r + y) + x /\ w * c = x + y
      BY <1>1, <2>4, <2>5, <2>6, <3>1, <3>2
    <3> QED BY <3>3
  <2>8. v \div w = c
    <3>1. v \in Int /\ r \in 0..(w - 1) /\ w > 0 /\ c \in Int
      BY <1>1, <2>2
    <3> QED BY <2>7, <3>1, DivModIs
  <2>9. c % 2 = b
    <3>1. c = 2 * q + b /\ 2 \in Nat /\ 2 > 0 /\ q \in Int /\ b \in 0..(2 - 1)
      BY <2>6
    <3> QED BY <3>1, DivModIs
  <2> QED BY <1>1, <1>2, <2>3, <2>8, <2>9
<1>3. CASE ~ (k < n)
  <2>1. n \in 0..WordBits /\ k \in n..WordBits
    BY <1>0, <1>3
  <2>2. PICK x \in Nat : x > 0 /\ BitWeight[k] = BitWeight[n] * x
    BY <2>1, WeightDivides
  <2>3. PICK u \in Nat : u = BitWeight[n]
    BY BitWeightFacts
  <2>4. u * x >= u
    <3>1. u * x >= u * 1
      BY <2>2
    <3> QED BY <3>1
  <2>5. v < w
    BY <1>1, <2>2, <2>3, <2>4
  <2>6. v \div w = 0
    <3>1. v \in Int /\ 0 \in Int /\ v = w * 0 + v /\ v \in 0..(w - 1)
      BY <2>5
    <3> QED BY <1>1, <3>1, DivModIs
  <2> QED BY <1>1, <1>3, <2>6
<1> QED BY <1>2, <1>3

(* The bits of a number sum to what they hold of it.                        *)
LEMMA DigitsSum ==
  ASSUME NEW v \in Nat, NEW n \in 0..WordBits, NEW bits, NEW f, Sums(f, bits, n),
         \A k \in 1..n : bits[k] = (v \div BitWeight[k - 1]) % 2
  PROVE  f[n] = v % BitWeight[n]
<1> DEFINE Q == {k \in Nat : k <= n => f[k] = v % BitWeight[k]}
<1>0. n \in Nat /\ WordBits \in Nat
  BY BitWeightFacts
<1>1. 0 \in Q
  <2>1. v % 1 = 0
    <3>1. v \in Int /\ v = 1 * v + 0 /\ 0 \in 0..(1 - 1) /\ 1 \in Nat /\ 1 > 0
      OBVIOUS
    <3> QED BY <3>1, DivModIs
  <2> QED BY <2>1, BitWeightFacts DEF Sums
<1>2. ASSUME NEW k \in Q PROVE k + 1 \in Q
  <2>1. CASE k + 1 <= n
    <3>1. k \in 0..(n - 1) /\ k \in 0..(WordBits - 1) /\ k + 1 \in 1..n /\ k <= n /\ k \in 0..WordBits /\ (k + 1) - 1 = k
      BY <1>0, <2>1
    <3>2. PICK w \in Nat : w = BitWeight[k] /\ w > 0
      BY <3>1, BitWeightFacts
    <3>3. v % (2 * w) = (v % w) + (((v \div w) % 2) * w)
      BY <3>2, LowerPart
    <3>4. bits[k + 1] = (v \div w) % 2
      BY <3>1, <3>2
    <3>5. f[k + 1] = (v % w) + (((v \div w) % 2) * w)
      BY <3>1, <3>2, <3>4 DEF Sums
    <3>6. BitWeight[k + 1] = 2 * w
      BY <3>1, <3>2, BitWeightFacts
    <3> QED BY <3>3, <3>5, <3>6
  <2> QED BY <2>1
<1>3. Q = Nat
  <2>1. Q \in SUBSET Nat
    OBVIOUS
  <2> HIDE DEF Q
  <2> QED BY <1>1, <1>2, <2>1, Inductive
<1> QED BY <1>0, <1>3

(* The positions of the bits of a sum.                                      *)
LEMMA OnesOfSum ==
  ASSUME NEW n \in 0..WordBits, NEW bits \in BitArrays(n)
  PROVE  /\ Recomposition(bits) \in Nat /\ Recomposition(bits) < BitWeight[n]
         /\ Ones(Recomposition(bits)) = OnesOf(bits)
<1>0. n \in Nat /\ n \in 0..n /\ Len(bits) = n /\ DOMAIN bits = 1..n /\ WordBits \in Nat
  BY BitWeightFacts DEF BitArrays
<1>1. PICK f : Sums(f, bits, n) /\ f[n] = Recomposition(bits)
  BY RecompositionSums
<1> DEFINE v == Recomposition(bits)
<1>2. v \in Nat /\ v < BitWeight[n]
  BY <1>0, <1>1, SumType
<1>3. \A k \in 0..(WordBits - 1) : (v \div BitWeight[k]) % 2 = IF k < n THEN bits[k + 1] ELSE 0
  BY <1>1, BitOfSum
<1> HIDE DEF v
<1>4. Ones(v) = {k \in 0..(WordBits - 1) : k < n /\ bits[k + 1] = 1}
  BY <1>3 DEF Ones
<1>5. OnesOf(bits) = {k \in 0..(WordBits - 1) : k < n /\ bits[k + 1] = 1}
  <2>1. ASSUME NEW e \in OnesOf(bits) PROVE e \in 0..(WordBits - 1) /\ e < n /\ bits[e + 1] = 1
    <3>1. PICK l \in 1..n : bits[l] = 1 /\ e = l - 1
      BY <1>0, <2>1 DEF OnesOf
    <3>2. e + 1 = l
      BY <3>1
    <3> QED BY <1>0, <3>1, <3>2
  <2>2. ASSUME NEW e \in 0..(WordBits - 1), e < n, bits[e + 1] = 1 PROVE e \in OnesOf(bits)
    <3>1. e + 1 \in 1..n /\ (e + 1) - 1 = e
      BY <1>0, <2>2
    <3> QED BY <1>0, <2>2, <3>1 DEF OnesOf
  <2> QED BY <2>1, <2>2
<1> QED BY <1>2, <1>4, <1>5 DEF v

(* The positions of the bits of a vector determine it.                      *)
LEMMA OnesDetermine ==
  ASSUME NEW n \in Nat, NEW a \in BitArrays(n), NEW e \in 1..n
  PROVE  a[e] = IF e - 1 \in OnesOf(a) THEN 1 ELSE 0
<1>0. DOMAIN a = 1..n /\ a[e] \in {0, 1}
  BY DEF BitArrays
<1>1. ASSUME a[e] = 1 PROVE e - 1 \in OnesOf(a)
  BY <1>0, <1>1 DEF OnesOf
<1>2. ASSUME e - 1 \in OnesOf(a) PROVE a[e] = 1
  <2>1. PICK l \in 1..n : a[l] = 1 /\ e - 1 = l - 1
    BY <1>0, <1>2 DEF OnesOf
  <2>2. l = e
    BY <2>1
  <2> QED BY <2>1, <2>2
<1> QED BY <1>0, <1>1, <1>2

(* The decomposition of a number.                                           *)
Digits(v, n) == [k \in 1..n |-> (v \div BitWeight[k - 1]) % 2]

LEMMA DigitsAre ==
  ASSUME NEW v \in Nat, NEW n \in 0..WordBits
  PROVE  Digits(v, n) \in BitArrays(n) /\ Recomposition(Digits(v, n)) = v % BitWeight[n]
<1> DEFINE bits == Digits(v, n)
<1>0. n \in Nat /\ WordBits \in Nat
  BY BitWeightFacts
<1>1. \A k \in 1..n : bits[k] = (v \div BitWeight[k - 1]) % 2
  BY DEF Digits
<1>2. bits \in BitArrays(n)
  <2>1. ASSUME NEW k \in 1..n PROVE (v \div BitWeight[k - 1]) % 2 \in {0, 1}
    <3>1. k - 1 \in 0..WordBits
      BY <1>0
    <3>2. PICK w \in Nat : w = BitWeight[k - 1] /\ w > 0
      BY <3>1, BitWeightFacts
    <3>3. PICK x \in Int : x = v \div w
      <4>1. v \in Int
        OBVIOUS
      <4> QED BY <3>2, <4>1, DivMod
    <3>4. x % 2 \in {0, 1}
      <4>1. 2 \in Nat /\ 2 > 0 /\ 0..(2 - 1) = {0, 1}
        OBVIOUS
      <4> QED BY <4>1, DivMod
    <3> QED BY <3>2, <3>3, <3>4
  <2> QED BY <2>1 DEF BitArrays, Digits
<1>3. Len(bits) = n
  BY <1>0, <1>2 DEF BitArrays
<1> HIDE DEF bits
<1>4. PICK f : Sums(f, bits, n) /\ f[n] = Recomposition(bits)
  BY <1>2, RecompositionSums
<1>5. f[n] = v % BitWeight[n]
  BY <1>1, <1>4, DigitsSum
<1> QED BY <1>2, <1>4, <1>5 DEF bits

(* A number is the value of its decomposition exactly when it is below the  *)
(* weight after its last bit.                                               *)
LEMMA DigitsExact ==
  ASSUME NEW v \in Nat, NEW n \in 0..WordBits
  PROVE  Recomposition(Digits(v, n)) = v <=> v < BitWeight[n]
<1>1. PICK w \in Nat : w = BitWeight[n] /\ w > 0
  BY BitWeightFacts
<1>2. Recomposition(Digits(v, n)) = v % w
  BY <1>1, DigitsAre
<1>3. v < w => v % w = v
  <2> SUFFICES ASSUME v < w PROVE v % w = v
    OBVIOUS
  <2>1. v \in Int /\ 0 \in Int /\ v = w * 0 + v /\ v \in 0..(w - 1) /\ w > 0
    BY <1>1
  <2> QED BY <2>1, DivModIs
<1>4. v % w \in 0..(w - 1)
  <2>1. v \in Int
    OBVIOUS
  <2> QED BY <1>1, <2>1, DivMod
<1>5. v % w = v => v < w
  BY <1>4
<1> QED BY <1>1, <1>2, <1>3, <1>5

(* Numbers of a word are told apart by their bits.                          *)
LEMMA OnesInjective ==
  ASSUME NEW u \in Value, NEW v \in Value, Ones(u) = Ones(v)
  PROVE  u = v
<1>0. WordBits \in 0..WordBits /\ WordBits \in Nat /\ u \in Nat /\ v \in Nat
      /\ u < BitWeight[WordBits] /\ v < BitWeight[WordBits]
  <2>1. WordBits \in 0..WordBits /\ WordBits \in Nat
    BY BitWeightFacts
  <2> QED BY <2>1, BitWeightFacts DEF Value
<1> DEFINE a == Digits(u, WordBits)
           b == Digits(v, WordBits)
<1>1. Recomposition(a) = u /\ Recomposition(b) = v /\ a \in BitArrays(WordBits) /\ b \in BitArrays(WordBits)
  BY <1>0, DigitsExact, DigitsAre
<1> HIDE DEF a, b
<1>2. OnesOf(a) = OnesOf(b)
  BY <1>0, <1>1, OnesOfSum
<1>3. ASSUME NEW k \in 1..WordBits PROVE a[k] = b[k]
  <2>1. a[k] = (IF k - 1 \in OnesOf(a) THEN 1 ELSE 0) /\ b[k] = IF k - 1 \in OnesOf(b) THEN 1 ELSE 0
    BY <1>0, <1>1, OnesDetermine
  <2> QED BY <1>2, <2>1
<1>4. a \in [1..WordBits -> {0, 1}] /\ b \in [1..WordBits -> {0, 1}]
  BY <1>1 DEF BitArrays
<1>5. a = b
  <2>1. a = [k \in 1..WordBits |-> a[k]] /\ b = [k \in 1..WordBits |-> b[k]]
    BY <1>4
  <2>2. [k \in 1..WordBits |-> a[k]] = [k \in 1..WordBits |-> b[k]]
    BY <1>3
  <2> QED BY <2>1, <2>2
<1> QED BY <1>1, <1>5

-----------------------------------------------------------------------------
(* A decomposition succeeds for numbers of so many bits, with their bits.   *)
LEMMA DecomposeIs ==
  ASSUME NEW v \in Value, NEW n \in Nat
  PROVE  /\ BitDecompose(v, n).status = "ok" <=> n <= WordBits /\ v < BitWeight[n]
         /\ BitDecompose(v, n).status = "ok" =>
              /\ BitDecompose(v, n).out \in BitArrays(n)
              /\ Len(BitDecompose(v, n).out) = n
              /\ OnesOf(BitDecompose(v, n).out) = Ones(v)
<1> DEFINE bits == Digits(v, n)
<1>0. v \in Nat /\ WordBits \in Nat
  BY BitWeightFacts DEF Value
<1>1. BitDecompose(v, n) = IF n > WordBits THEN Unmet("InvalidInput")
                           ELSE IF Recomposition(bits) # v THEN Unmet("ConstraintUnsatisfied")
                           ELSE Is(bits)
  BY DEF BitDecompose, Digits
<1>2. CASE n > WordBits
  <2>1. BitDecompose(v, n).status = "InvalidInput"
    BY <1>1, <1>2 DEF Unmet
  <2> QED BY <1>0, <1>2, <2>1
<1>3. CASE n <= WordBits
  <2>1. n \in 0..WordBits /\ ~ (n > WordBits)
    BY <1>0, <1>3
  <2>2. Recomposition(bits) = v <=> v < BitWeight[n]
    BY <1>0, <2>1, DigitsExact
  <2>3. bits \in BitArrays(n)
    BY <1>0, <2>1, DigitsAre
  <2> HIDE DEF bits
  <2>4. CASE Recomposition(bits) = v
    <3>1. BitDecompose(v, n).status = "ok" /\ BitDecompose(v, n).out = bits
      BY <1>1, <2>1, <2>4 DEF Is
    <3>2. Len(bits) = n
      BY <2>3 DEF BitArrays
    <3>3. OnesOf(bits) = Ones(v)
      BY <2>1, <2>3, <2>4, OnesOfSum
    <3> QED BY <1>3, <2>2, <2>3, <2>4, <3>1, <3>2, <3>3
  <2>5. CASE Recomposition(bits) # v
    <3>1. BitDecompose(v, n).status = "ConstraintUnsatisfied"
      BY <1>1, <2>1, <2>5 DEF Unmet
    <3> QED BY <2>2, <2>5, <3>1
  <2> QED BY <2>4, <2>5
<1> QED BY <1>0, <1>2, <1>3

(* Vectors whose wires are checked to be bits.                              *)
LEMMA VectorsOfBits ==
  ASSUME NEW w \in Vectors
  PROVE  /\ Len(w) \in Nat /\ DOMAIN w = 1..Len(w)
         /\ AssertBits(w) <=> \A k \in DOMAIN w : w[k] < 2
         /\ AssertBits(w) => w \in BitArrays(Len(w))
<1>1. PICK n \in 0..MaxVector : w \in [1..n -> Wires]
  BY DEF Vectors
<1>2. n \in Nat /\ Len(w) = n /\ DOMAIN w = 1..n
  BY <1>1, BooleanAssumption
<1>3. \A k \in 1..n : w[k] \in Nat
  <2>1. Wires \subseteq Nat
    <3>1. PICK m \in Nat : m = BitWeight[WordBits]
      <4>1. WordBits \in 0..WordBits
        BY BitWeightFacts
      <4> QED BY <4>1, BitWeightFacts
    <3> QED BY <3>1, BooleanAssumption
  <2> QED BY <1>1, <2>1
<1>4. \A k \in 1..n : w[k] \in {0, 1} <=> w[k] < 2
  BY <1>3
<1>5. AssertBits(w) <=> \A k \in 1..n : w[k] \in {0, 1}
  BY <1>2 DEF AssertBits
<1>6. AssertBits(w) => w \in BitArrays(n)
  BY <1>1, <1>5 DEF BitArrays
<1> QED BY <1>2, <1>4, <1>5, <1>6

(* Nothing that fits passes for a decomposition that is not it.             *)
LEMMA AssertIs ==
  ASSUME NEW c \in Checked, NEW v \in Value, NEW w \in Vectors, NEW n \in 0..MaxVector
  PROVE  LET ok == AssertBitDecomposition(c, v, w, n).status = "ok" IN
           /\ ok /\ Fits(c, w) => Decomposes(w, v, n)
           /\ Len(w) <= WordBits /\ Decomposes(w, v, n) => ok
<1>0. WordBits \in Nat /\ Len(w) \in Nat /\ (AssertBits(w) <=> \A k \in DOMAIN w : w[k] < 2)
  BY BitWeightFacts, VectorsOfBits
<1>1. AssertBitDecomposition(c, v, w, n).status = "ok" <=>
        n = Len(w) /\ AssertBits(w) /\ ~Overshifts(c, w) /\ Recomposition(w) = v
  <2>1. CASE n # Len(w)
    BY <2>1 DEF AssertBitDecomposition, Unmet
  <2>2. CASE n = Len(w) /\ (~AssertBits(w) \/ Overshifts(c, w) \/ Recomposition(w) # v)
    BY <2>2 DEF AssertBitDecomposition, Unmet
  <2>3. CASE n = Len(w) /\ AssertBits(w) /\ ~Overshifts(c, w) /\ Recomposition(w) = v
    BY <2>3 DEF AssertBitDecomposition, Is
  <2> QED BY <2>1, <2>2, <2>3
<1>2. /\ Fits(c, w) /\ ~Overshifts(c, w) => Len(w) <= WordBits
      /\ Len(w) <= WordBits => ~Overshifts(c, w)
  BY <1>0 DEF Fits, Overshifts
<1>3. ASSUME AssertBits(w), Len(w) <= WordBits PROVE Recomposition(w) = v <=> OnesOf(w) = Ones(v)
  <2>1. PICK m \in 0..WordBits : m = Len(w) /\ w \in BitArrays(m)
    BY <1>0, <1>3, VectorsOfBits
  <2>2. PICK u : u = Recomposition(w) /\ u \in Nat /\ u < BitWeight[m] /\ Ones(u) = OnesOf(w)
    BY <2>1, OnesOfSum
  <2>3. u \in Value
    <3>1. WordBits \in m..WordBits /\ m \in Nat
      BY <2>1, BitWeightFacts
    <3>2. PICK x \in Nat : x > 0 /\ BitWeight[WordBits] = BitWeight[m] * x
      BY <3>1, WeightDivides
    <3>3. PICK y \in Nat : y = BitWeight[m]
      BY BitWeightFacts
    <3>4. y * x >= y /\ y * x \in Nat
      <4>1. y * x >= y * 1
        BY <3>2
      <4> QED BY <4>1
    <3>5. PICK z \in Nat : z = BitWeight[WordBits] /\ u < z
      BY <2>2, <3>2, <3>3, <3>4
    <3> QED BY <2>2, <3>5 DEF Value
  <2>4. Ones(u) = Ones(v) => u = v
    BY <2>3, OnesInjective
  <2> QED BY <2>2, <2>4
<1> QED BY <1>0, <1>1, <1>2, <1>3 DEF Decomposes

(* The positions of the ones of a vector of bits.                           *)
LEMMA OnesOfBits ==
  ASSUME NEW n \in Nat, NEW a \in BitArrays(n)
  PROVE  OnesOf(a) = {e \in 0..(n - 1) : a[e + 1] = 1}
<1>0. DOMAIN a = 1..n
  BY DEF BitArrays
<1>1. ASSUME NEW e \in OnesOf(a) PROVE e \in 0..(n - 1) /\ a[e + 1] = 1
  <2>1. PICK l \in 1..n : a[l] = 1 /\ e = l - 1
    BY <1>0, <1>1 DEF OnesOf
  <2>2. e + 1 = l
    BY <2>1
  <2> QED BY <2>1, <2>2
<1>2. ASSUME NEW e \in 0..(n - 1), a[e + 1] = 1 PROVE e \in OnesOf(a)
  <2>1. e + 1 \in 1..n /\ (e + 1) - 1 = e
    BY <1>2
  <2> QED BY <1>0, <1>2, <2>1 DEF OnesOf
<1> QED BY <1>1, <1>2

(* A gate on bits, and on vectors of bits.                                  *)
LEMMA GateBitIs ==
  ASSUME NEW op \in Ops, NEW x \in {0, 1}, NEW y \in {0, 1}
  PROVE  /\ GateBit(op, x, y) \in {0, 1}
         /\ op = "and" => (GateBit(op, x, y) = 1 <=> x = 1 /\ y = 1)
         /\ op = "or" => (GateBit(op, x, y) = 1 <=> x = 1 \/ y = 1)
         /\ op = "xor" => (GateBit(op, x, y) = 1 <=> (x = 1 \/ y = 1) /\ ~ (x = 1 /\ y = 1))
<1>1. CASE op = "and"
  BY <1>1 DEF GateBit
<1>2. CASE op = "or"
  BY <1>2 DEF GateBit
<1>3. CASE op = "xor"
  BY <1>3 DEF GateBit
<1> QED BY <1>1, <1>2, <1>3 DEF Ops

LEMMA GateIs ==
  ASSUME NEW op \in Ops, NEW n \in Nat, NEW a \in BitArrays(n), NEW b \in BitArrays(n)
  PROVE  /\ GateBits(op, a, b).status = "ok"
         /\ GateBits(op, a, b).out \in BitArrays(n)
         /\ OnesOf(GateBits(op, a, b).out) = Combined(op, OnesOf(a), OnesOf(b))
<1> DEFINE c == [k \in 1..n |-> GateBit(op, a[k], b[k])]
<1>0. /\ DOMAIN a = 1..n /\ DOMAIN b = 1..n /\ Len(a) = n /\ Len(b) = n
      /\ \A k \in 1..n : a[k] \in {0, 1} /\ b[k] \in {0, 1}
  BY DEF BitArrays
<1>1. GateBits(op, a, b).status = "ok" /\ GateBits(op, a, b).out = c
  BY <1>0 DEF GateBits, AssertBits, Is
<1>2. c \in BitArrays(n)
  BY <1>0, GateBitIs DEF BitArrays
<1>3. \A k \in 1..n : c[k] = GateBit(op, a[k], b[k])
  OBVIOUS
<1> HIDE DEF c
<1>4. /\ OnesOf(c) = {e \in 0..(n - 1) : c[e + 1] = 1}
      /\ OnesOf(a) = {e \in 0..(n - 1) : a[e + 1] = 1}
      /\ OnesOf(b) = {e \in 0..(n - 1) : b[e + 1] = 1}
  BY <1>2, OnesOfBits
<1>5. \A e \in 0..(n - 1) : e + 1 \in 1..n
  OBVIOUS
<1>6. CASE op = "and"
  <2>1. \A k \in 1..n : c[k] = 1 <=> a[k] = 1 /\ b[k] = 1
    BY <1>0, <1>3, <1>6, GateBitIs
  <2>2. OnesOf(c) = OnesOf(a) \cap OnesOf(b)
    BY <1>4, <1>5, <2>1
  <2> QED BY <1>1, <1>2, <1>6, <2>2 DEF Combined
<1>7. CASE op = "or"
  <2>1. \A k \in 1..n : c[k] = 1 <=> a[k] = 1 \/ b[k] = 1
    BY <1>0, <1>3, <1>7, GateBitIs
  <2>2. OnesOf(c) = OnesOf(a) \cup OnesOf(b)
    BY <1>4, <1>5, <2>1
  <2> QED BY <1>1, <1>2, <1>7, <2>2 DEF Combined
<1>8. CASE op = "xor"
  <2>1. \A k \in 1..n : c[k] = 1 <=> (a[k] = 1 \/ b[k] = 1) /\ ~ (a[k] = 1 /\ b[k] = 1)
    BY <1>0, <1>3, <1>8, GateBitIs
  <2>2. OnesOf(c) = (OnesOf(a) \cup OnesOf(b)) \ (OnesOf(a) \cap OnesOf(b))
    BY <1>4, <1>5, <2>1
  <2> QED BY <1>1, <1>2, <1>8, <2>2 DEF Combined
<1> QED BY <1>6, <1>7, <1>8 DEF Ops

(* Gates on what a caller supplies.                                         *)
LEMMA SuppliedGateIs ==
  ASSUME NEW op \in Ops, NEW a \in Vectors, NEW b \in Vectors
  PROVE  /\ GateBits(op, a, b).status = "ok" <=>
               Len(a) = Len(b) /\ \A k \in DOMAIN a : a[k] < 2 /\ b[k] < 2
         /\ GateBits(op, a, b).status = "ok" =>
              /\ Len(GateBits(op, a, b).out) = Len(a)
              /\ OnesOf(GateBits(op, a, b).out) = Combined(op, OnesOf(a), OnesOf(b))
<1>1. /\ Len(a) \in Nat /\ Len(b) \in Nat /\ DOMAIN a = 1..Len(a) /\ DOMAIN b = 1..Len(b)
      /\ AssertBits(a) <=> \A k \in DOMAIN a : a[k] < 2
      /\ AssertBits(b) <=> \A k \in DOMAIN b : b[k] < 2
      /\ AssertBits(a) => a \in BitArrays(Len(a))
      /\ AssertBits(b) => b \in BitArrays(Len(b))
  BY VectorsOfBits
<1>2. CASE Len(a) # Len(b)
  <2>1. GateBits(op, a, b).status = "InvalidInput"
    BY <1>2 DEF GateBits, Unmet
  <2> QED BY <1>2, <2>1
<1>3. CASE Len(a) = Len(b) /\ (~AssertBits(a) \/ ~AssertBits(b))
  <2>1. GateBits(op, a, b).status = "ConstraintUnsatisfied"
    BY <1>3 DEF GateBits, Unmet
  <2> QED BY <1>1, <1>3, <2>1
<1>4. CASE Len(a) = Len(b) /\ AssertBits(a) /\ AssertBits(b)
  <2>1. PICK n \in Nat : n = Len(a) /\ a \in BitArrays(n) /\ b \in BitArrays(n)
    BY <1>1, <1>4
  <2>2. /\ GateBits(op, a, b).status = "ok" /\ GateBits(op, a, b).out \in BitArrays(n)
        /\ OnesOf(GateBits(op, a, b).out) = Combined(op, OnesOf(a), OnesOf(b))
    BY <2>1, GateIs
  <2>3. Len(GateBits(op, a, b).out) = n
    BY <2>2 DEF BitArrays
  <2>4. \A k \in DOMAIN a : a[k] < 2 /\ b[k] < 2
    BY <1>1, <1>4
  <2> QED BY <1>4, <2>1, <2>2, <2>3, <2>4
<1> QED BY <1>2, <1>3, <1>4

(* The complement of a vector.                                              *)
LEMMA NotIs ==
  ASSUME NEW a \in Vectors, NotBits(a).status = "ok"
  PROVE  OnesOf(NotBits(a).out) = (0..(Len(a) - 1)) \ OnesOf(a)
<1>1. AssertBits(a)
  <2>1. CASE ~AssertBits(a)
    BY <2>1 DEF NotBits, Unmet
  <2> QED BY <2>1
<1>2. PICK n \in Nat : n = Len(a) /\ a \in BitArrays(n)
  BY <1>1, VectorsOfBits
<1> DEFINE c == [k \in 1..n |-> 1 - a[k]]
<1>3. DOMAIN a = 1..n /\ \A k \in 1..n : a[k] \in {0, 1}
  BY <1>2 DEF BitArrays
<1>4. NotBits(a).out = c
  BY <1>1, <1>3 DEF NotBits, Is
<1>5. c \in BitArrays(n) /\ \A k \in 1..n : c[k] = 1 <=> ~ (a[k] = 1)
  BY <1>3 DEF BitArrays
<1> HIDE DEF c
<1>6. OnesOf(c) = {e \in 0..(n - 1) : c[e + 1] = 1} /\ OnesOf(a) = {e \in 0..(n - 1) : a[e + 1] = 1}
  BY <1>2, <1>5, OnesOfBits
<1>7. \A e \in 0..(n - 1) : e + 1 \in 1..n
  OBVIOUS
<1> QED BY <1>2, <1>4, <1>5, <1>6, <1>7

(* Recomposing a vector.                                                    *)
LEMMA RecomposeIs ==
  ASSUME NEW c \in Checked, NEW n \in 0..WordBits, NEW a \in BitArrays(n)
  PROVE  Recompose(c, a).status = "ok" /\ Ones(Recompose(c, a).out) = OnesOf(a)
<1>1. AssertBits(a) /\ ~Overshifts(c, a)
  <2>1. Len(a) = n /\ n \in Nat /\ n <= WordBits /\ WordBits \in Nat
    BY BitWeightFacts DEF BitArrays
  <2> QED BY <2>1 DEF AssertBits, BitArrays, Overshifts
<1>2. Recompose(c, a) = Is(Recomposition(a))
  BY <1>1 DEF Recompose
<1>3. Ones(Recomposition(a)) = OnesOf(a)
  BY OnesOfSum
<1> QED BY <1>2, <1>3 DEF Is

LEMMA SuppliedRecomposeIs ==
  ASSUME NEW c \in Checked, NEW a \in Vectors, Recompose(c, a).status = "ok", Fits(c, a)
  PROVE  Ones(Recompose(c, a).out) = OnesOf(a)
<1>1. AssertBits(a) /\ ~Overshifts(c, a)
  <2>1. CASE ~AssertBits(a) \/ Overshifts(c, a)
    BY <2>1 DEF Recompose, Unmet
  <2> QED BY <2>1
<1>2. Len(a) \in Nat /\ WordBits \in Nat /\ a \in BitArrays(Len(a))
  BY <1>1, BitWeightFacts, VectorsOfBits
<1>3. Len(a) <= WordBits
  BY <1>1, <1>2 DEF Fits, Overshifts
<1>4. Len(a) \in 0..WordBits
  BY <1>2, <1>3
<1> QED BY <1>2, <1>4, RecomposeIs

(* A gate on numbers.                                                       *)

LEMMA BitwiseIs ==
  ASSUME NEW s \in Checked, NEW op \in Ops, NEW a \in Value, NEW b \in Value, NEW n \in Nat
  PROVE  /\ Bitwise(s, op, a, b, n).status = "ok" <=>
               n <= WordBits /\ a < BitWeight[n] /\ b < BitWeight[n]
         /\ Bitwise(s, op, a, b, n).status = "ok" =>
               Ones(Bitwise(s, op, a, b, n).out) = Combined(op, Ones(a), Ones(b))
<1> DEFINE ba == BitDecompose(a, n)
           bb == BitDecompose(b, n)
<1>1. /\ ba.status = "ok" <=> n <= WordBits /\ a < BitWeight[n]
      /\ ba.status = "ok" => ba.out \in BitArrays(n) /\ OnesOf(ba.out) = Ones(a)
  BY DecomposeIs
<1>2. /\ bb.status = "ok" <=> n <= WordBits /\ b < BitWeight[n]
      /\ bb.status = "ok" => bb.out \in BitArrays(n) /\ OnesOf(bb.out) = Ones(b)
  BY DecomposeIs
<1>3. Bitwise(s, op, a, b, n) = IF ba.status # "ok" THEN ba
                             ELSE IF bb.status # "ok" THEN bb
                             ELSE Recompose(s, GateBits(op, ba.out, bb.out).out)
  BY DEF Bitwise
<1> HIDE DEF ba, bb
<1>4. CASE ba.status # "ok"
  BY <1>1, <1>3, <1>4
<1>5. CASE ba.status = "ok" /\ bb.status # "ok"
  BY <1>2, <1>3, <1>5
<1>6. CASE ba.status = "ok" /\ bb.status = "ok"
  <2>1. n \in 0..WordBits
    BY <1>1, <1>6, BitWeightFacts
  <2>2. PICK c \in BitArrays(n) : c = GateBits(op, ba.out, bb.out).out
                                /\ OnesOf(c) = Combined(op, Ones(a), Ones(b))
    BY <1>1, <1>2, <1>6, GateIs
  <2>3. Recompose(s, c).status = "ok" /\ Ones(Recompose(s, c).out) = OnesOf(c)
    BY <2>1, RecomposeIs
  <2>4. Bitwise(s, op, a, b, n) = Recompose(s, c)
    BY <1>3, <1>6, <2>2
  <2> QED BY <1>1, <1>2, <1>6, <2>2, <2>3, <2>4
<1> QED BY <1>4, <1>5, <1>6

(* The multiplexer, with numbers.                                           *)
LEMMA Selects ==
  ASSUME NEW m \in Nat, m > 0, NEW a \in 0..(m - 1), NEW b \in 0..(m - 1)
  PROVE  (a + (0 * ((b - a) % m))) % m = a /\ (a + (1 * ((b - a) % m))) % m = b
<1>1. PICK d \in Int, q \in Int, r \in Int : d = b - a /\ q = d \div m /\ r = d % m /\ d = m * q + r
  <2>1. PICK d \in Int : d = b - a
    OBVIOUS
  <2>2. d = m * (d \div m) + (d % m) /\ d \div m \in Int /\ d % m \in 0..(m - 1)
    BY DivMod
  <2>3. d % m \in Int
    BY <2>2
  <2> QED BY <2>1, <2>2, <2>3
<1>2. a % m = a
  <2>1. a \in Int /\ 0 \in Int /\ a = m * 0 + a
    OBVIOUS
  <2> QED BY <2>1, DivModIs
<1>3. PICK s \in Int, p \in Int : s = a + r /\ p = 0 - q
  BY <1>1
<1>4. s = m * p + b
  <2>1. m * (0 - q) = 0 - (m * q)
    OBVIOUS
  <2>2. PICK x \in Int : x = m * q
    OBVIOUS
  <2> QED BY <1>1, <1>3, <2>1, <2>2
<1>5. s % m = b
  BY <1>4, DivModIs
<1>6. 0 * r = 0 /\ 1 * r = r /\ a + 0 = a
  BY <1>1
<1> QED BY <1>1, <1>2, <1>3, <1>5, <1>6

LEMMA MuxIs ==
  ASSUME NEW c \in Checked, NEW sel \in Wires, NEW a \in Value, NEW b \in Value
  PROVE  /\ Mux(c, sel, a, b).status = "ok" => Mux(c, sel, a, b).out = IF sel = 1 THEN b ELSE a
         /\ Mux(c, sel, a, b).status = "ok" => sel < 2
         /\ sel < 2 /\ a <= b => Mux(c, sel, a, b).status = "ok"
<1>1. PICK m \in Nat : m = BitWeight[WordBits] /\ m > 0
  <2>1. WordBits \in 0..WordBits
    BY BitWeightFacts
  <2> QED BY <2>1, BitWeightFacts
<1>2. sel \in Nat /\ a \in 0..(m - 1) /\ b \in 0..(m - 1)
  BY <1>1, BooleanAssumption DEF Value
<1>3. sel < 2 <=> sel \in {0, 1}
  BY <1>2
<1>4. CASE sel \notin {0, 1}
  <2>1. Mux(c, sel, a, b).status = "ConstraintUnsatisfied"
    BY <1>4 DEF Mux, Unmet
  <2> QED BY <1>3, <1>4, <2>1
<1>5. CASE sel \in {0, 1} /\ c /\ b < a
  <2>1. Mux(c, sel, a, b).status = "panic"
    BY <1>5 DEF Mux, Unmet
  <2>2. ~ (a <= b)
    <3>1. a \in Int /\ b \in Int /\ b < a
      BY <1>2, <1>5
    <3> QED BY <3>1
  <2> QED BY <1>3, <1>5, <2>1, <2>2
<1>6. CASE sel \in {0, 1} /\ ~ (c /\ b < a)
  <2>1. Mux(c, sel, a, b) = Is((a + (sel * ((b - a) % m))) % m)
    BY <1>1, <1>6 DEF Mux
  <2>2. Mux(c, sel, a, b).status = "ok" /\ Mux(c, sel, a, b).out = (a + (sel * ((b - a) % m))) % m
    BY <2>1 DEF Is
  <2>3. (a + (sel * ((b - a) % m))) % m = IF sel = 1 THEN b ELSE a
    <3>1. sel = 0 \/ sel = 1
      BY <1>6
    <3> QED BY <1>1, <1>2, <3>1, Selects
  <2> QED BY <1>6, <2>2, <2>3
<1> QED BY <1>4, <1>5, <1>6

-----------------------------------------------------------------------------
(* What each call answers is exact.                                         *)
LEMMA DecomposeExact ==
  ASSUME NEW v \in Value, NEW n \in BitCounts, Answers("decompose", <<v, n>>, BitDecompose(v, n))
  PROVE  GatesAreExact'
<1>1. n \in Nat
  BY BooleanAssumption
<1>2. PICK R : R = BitDecompose(v, n)
  OBVIOUS
<1>3. /\ R.status = "ok" <=> n <= WordBits /\ v < BitWeight[n]
      /\ R.status = "ok" => Len(R.out) = n /\ OnesOf(R.out) = Ones(v)
  BY <1>1, <1>2, DecomposeIs
<1>4. gate'.call = "decompose" /\ gate'.args[1] = v /\ gate'.args[2] = n /\ gate'.result = R
  BY <1>2 DEF Answers
<1> QED BY <1>3, <1>4 DEF GatesAreExact, Ops

LEMMA AssertExact ==
  ASSUME NEW c \in Checked, NEW v \in Value, NEW w \in Vectors, NEW n \in 0..MaxVector,
         Answers("assert", <<c, v, w, n>>, AssertBitDecomposition(c, v, w, n))
  PROVE  GatesAreExact'
<1>1. PICK R : R = AssertBitDecomposition(c, v, w, n)
  OBVIOUS
<1>2. /\ R.status = "ok" /\ Fits(c, w) => Decomposes(w, v, n)
      /\ Len(w) <= WordBits /\ Decomposes(w, v, n) => R.status = "ok"
  BY <1>1, AssertIs
<1>3. /\ gate'.call = "assert" /\ gate'.args[1] = c /\ gate'.args[2] = v /\ gate'.args[3] = w
      /\ gate'.args[4] = n /\ gate'.result = R
  BY <1>1 DEF Answers
<1> QED BY <1>2, <1>3 DEF GatesAreExact, Ops

LEMMA GateExact ==
  ASSUME NEW op \in Ops, NEW a \in Vectors, NEW b \in Vectors, Answers(op, <<a, b>>, GateBits(op, a, b))
  PROVE  GatesAreExact'
<1>1. PICK R : R = GateBits(op, a, b)
  OBVIOUS
<1>2. /\ R.status = "ok" <=> Len(a) = Len(b) /\ \A k \in DOMAIN a : a[k] < 2 /\ b[k] < 2
      /\ R.status = "ok" => Len(R.out) = Len(a) /\ OnesOf(R.out) = Combined(op, OnesOf(a), OnesOf(b))
  BY <1>1, SuppliedGateIs
<1>3. gate'.call = op /\ gate'.args[1] = a /\ gate'.args[2] = b /\ gate'.result = R
  BY <1>1 DEF Answers
<1> QED BY <1>2, <1>3 DEF GatesAreExact, Ops

LEMMA NotExact ==
  ASSUME NEW a \in Vectors, Answers("not", <<a>>, NotBits(a))
  PROVE  GatesAreExact'
<1>1. PICK R : R = NotBits(a)
  OBVIOUS
<1>2. R.status = "ok" => OnesOf(R.out) = (0..(Len(a) - 1)) \ OnesOf(a)
  BY <1>1, NotIs
<1>3. gate'.call = "not" /\ gate'.args[1] = a /\ gate'.result = R
  BY <1>1 DEF Answers
<1> QED BY <1>2, <1>3 DEF GatesAreExact, Ops

LEMMA RecomposeExact ==
  ASSUME NEW c \in Checked, NEW a \in Vectors, Answers("recompose", <<c, a>>, Recompose(c, a))
  PROVE  GatesAreExact'
<1>1. PICK R : R = Recompose(c, a)
  OBVIOUS
<1>2. R.status = "ok" /\ Fits(c, a) => Ones(R.out) = OnesOf(a)
  BY <1>1, SuppliedRecomposeIs
<1>3. gate'.call = "recompose" /\ gate'.args[1] = c /\ gate'.args[2] = a /\ gate'.result = R
  BY <1>1 DEF Answers
<1> QED BY <1>2, <1>3 DEF GatesAreExact, Ops

LEMMA BitwiseExact ==
  ASSUME NEW s \in Checked, NEW op \in Ops, NEW a \in Value, NEW b \in Value, NEW n \in BitCounts,
         Answers("bitwise", <<op, a, b, n>>, Bitwise(s, op, a, b, n))
  PROVE  GatesAreExact'
<1>1. PICK R : R = Bitwise(s, op, a, b, n)
  OBVIOUS
<1>2. /\ R.status = "ok" <=> n <= WordBits /\ a < BitWeight[n] /\ b < BitWeight[n]
      /\ R.status = "ok" => Ones(R.out) = Combined(op, Ones(a), Ones(b))
  <2>1. n \in Nat
    BY BooleanAssumption
  <2> QED BY <1>1, <2>1, BitwiseIs
<1>3. /\ gate'.call = "bitwise" /\ gate'.args[1] = op /\ gate'.args[2] = a /\ gate'.args[3] = b
      /\ gate'.args[4] = n /\ gate'.result = R
  BY <1>1 DEF Answers
<1> QED BY <1>2, <1>3 DEF GatesAreExact, Ops

LEMMA MuxExact ==
  ASSUME NEW c \in Checked, NEW sel \in Wires, NEW a \in Value, NEW b \in Value,
         Answers("mux", <<c, sel, a, b>>, Mux(c, sel, a, b))
  PROVE  GatesAreExact'
<1>1. PICK R : R = Mux(c, sel, a, b)
  OBVIOUS
<1>2. /\ R.status = "ok" => sel < 2 /\ R.out = IF sel = 1 THEN b ELSE a
      /\ sel < 2 /\ a <= b => R.status = "ok"
  BY <1>1, MuxIs
<1>3. /\ gate'.call = "mux" /\ gate'.args[1] = c /\ gate'.args[2] = sel /\ gate'.args[3] = a
      /\ gate'.args[4] = b /\ gate'.result = R
  BY <1>1 DEF Answers
<1> QED BY <1>2, <1>3 DEF GatesAreExact, Ops

(* No call answered, no claim.                                              *)
LEMMA NoGateExact ==
  ASSUME gate = NoGate
  PROVE  GatesAreExact
BY DEF GatesAreExact, NoGate, Ops

(* Every call of a gadget on bits answers exactly, whatever the width of a  *)
(* word, the numbers, the wires and the lengths of the vectors:             *)
(* decompositions exist for the numbers that fit, and of the vectors that   *)
(* fit pass for no other; gates combine positions; what the multiplexer     *)
(* returns is what was selected.                                            *)
THEOREM GatesExact == BooleanSpec => []GatesAreExact
<1>1. BooleanInit => GatesAreExact
  BY NoGateExact DEF BooleanInit
<1>2. GatesAreExact /\ [BooleanNext]_gate => GatesAreExact'
  <2> SUFFICES ASSUME GatesAreExact, [BooleanNext]_gate PROVE GatesAreExact'
    OBVIOUS
  <2>1. CASE UNCHANGED gate
    BY <2>1 DEF GatesAreExact, Ops
  <2>2. CASE gate' = NoGate
    BY <2>2 DEF GatesAreExact, NoGate, Ops
  <2>3. ASSUME NEW v \in Value, NEW n \in BitCounts, Answers("decompose", <<v, n>>, BitDecompose(v, n))
        PROVE  GatesAreExact'
    BY <2>3, DecomposeExact
  <2>4. ASSUME NEW c \in Checked, NEW v \in Value, NEW w \in Vectors, NEW n \in 0..MaxVector,
               Answers("assert", <<c, v, w, n>>, AssertBitDecomposition(c, v, w, n))
        PROVE  GatesAreExact'
    BY <2>4, AssertExact
  <2>5. ASSUME NEW op \in Ops, NEW a \in Vectors, NEW b \in Vectors, Answers(op, <<a, b>>, GateBits(op, a, b))
        PROVE  GatesAreExact'
    BY <2>5, GateExact
  <2>6. ASSUME NEW a \in Vectors, Answers("not", <<a>>, NotBits(a)) PROVE GatesAreExact'
    BY <2>6, NotExact
  <2>7. ASSUME NEW c \in Checked, NEW a \in Vectors, Answers("recompose", <<c, a>>, Recompose(c, a))
        PROVE  GatesAreExact'
    BY <2>7, RecomposeExact
  <2>8. ASSUME NEW c \in Checked, NEW op \in Ops, NEW a \in Value, NEW b \in Value, NEW n \in BitCounts,
               Answers("bitwise", <<op, a, b, n>>, Bitwise(c, op, a, b, n))
        PROVE  GatesAreExact'
    BY <2>8, BitwiseExact
  <2>9. ASSUME NEW c \in Checked, NEW sel \in Wires, NEW a \in Value, NEW b \in Value,
               Answers("mux", <<c, sel, a, b>>, Mux(c, sel, a, b))
        PROVE  GatesAreExact'
    BY <2>9, MuxExact
  <2> QED BY <2>1, <2>2, <2>3, <2>4, <2>5, <2>6, <2>7, <2>8, <2>9 DEF BooleanNext
<1> QED BY <1>1, <1>2, PTL DEF BooleanSpec

-----------------------------------------------------------------------------
(* The sponge and the sequences of elements it stands for.                  *)

(* A sequence of elements in a sponge: pairs are permuted into its state,   *)
(* a last one waits.                                                        *)
Pairs(es) == [b \in 1..(Len(es) \div 2) |-> <<es[2 * b - 1], es[2 * b]>>]
StateOf(es) ==
    [permuted |-> Pairs(es),
     added |-> IF Len(es) % 2 = 1 THEN <<es[Len(es)], 0>> ELSE Zeros,
     rate_idx |-> Len(es) % 2]

(* Sequences with the same elements are equal.                              *)
LEMMA SameElements ==
  ASSUME NEW S, NEW a \in Seq(S), NEW b \in Seq(S), Len(a) = Len(b),
         \A k \in 1..Len(a) : a[k] = b[k]
  PROVE  a = b
<1>1. a \in [1..Len(a) -> S] /\ b \in [1..Len(a) -> S]
  OBVIOUS
<1> QED BY <1>1

(* Halves of a length.                                                      *)
LEMMA Halves ==
  ASSUME NEW n \in Nat
  PROVE  /\ n \div 2 \in Nat /\ n % 2 \in {0, 1} /\ n = 2 * (n \div 2) + (n % 2)
         /\ n % 2 = 0 => (n + 1) \div 2 = n \div 2 /\ (n + 1) % 2 = 1
         /\ n % 2 = 1 => (n + 1) \div 2 = (n \div 2) + 1 /\ (n + 1) % 2 = 0
OBVIOUS

(* What the sequence of pairs is.                                           *)
LEMMA PairsAre ==
  ASSUME NEW es \in Seq(Nat)
  PROVE  /\ Pairs(es) \in Seq(Seq(Nat)) /\ Len(Pairs(es)) = Len(es) \div 2
         /\ DOMAIN Pairs(es) = 1..(Len(es) \div 2)
         /\ \A b \in 1..(Len(es) \div 2) : Pairs(es)[b] = <<es[2 * b - 1], es[2 * b]>>
<1>1. Len(es) \in Nat /\ Len(es) \div 2 \in Nat /\ 2 * (Len(es) \div 2) <= Len(es)
  BY Halves
<1>2. ASSUME NEW b \in 1..(Len(es) \div 2) PROVE <<es[2 * b - 1], es[2 * b]>> \in Seq(Nat)
  <2>1. 2 * b - 1 \in 1..Len(es) /\ 2 * b \in 1..Len(es)
    BY <1>1
  <2> QED BY <2>1
<1> QED BY <1>1, <1>2 DEF Pairs

(* An element of an appended sequence.                                      *)
LEMMA AppendIs ==
  ASSUME NEW es \in Seq(Nat), NEW x \in Nat
  PROVE  /\ Append(es, x) \in Seq(Nat) /\ Len(Append(es, x)) = Len(es) + 1
         /\ Append(es, x)[Len(es) + 1] = x /\ \A k \in 1..Len(es) : Append(es, x)[k] = es[k]
OBVIOUS

(* An appended element waits, or completes a pair.                          *)
LEMMA PairsAppend ==
  ASSUME NEW es \in Seq(Nat), NEW x \in Nat
  PROVE  /\ Len(es) % 2 = 0 => Pairs(Append(es, x)) = Pairs(es)
         /\ Len(es) % 2 = 1 => Pairs(Append(es, x)) = Append(Pairs(es), <<es[Len(es)], x>>)
<1>1. PICK n \in Nat, q \in Nat : n = Len(es) /\ q = n \div 2
  BY Halves
<1>2. /\ Append(es, x) \in Seq(Nat) /\ Len(Append(es, x)) = n + 1
      /\ Append(es, x)[n + 1] = x /\ \A k \in 1..n : Append(es, x)[k] = es[k]
  BY <1>1, AppendIs
<1>3. ASSUME n % 2 = 0 PROVE Pairs(Append(es, x)) = Pairs(es)
  <2>1. n = 2 * q /\ (n + 1) \div 2 = q
    BY <1>1, <1>3, Halves
  <2>2. ASSUME NEW b \in 1..q
        PROVE  Append(es, x)[2 * b - 1] = es[2 * b - 1] /\ Append(es, x)[2 * b] = es[2 * b]
    BY <1>2, <2>1
  <2> QED BY <1>1, <1>2, <2>1, <2>2 DEF Pairs
<1>4. ASSUME n % 2 = 1
      PROVE  Pairs(Append(es, x)) = Append(Pairs(es), <<es[n], x>>)
  <2>1. n = 2 * q + 1 /\ (n + 1) \div 2 = q + 1
    BY <1>1, <1>4, Halves
  <2>2. /\ Pairs(es) \in Seq(Seq(Nat)) /\ Len(Pairs(es)) = q
        /\ \A b \in 1..q : Pairs(es)[b] = <<es[2 * b - 1], es[2 * b]>>
    BY <1>1, PairsAre
  <2>3. /\ Pairs(Append(es, x)) \in Seq(Seq(Nat)) /\ Len(Pairs(Append(es, x))) = q + 1
       /\ 
       /\ \A b \in 1..(q + 1) : Pairs(Append(es, x))[b] = <<Append(es, x)[2 * b - 1], Append(es, x)[2 * b]>>
    BY <1>2, <2>1, PairsAre
  <2>4. ASSUME NEW b \in 1..q
        PROVE  Pairs(Append(es, x))[b] = Pairs(es)[b]
    <3>1. 2 * b - 1 \in 1..n /\ 2 * b \in 1..n /\ b \in 1..(q + 1)
      BY <2>1
    <3> QED BY <1>2, <2>2, <2>3, <3>1
  <2>5. Pairs(Append(es, x))[q + 1] = <<es[n], x>>
    <3>1. 2 * (q + 1) - 1 = n /\ 2 * (q + 1) = n + 1 /\ n \in 1..n /\ q + 1 \in 1..(q + 1)
      BY <2>1
    <3> QED BY <1>2, <2>3, <3>1
  <2>6. <<es[n], x>> \in Seq(Nat)
    <3>1. n \in 1..n
      BY <2>1
    <3> QED BY <1>1, <3>1
  <2> QED BY <2>2, <2>3, <2>4, <2>5, <2>6
<1> QED BY <1>1, <1>3, <1>4

(* What absorbing does to a state, field by field.                          *)
LEMMA AbsorbOneMakes ==
  ASSUME NEW past, NEW a \in Nat, NEW x \in Nat
  PROVE  /\ AbsorbOne([permuted |-> past, added |-> Zeros, rate_idx |-> 0], x)
              = [permuted |-> past, added |-> <<x, 0>>, rate_idx |-> 1]
         /\ AbsorbOne([permuted |-> past, added |-> <<a, 0>>, rate_idx |-> 1], x)
              = [permuted |-> Append(past, <<a, x>>), added |-> Zeros, rate_idx |-> 0]
<1>1. [Zeros EXCEPT ![0 + 1] = @ + x] = <<x, 0>> /\ [<<a, 0>> EXCEPT ![1 + 1] = @ + x] = <<a, x>>
  BY DEF Zeros
<1>2. ASSUME NEW s, s = [permuted |-> past, added |-> Zeros, rate_idx |-> 0]
      PROVE  AbsorbOne(s, x) = [permuted |-> past, added |-> <<x, 0>>, rate_idx |-> 1]
  <2>1. s.permuted = past /\ s.added = Zeros /\ s.rate_idx = 0
    BY <1>2
  <2>2. AbsorbOne(s, x)
           = [permuted |-> past, added |-> [Zeros EXCEPT ![0 + 1] = @ + x], rate_idx |-> 0 + 1]
    BY <2>1 DEF AbsorbOne, Rate
  <2> QED BY <1>1, <2>2
<1>3. ASSUME NEW s, s = [permuted |-> past, added |-> <<a, 0>>, rate_idx |-> 1]
      PROVE  AbsorbOne(s, x)
               = [permuted |-> Append(past, <<a, x>>), added |-> Zeros, rate_idx |-> 0]
  <2>1. s.permuted = past /\ s.added = <<a, 0>> /\ s.rate_idx = 1
    BY <1>3
  <2>2. PICK b : b = [<<a, 0>> EXCEPT ![1 + 1] = @ + x]
    OBVIOUS
  <2>3. AbsorbOne(s, x) = PermuteSponge([permuted |-> past, added |-> b, rate_idx |-> 1 + 1])
    BY <2>1, <2>2 DEF AbsorbOne, Rate
  <2> QED BY <1>1, <2>2, <2>3 DEF PermuteSponge
<1> QED BY <1>2, <1>3

(* The state, by the parity of the length.                                  *)
LEMMA StateIs ==
  ASSUME NEW es
  PROVE  /\ Len(es) % 2 = 0 => StateOf(es)
           = [permuted |-> Pairs(es), added |-> Zeros, rate_idx |-> 0]
         /\ Len(es) % 2 = 1 => StateOf(es)
                  = [permuted |-> Pairs(es), added |-> <<es[Len(es)], 0>>, rate_idx |-> 1]
BY DEF StateOf

(* A challenge permutes the state.                                          *)
LEMMA SqueezeMakes ==
  ASSUME NEW past, NEW added, NEW rate_idx
  PROVE  Squeeze([permuted |-> past, added |-> added, rate_idx |-> rate_idx])
           = [permuted |-> Append(past, added), added |-> Zeros, rate_idx |-> 0]
BY DEF Squeeze, PermuteSponge

(* Absorbing an element appends it.                                         *)
LEMMA AbsorbOneIs ==
  ASSUME NEW es \in Seq(Nat), NEW x \in Nat
  PROVE  AbsorbOne(StateOf(es), x) = StateOf(Append(es, x))
<1>1. PICK n \in Nat : n = Len(es)
  OBVIOUS
<1>2. Len(Append(es, x)) = n + 1 /\ Append(es, x)[n + 1] = x
  BY <1>1, AppendIs
<1>3. CASE n % 2 = 0
  <2>1. (n + 1) % 2 = 1
    BY <1>3, Halves
  <2>2. AbsorbOne(StateOf(es), x) = [permuted |-> Pairs(es), added |-> <<x, 0>>, rate_idx |-> 1]
    <3>1. StateOf(es) = [permuted |-> Pairs(es), added |-> Zeros, rate_idx |-> 0]
      BY <1>1, <1>3, StateIs
    <3> QED BY <3>1, AbsorbOneMakes
  <2>3. StateOf(Append(es, x)) = [permuted |-> Pairs(es), added |-> <<x, 0>>, rate_idx |-> 1]
    <3>1. Pairs(Append(es, x)) = Pairs(es) /\ Len(Append(es, x)) % 2 = 1
      BY <1>1, <1>2, <1>3, <2>1, PairsAppend
    <3> QED BY <1>1, <1>2, <3>1, StateIs
  <2> QED BY <2>2, <2>3
<1>4. CASE n % 2 = 1
  <2>1. (n + 1) % 2 = 0
    BY <1>4, Halves
  <2>2. es[n] \in Nat
    <3>1. n \in 1..n
      BY <1>4
    <3> QED BY <1>1, <3>1
  <2>3. AbsorbOne(StateOf(es), x)
           = [permuted |-> Append(Pairs(es), <<es[n], x>>), added |-> Zeros, rate_idx |-> 0]
    <3>1. StateOf(es) = [permuted |-> Pairs(es), added |-> <<es[n], 0>>, rate_idx |-> 1]
      BY <1>1, <1>4, StateIs
    <3> QED BY <2>2, <3>1, AbsorbOneMakes
  <2>4. StateOf(Append(es, x))
           = [permuted |-> Append(Pairs(es), <<es[n], x>>), added |-> Zeros, rate_idx |-> 0]
    BY <1>1, <1>2, <1>4, <2>1, PairsAppend, StateIs
  <2> QED BY <2>3, <2>4
<1> QED BY <1>1, <1>3, <1>4, Halves

(* What a challenge makes of the elements.                                  *)
LEMMA FlushedIs ==
  ASSUME NEW es \in Seq(Nat)
  PROVE  /\ Flushed(es) \in Seq(Nat)
         /\ Len(es) % 2 = 1 => Flushed(es) = Append(es, 0)
         /\ Len(es) % 2 = 0 => Flushed(es) = Append(Append(es, 0), 0)
<1>1. es \o Zeros = Append(Append(es, 0), 0)
  BY DEF Zeros
<1>2. Len(es) \in Nat /\ (Len(es) % 2 = 0 \/ Len(es) % 2 = 1)
  BY Halves
<1>3. Append(es, 0) \in Seq(Nat) /\ Append(Append(es, 0), 0) \in Seq(Nat)
  OBVIOUS
<1> QED BY <1>1, <1>2, <1>3 DEF Flushed

(* A challenge permutes what waits, or a block of zeros.                    *)
LEMMA SqueezeIs ==
  ASSUME NEW es \in Seq(Nat)
  PROVE  /\ Squeeze(StateOf(es)) = StateOf(Flushed(es))
         /\ Len(Flushed(es)) % 2 = 0
<1>1. PICK n \in Nat : n = Len(es)
  OBVIOUS
<1>2. Append(es, 0) \in Seq(Nat) /\ Len(Append(es, 0)) = n + 1 /\ Append(es, 0)[n + 1] = 0
  BY <1>1, AppendIs
<1>3. CASE n % 2 = 1
  <2>1. (n + 1) % 2 = 0 /\ Flushed(es) = Append(es, 0)
    <3>1. (n + 1) % 2 = 0
      BY <1>3, Halves
    <3> QED BY <1>1, <1>3, <3>1, FlushedIs
  <2>2. Squeeze(StateOf(es))
           = [permuted |-> Append(Pairs(es), <<es[n], 0>>), added |-> Zeros, rate_idx |-> 0]
    BY <1>1, <1>3, StateIs, SqueezeMakes
  <2>3. StateOf(Append(es, 0))
           = [permuted |-> Append(Pairs(es), <<es[n], 0>>), added |-> Zeros, rate_idx |-> 0]
    BY <1>1, <1>2, <1>3, <2>1, PairsAppend, StateIs
  <2> QED BY <1>2, <2>1, <2>2, <2>3
<1>4. CASE n % 2 = 0
  <2>1. (n + 1) % 2 = 1 /\ ((n + 1) + 1) % 2 = 0 /\ Flushed(es) = Append(Append(es, 0), 0)
    <3>1. (n + 1) % 2 = 1
      BY <1>4, Halves
    <3>2. ((n + 1) + 1) % 2 = 0
      BY <3>1, Halves
    <3> QED BY <1>1, <1>4, <3>1, <3>2, FlushedIs
  <2>2. Squeeze(StateOf(es))
           = [permuted |-> Append(Pairs(es), <<0, 0>>), added |-> Zeros, rate_idx |-> 0]
    BY <1>1, <1>4, StateIs, SqueezeMakes DEF Zeros
  <2>3. Pairs(Append(es, 0)) = Pairs(es)
    BY <1>1, <1>4, PairsAppend
  <2>4. Pairs(Append(Append(es, 0), 0)) = Append(Pairs(Append(es, 0)), <<0, 0>>)
    <3>1. PICK e : e = Append(es, 0) /\ e \in Seq(Nat) /\ Len(e) = n + 1 /\ e[n + 1] = 0
      BY <1>2
    <3>2. Pairs(Append(e, 0)) = Append(Pairs(e), <<e[n + 1], 0>>)
      <4>1. Len(e) % 2 = 1
        BY <2>1, <3>1
      <4>2. 0 \in Nat /\ e \in Seq(Nat)
        BY <3>1
      <4>3. Pairs(Append(e, 0)) = Append(Pairs(e), <<e[Len(e)], 0>>)
        BY <4>1, <4>2, PairsAppend
      <4> QED BY <3>1, <4>3
    <3> QED BY <3>1, <3>2
  <2>5. Len(Append(Append(es, 0), 0)) = (n + 1) + 1
    BY <1>2
  <2>6. StateOf(Append(Append(es, 0), 0))
           = [permuted |-> Append(Pairs(es), <<0, 0>>), added |-> Zeros, rate_idx |-> 0]
    BY <2>1, <2>3, <2>4, <2>5, StateIs
  <2> QED BY <2>1, <2>2, <2>5, <2>6
<1> QED BY <1>1, <1>3, <1>4, Halves


-----------------------------------------------------------------------------
(* The folds of the sponge, step by step.                                   *)

Absorbs(hs, s, xs) ==
    hs[0] = s /\ \A k \in 0..(Len(xs) - 1) : hs[k + 1] = AbsorbOne(hs[k], xs[k + 1])
AbsorbsAll(hs, chunks) ==
    hs[0] = NewSponge /\ \A k \in 0..(Len(chunks) - 1) : hs[k + 1] = Absorb(hs[k], chunks[k + 1])
Joins(hs, chunks) ==
    hs[0] = <<>> /\ \A k \in 0..(Len(chunks) - 1) : hs[k + 1] = hs[k] \o chunks[k + 1]
Stands(hs, log) ==
    /\ hs[0] = <<>>
    /\ \A k \in 0..(Len(log) - 1) :
          hs[k + 1] = IF log[k + 1] # -1 THEN Append(hs[k], log[k + 1]) ELSE Flushed(hs[k])
Hashes(hs, calls) ==
    /\ hs[0] = <<>>
    /\ \A k \in 0..(Len(calls) - 1) :
          hs[k + 1] = IF calls[k + 1] = SQUEEZE THEN StarkSqueeze(hs[k])
                     ELSE StarkAbsorb(hs[k], calls[k + 1])

(* Absorbing a sequence absorbs its elements in turn.                         *)
LEMMA AbsorbUnfolds ==
  ASSUME NEW s, NEW S, NEW xs \in Seq(S)
  PROVE  \E hs : Absorbs(hs, s, xs) /\ hs[Len(xs)] = Absorb(s, xs)
<1> DEFINE Step(f, k) == IF k = 0 THEN s ELSE AbsorbOne(f[k - 1], xs[k])
           P(m) == \E f : f = [k \in 0..m |-> Step(f, k)]
           Q == {m \in Nat : P(m)}
<1>1. 0 \in Q
  <2> DEFINE f == [k \in 0..0 |-> s]
  <2>1. f = [k \in 0..0 |-> Step(f, k)]
    OBVIOUS
  <2> QED BY <2>1
<1>2. ASSUME NEW m \in Q PROVE m + 1 \in Q
  <2> HIDE DEF Step
  <2>1. PICK f : f = [k \in 0..m |-> Step(f, k)]
    OBVIOUS
  <2> DEFINE f1 == [k \in 0..(m + 1) |-> Step(f, k)]
  <2>2. \A k \in 0..m : f1[k] = f[k]
    BY <2>1
  <2>3. ASSUME NEW k \in 0..(m + 1) PROVE Step(f, k) = Step(f1, k)
    <3>1. k # 0 => k - 1 \in 0..m
      OBVIOUS
    <3> HIDE DEF f1
    <3>2. k # 0 => f1[k - 1] = f[k - 1]
      BY <2>2, <3>1
    <3> QED BY <3>2 DEF Step
  <2>4. f1 = [k \in 0..(m + 1) |-> Step(f1, k)]
    BY <2>3
  <2> HIDE DEF f1
  <2>5. m + 1 \in Nat /\ P(m + 1)
    BY <2>4
  <2> HIDE DEF P
  <2> QED BY <2>5
<1>3. P(Len(xs))
  <2>1. Q \in SUBSET Nat
    OBVIOUS
  <2>2. Q = Nat
    <3> HIDE DEF Q
    <3> QED BY <1>1, <1>2, <2>1, Inductive
  <2>3. Len(xs) \in Nat
    OBVIOUS
  <2> HIDE DEF P
  <2> QED BY <2>2, <2>3
<1> DEFINE hs == CHOOSE f : f = [k \in 0..Len(xs) |-> Step(f, k)]
<1>4. hs = [k \in 0..Len(xs) |-> Step(hs, k)]
  BY <1>3
<1>5. Absorb(s, xs) = hs[Len(xs)]
  BY DEF Absorb
<1> HIDE DEF hs
<1>6. Absorbs(hs, s, xs)
  <2>1. hs[0] = s
    BY <1>4
  <2>2. ASSUME NEW k \in 0..(Len(xs) - 1) PROVE hs[k + 1] = Step(hs, k + 1)
    BY <1>4
  <2>3. ASSUME NEW k \in 0..(Len(xs) - 1) PROVE hs[k + 1] = AbsorbOne(hs[k], xs[k + 1])
    <3>1. (k + 1) - 1 = k /\ k + 1 # 0
      OBVIOUS
    <3> QED BY <2>2, <3>1
  <2> QED BY <2>1, <2>3 DEF Absorbs
<1> QED BY <1>5, <1>6

(* Chunks are absorbed in turn.                                               *)
LEMMA ChunkedUnfolds ==
  ASSUME NEW S, NEW chunks \in Seq(S), ~ \E k \in DOMAIN chunks : Len(chunks[k]) > Rate
  PROVE  \E hs : /\ AbsorbsAll(hs, chunks)
                 /\ PoseidonHashChunked(chunks) = Digest(Squeeze(hs[Len(chunks)]))
<1> DEFINE Step(f, k) == IF k = 0 THEN NewSponge ELSE Absorb(f[k - 1], chunks[k])
           P(m) == \E f : f = [k \in 0..m |-> Step(f, k)]
           Q == {m \in Nat : P(m)}
<1>1. 0 \in Q
  <2> DEFINE f == [k \in 0..0 |-> NewSponge]
  <2>1. f = [k \in 0..0 |-> Step(f, k)]
    OBVIOUS
  <2> QED BY <2>1
<1>2. ASSUME NEW m \in Q PROVE m + 1 \in Q
  <2> HIDE DEF Step
  <2>1. PICK f : f = [k \in 0..m |-> Step(f, k)]
    OBVIOUS
  <2> DEFINE f1 == [k \in 0..(m + 1) |-> Step(f, k)]
  <2>2. \A k \in 0..m : f1[k] = f[k]
    BY <2>1
  <2>3. ASSUME NEW k \in 0..(m + 1) PROVE Step(f, k) = Step(f1, k)
    <3>1. k # 0 => k - 1 \in 0..m
      OBVIOUS
    <3> HIDE DEF f1
    <3>2. k # 0 => f1[k - 1] = f[k - 1]
      BY <2>2, <3>1
    <3> QED BY <3>2 DEF Step
  <2>4. f1 = [k \in 0..(m + 1) |-> Step(f1, k)]
    BY <2>3
  <2> HIDE DEF f1
  <2>5. m + 1 \in Nat /\ P(m + 1)
    BY <2>4
  <2> HIDE DEF P
  <2> QED BY <2>5
<1>3. P(Len(chunks))
  <2>1. Q \in SUBSET Nat
    OBVIOUS
  <2>2. Q = Nat
    <3> HIDE DEF Q
    <3> QED BY <1>1, <1>2, <2>1, Inductive
  <2>3. Len(chunks) \in Nat
    OBVIOUS
  <2> HIDE DEF P
  <2> QED BY <2>2, <2>3
<1> DEFINE hs == CHOOSE f : f = [k \in 0..Len(chunks) |-> Step(f, k)]
<1>4. hs = [k \in 0..Len(chunks) |-> Step(hs, k)]
  BY <1>3
<1>5. PoseidonHashChunked(chunks) = Digest(Squeeze(hs[Len(chunks)]))
  BY DEF PoseidonHashChunked
<1> HIDE DEF hs
<1>6. AbsorbsAll(hs, chunks)
  <2>1. hs[0] = NewSponge
    BY <1>4
  <2>2. ASSUME NEW k \in 0..(Len(chunks) - 1) PROVE hs[k + 1] = Step(hs, k + 1)
    BY <1>4
  <2>3. ASSUME NEW k \in 0..(Len(chunks) - 1) PROVE hs[k + 1] = Absorb(hs[k], chunks[k + 1])
    <3>1. (k + 1) - 1 = k /\ k + 1 # 0
      OBVIOUS
    <3> QED BY <2>2, <3>1
  <2> QED BY <2>1, <2>3 DEF AbsorbsAll
<1> QED BY <1>5, <1>6

(* Joining appends one sequence after the other.                              *)
LEMMA JoinedUnfolds ==
  ASSUME NEW S, NEW chunks \in Seq(S)
  PROVE  \E hs : Joins(hs, chunks) /\ hs[Len(chunks)] = Joined(chunks)
<1> DEFINE Step(f, k) == IF k = 0 THEN <<>> ELSE f[k - 1] \o chunks[k]
           P(m) == \E f : f = [k \in 0..m |-> Step(f, k)]
           Q == {m \in Nat : P(m)}
<1>1. 0 \in Q
  <2> DEFINE f == [k \in 0..0 |-> <<>>]
  <2>1. f = [k \in 0..0 |-> Step(f, k)]
    OBVIOUS
  <2> QED BY <2>1
<1>2. ASSUME NEW m \in Q PROVE m + 1 \in Q
  <2> HIDE DEF Step
  <2>1. PICK f : f = [k \in 0..m |-> Step(f, k)]
    OBVIOUS
  <2> DEFINE f1 == [k \in 0..(m + 1) |-> Step(f, k)]
  <2>2. \A k \in 0..m : f1[k] = f[k]
    BY <2>1
  <2>3. ASSUME NEW k \in 0..(m + 1) PROVE Step(f, k) = Step(f1, k)
    <3>1. k # 0 => k - 1 \in 0..m
      OBVIOUS
    <3> HIDE DEF f1
    <3>2. k # 0 => f1[k - 1] = f[k - 1]
      BY <2>2, <3>1
    <3> QED BY <3>2 DEF Step
  <2>4. f1 = [k \in 0..(m + 1) |-> Step(f1, k)]
    BY <2>3
  <2> HIDE DEF f1
  <2>5. m + 1 \in Nat /\ P(m + 1)
    BY <2>4
  <2> HIDE DEF P
  <2> QED BY <2>5
<1>3. P(Len(chunks))
  <2>1. Q \in SUBSET Nat
    OBVIOUS
  <2>2. Q = Nat
    <3> HIDE DEF Q
    <3> QED BY <1>1, <1>2, <2>1, Inductive
  <2>3. Len(chunks) \in Nat
    OBVIOUS
  <2> HIDE DEF P
  <2> QED BY <2>2, <2>3
<1> DEFINE hs == CHOOSE f : f = [k \in 0..Len(chunks) |-> Step(f, k)]
<1>4. hs = [k \in 0..Len(chunks) |-> Step(hs, k)]
  BY <1>3
<1>5. Joined(chunks) = hs[Len(chunks)]
  BY DEF Joined
<1> HIDE DEF hs
<1>6. Joins(hs, chunks)
  <2>1. hs[0] = <<>>
    BY <1>4
  <2>2. ASSUME NEW k \in 0..(Len(chunks) - 1) PROVE hs[k + 1] = Step(hs, k + 1)
    BY <1>4
  <2>3. ASSUME NEW k \in 0..(Len(chunks) - 1) PROVE hs[k + 1] = hs[k] \o chunks[k + 1]
    <3>1. (k + 1) - 1 = k /\ k + 1 # 0
      OBVIOUS
    <3> QED BY <2>2, <3>1
  <2> QED BY <2>1, <2>3 DEF Joins
<1> QED BY <1>5, <1>6

(* A transcript as elements, call by call.                                    *)
LEMMA ElementsUnfold ==
  ASSUME NEW S, NEW log \in Seq(S)
  PROVE  \E hs : Stands(hs, log) /\ hs[Len(log)] = AsElements(log)
<1> DEFINE Step(f, k) == IF k = 0 THEN <<>>
                         ELSE IF log[k] # -1 THEN Append(f[k - 1], log[k])
                         ELSE Flushed(f[k - 1])
           P(m) == \E f : f = [k \in 0..m |-> Step(f, k)]
           Q == {m \in Nat : P(m)}
<1>1. 0 \in Q
  <2> DEFINE f == [k \in 0..0 |-> <<>>]
  <2>1. f = [k \in 0..0 |-> Step(f, k)]
    OBVIOUS
  <2> QED BY <2>1
<1>2. ASSUME NEW m \in Q PROVE m + 1 \in Q
  <2> HIDE DEF Step
  <2>1. PICK f : f = [k \in 0..m |-> Step(f, k)]
    OBVIOUS
  <2> DEFINE f1 == [k \in 0..(m + 1) |-> Step(f, k)]
  <2>2. \A k \in 0..m : f1[k] = f[k]
    BY <2>1
  <2>3. ASSUME NEW k \in 0..(m + 1) PROVE Step(f, k) = Step(f1, k)
    <3>1. k # 0 => k - 1 \in 0..m
      OBVIOUS
    <3> HIDE DEF f1
    <3>2. k # 0 => f1[k - 1] = f[k - 1]
      BY <2>2, <3>1
    <3> QED BY <3>2 DEF Step
  <2>4. f1 = [k \in 0..(m + 1) |-> Step(f1, k)]
    BY <2>3
  <2> HIDE DEF f1
  <2>5. m + 1 \in Nat /\ P(m + 1)
    BY <2>4
  <2> HIDE DEF P
  <2> QED BY <2>5
<1>3. P(Len(log))
  <2>1. Q \in SUBSET Nat
    OBVIOUS
  <2>2. Q = Nat
    <3> HIDE DEF Q
    <3> QED BY <1>1, <1>2, <2>1, Inductive
  <2>3. Len(log) \in Nat
    OBVIOUS
  <2> HIDE DEF P
  <2> QED BY <2>2, <2>3
<1> DEFINE hs == CHOOSE f : f = [k \in 0..Len(log) |-> Step(f, k)]
<1>4. hs = [k \in 0..Len(log) |-> Step(hs, k)]
  BY <1>3
<1>5. AsElements(log) = hs[Len(log)]
  BY DEF AsElements
<1> HIDE DEF hs
<1>6. Stands(hs, log)
  <2>1. hs[0] = <<>>
    BY <1>4
  <2>2. ASSUME NEW k \in 0..(Len(log) - 1) PROVE hs[k + 1] = Step(hs, k + 1)
    <3>1. k + 1 \in 0..Len(log)
      OBVIOUS
    <3> HIDE DEF Step
    <3> QED BY <1>4, <3>1
  <2>3. ASSUME NEW k \in 0..(Len(log) - 1)
        PROVE  hs[k + 1] = IF log[k + 1] # -1 THEN Append(hs[k], log[k + 1]) ELSE Flushed(hs[k])
    <3>1. (k + 1) - 1 = k /\ k + 1 # 0
      OBVIOUS
    <3> QED BY <2>2, <3>1
  <2> QED BY <2>1, <2>3 DEF Stands
<1> QED BY <1>5, <1>6

(* The chunks that the STARK transcript hashes, call by call.                 *)
LEMMA StarkUnfolds ==
  ASSUME NEW S, NEW calls \in Seq(S)
  PROVE  \E hs : Hashes(hs, calls) /\ hs[Len(calls)] = StarkTranscript(calls)
<1> DEFINE Step(f, k) == IF k = 0 THEN <<>>
                         ELSE IF calls[k] = SQUEEZE THEN StarkSqueeze(f[k - 1])
                         ELSE StarkAbsorb(f[k - 1], calls[k])
           P(m) == \E f : f = [k \in 0..m |-> Step(f, k)]
           Q == {m \in Nat : P(m)}
<1>1. 0 \in Q
  <2> DEFINE f == [k \in 0..0 |-> <<>>]
  <2>1. f = [k \in 0..0 |-> Step(f, k)]
    OBVIOUS
  <2> QED BY <2>1
<1>2. ASSUME NEW m \in Q PROVE m + 1 \in Q
  <2> HIDE DEF Step
  <2>1. PICK f : f = [k \in 0..m |-> Step(f, k)]
    OBVIOUS
  <2> DEFINE f1 == [k \in 0..(m + 1) |-> Step(f, k)]
  <2>2. \A k \in 0..m : f1[k] = f[k]
    BY <2>1
  <2>3. ASSUME NEW k \in 0..(m + 1) PROVE Step(f, k) = Step(f1, k)
    <3>1. k # 0 => k - 1 \in 0..m
      OBVIOUS
    <3> HIDE DEF f1
    <3>2. k # 0 => f1[k - 1] = f[k - 1]
      BY <2>2, <3>1
    <3> QED BY <3>2 DEF Step
  <2>4. f1 = [k \in 0..(m + 1) |-> Step(f1, k)]
    BY <2>3
  <2> HIDE DEF f1
  <2>5. m + 1 \in Nat /\ P(m + 1)
    BY <2>4
  <2> HIDE DEF P
  <2> QED BY <2>5
<1>3. P(Len(calls))
  <2>1. Q \in SUBSET Nat
    OBVIOUS
  <2>2. Q = Nat
    <3> HIDE DEF Q
    <3> QED BY <1>1, <1>2, <2>1, Inductive
  <2>3. Len(calls) \in Nat
    OBVIOUS
  <2> HIDE DEF P
  <2> QED BY <2>2, <2>3
<1> DEFINE hs == CHOOSE f : f = [k \in 0..Len(calls) |-> Step(f, k)]
<1>4. hs = [k \in 0..Len(calls) |-> Step(hs, k)]
  BY <1>3
<1>5. StarkTranscript(calls) = hs[Len(calls)]
  BY DEF StarkTranscript
<1> HIDE DEF hs
<1>6. Hashes(hs, calls)
  <2>1. hs[0] = <<>>
    BY <1>4
  <2>2. ASSUME NEW k \in 0..(Len(calls) - 1) PROVE hs[k + 1] = Step(hs, k + 1)
    BY <1>4
  <2>3. ASSUME NEW k \in 0..(Len(calls) - 1)
        PROVE  hs[k + 1] = IF calls[k + 1] = SQUEEZE THEN StarkSqueeze(hs[k])
                           ELSE StarkAbsorb(hs[k], calls[k + 1])
    <3>1. (k + 1) - 1 = k /\ k + 1 # 0
      OBVIOUS
    <3> QED BY <2>2, <3>1
  <2> QED BY <2>1, <2>3 DEF Hashes
<1> QED BY <1>5, <1>6

-----------------------------------------------------------------------------
(* What a state tells of the elements.                                      *)

(* Pairs tell the elements in them.                                         *)
LEMMA PairsDetermine ==
  ASSUME NEW a \in Seq(Nat), NEW b \in Seq(Nat)
  PROVE  Pairs(a) = Pairs(b) <=> /\ Len(a) \div 2 = Len(b) \div 2
                                 /\ \A k \in 1..(2 * (Len(a) \div 2)) : a[k] = b[k]
<1>1. PICK p \in Nat, q \in Nat : p = Len(a) \div 2 /\ q = Len(b) \div 2
  BY Halves
<1>2. /\ Len(Pairs(a)) = p /\ \A k \in 1..p : Pairs(a)[k] = <<a[2 * k - 1], a[2 * k]>>
      /\ Len(Pairs(b)) = q /\ \A k \in 1..q : Pairs(b)[k] = <<b[2 * k - 1], b[2 * k]>>
  BY <1>1, PairsAre
<1>3. ASSUME Pairs(a) = Pairs(b), NEW k \in 1..(2 * p) PROVE p = q /\ a[k] = b[k]
  <2>1. p = q
    BY <1>2, <1>3
  <2>2. PICK all \in 1..p : k = 2 * all - 1 \/ k = 2 * all
    <3>1. PICK all \in Nat : all = (k + 1) \div 2
      BY Halves
    <3>2. all \in 1..p /\ (k = 2 * all - 1 \/ k = 2 * all)
      BY <3>1
    <3> QED BY <3>2
  <2>3. <<a[2 * all - 1], a[2 * all]>> = <<b[2 * all - 1], b[2 * all]>>
    BY <1>2, <1>3, <2>1
  <2> QED BY <2>1, <2>2, <2>3
<1>4. ASSUME p = q, \A k \in 1..(2 * p) : a[k] = b[k] PROVE Pairs(a) = Pairs(b)
  <2>1. ASSUME NEW all \in 1..p
        PROVE  <<a[2 * all - 1], a[2 * all]>> = <<b[2 * all - 1], b[2 * all]>>
    <3>1. 2 * all - 1 \in 1..(2 * p) /\ 2 * all \in 1..(2 * p)
      OBVIOUS
    <3> QED BY <1>4, <3>1
  <2> QED BY <1>1, <1>4, <2>1 DEF Pairs
<1>5. Pairs(a) = Pairs(b) => p = q
  BY <1>2
<1> QED BY <1>1, <1>3, <1>4, <1>5

(* Sequences of even length are told by their pairs.                        *)
LEMMA PairsInjective ==
  ASSUME NEW a \in Seq(Nat), NEW b \in Seq(Nat), Len(a) % 2 = 0, Len(b) % 2 = 0
  PROVE  Pairs(a) = Pairs(b) <=> a = b
<1>1. /\ Len(a) = 2 * (Len(a) \div 2) /\ Len(b) = 2 * (Len(b) \div 2) /\ Len(a) \in Nat
      /\ Len(b) \in Nat
  BY Halves
<1>2. ASSUME Pairs(a) = Pairs(b) PROVE a = b
  <2>1. Len(a) = Len(b) /\ \A k \in 1..Len(a) : a[k] = b[k]
    BY <1>1, <1>2, PairsDetermine
  <2> QED BY <2>1, SameElements
<1> QED BY <1>2

(* The elements after a challenge.                                          *)
LEMMA FlushedHas ==
  ASSUME NEW es \in Seq(Nat)
  PROVE  /\ Flushed(es) \in Seq(Nat) /\ Len(Flushed(es)) = 2 * (Len(es) \div 2) + 2
         /\ Len(Flushed(es)) % 2 = 0 /\ Flushed(es)[Len(es) + 1] = 0
         /\ \A k \in 1..Len(es) : Flushed(es)[k] = es[k]
<1>1. PICK n \in Nat, q \in Nat : /\ n = Len(es) /\ q = n \div 2 /\ n = 2 * q + (n % 2)
                                  /\ n % 2 \in {0, 1}
  BY Halves
<1>2. PICK e : /\ e = Append(es, 0) /\ e \in Seq(Nat) /\ Len(e) = n + 1 /\ e[n + 1] = 0
               /\ \A k \in 1..n : e[k] = es[k]
  <2>1. 0 \in Nat /\ Len(es) = n
    BY <1>1
  <2>2. /\ Append(es, 0) \in Seq(Nat) /\ Len(Append(es, 0)) = n + 1
        /\ Append(es, 0)[n + 1] = 0 /\ \A k \in 1..n : Append(es, 0)[k] = es[k]
    BY <2>1, AppendIs
  <2> QED BY <2>2
<1>3. Len(Flushed(es)) % 2 = 0
  BY SqueezeIs
<1>4. CASE n % 2 = 1
  <2>1. Flushed(es) = e
    BY <1>1, <1>2, <1>4, FlushedIs
  <2>2. n + 1 = 2 * q + 2
    BY <1>1, <1>4
  <2> QED BY <1>1, <1>2, <1>3, <2>1, <2>2
<1>5. CASE n % 2 = 0
  <2>1. Flushed(es) = Append(e, 0) /\ n + 2 = 2 * q + 2
    <3>1. n + 2 = 2 * q + 2
      BY <1>1, <1>5
    <3>2. Flushed(es) = Append(Append(es, 0), 0)
      BY <1>1, <1>5, FlushedIs
    <3> QED BY <1>2, <3>1, <3>2
  <2>2. /\ Append(e, 0) \in Seq(Nat) /\ Len(Append(e, 0)) = n + 2
        /\ \A k \in 1..(n + 1) : Append(e, 0)[k] = e[k]
    BY <1>2, AppendIs
  <2> QED BY <1>1, <1>2, <1>3, <2>1, <2>2
<1> QED BY <1>1, <1>4, <1>5

(* Messages meet in a digest when they agree or an even one goes on with a  *)
(* zero.                                                                    *)
LEMMA FlushedMeet ==
  ASSUME NEW a \in Seq(Nat), NEW b \in Seq(Nat)
  PROVE  Pairs(Flushed(a)) = Pairs(Flushed(b)) <=> EqualUpToZero(a, b)
<1>1. /\ Flushed(a) \in Seq(Nat) /\ Len(Flushed(a)) = 2 * (Len(a) \div 2) + 2
      /\ Len(Flushed(a)) % 2 = 0 /\ Flushed(a)[Len(a) + 1] = 0
      /\ \A k \in 1..Len(a) : Flushed(a)[k] = a[k]
  BY FlushedHas
<1>2. /\ Flushed(b) \in Seq(Nat) /\ Len(Flushed(b)) = 2 * (Len(b) \div 2) + 2
      /\ Len(Flushed(b)) % 2 = 0 /\ Flushed(b)[Len(b) + 1] = 0
      /\ \A k \in 1..Len(b) : Flushed(b)[k] = b[k]
  BY FlushedHas
<1>3. Pairs(Flushed(a)) = Pairs(Flushed(b)) <=> Flushed(a) = Flushed(b)
  BY <1>1, <1>2, PairsInjective
<1>4. PICK m \in Nat, n \in Nat : m = Len(a) /\ n = Len(b)
  OBVIOUS
<1>5. /\ m = 2 * (m \div 2) + (m % 2) /\ n = 2 * (n \div 2) + (n % 2)
      /\ m % 2 \in {0, 1} /\ n % 2 \in {0, 1} /\ m \div 2 \in Nat /\ n \div 2 \in Nat
  BY Halves
<1>6. ASSUME Flushed(a) = Flushed(b) PROVE EqualUpToZero(a, b)
  <2>1. m \div 2 = n \div 2
    BY <1>1, <1>2, <1>4, <1>5, <1>6
  <2>2. CASE m = n
    <3>1. \A k \in 1..m : a[k] = b[k]
      BY <1>1, <1>2, <1>4, <1>6, <2>2
    <3>2. Len(a) = Len(b) /\ \A k \in 1..Len(a) : a[k] = b[k]
      BY <1>4, <2>2, <3>1
    <3>3. a = b
      BY <3>2, SameElements
    <3> QED BY <3>3 DEF EqualUpToZero
  <2>3. CASE m % 2 = 0 /\ n = m + 1
    <3>1. b[m + 1] = 0 /\ \A k \in 1..m : a[k] = b[k]
      BY <1>1, <1>2, <1>4, <1>6, <2>3
    <3>2. b = Append(a, 0)
      <4>1. PICK e : /\ e = Append(a, 0) /\ e \in Seq(Nat) /\ Len(e) = m + 1 /\ e[m + 1] = 0
                     /\ \A k \in 1..m : e[k] = a[k]
        <5>1. 0 \in Nat /\ Len(a) = m
          BY <1>4
        <5>2. /\ Append(a, 0) \in Seq(Nat) /\ Len(Append(a, 0)) = m + 1
              /\ Append(a, 0)[m + 1] = 0 /\ \A k \in 1..m : Append(a, 0)[k] = a[k]
          BY <5>1, AppendIs
        <5> QED BY <5>2
      <4>2. \A k \in 1..n : b[k] = e[k]
        BY <2>3, <3>1, <4>1
      <4> QED BY <1>4, <2>3, <4>1, <4>2, SameElements
    <3> QED BY <1>4, <2>3, <3>2 DEF EqualUpToZero
  <2>4. CASE n % 2 = 0 /\ m = n + 1
    <3>1. a[n + 1] = 0 /\ \A k \in 1..n : a[k] = b[k]
      <4>1. m \in 1..m /\ n + 1 = m /\ \A k \in 1..n : k \in 1..m
        BY <2>4
      <4>2. PICK f : f = Flushed(a) /\ f = Flushed(b)
        BY <1>6
      <4>3. /\ f[n + 1] = 0 /\ \A k \in 1..n : f[k] = b[k]
        BY <1>2, <1>4, <4>2
      <4>4. \A k \in 1..m : f[k] = a[k]
        BY <1>1, <1>4, <4>2
      <4> QED BY <4>1, <4>3, <4>4
    <3>2. a = Append(b, 0)
      <4>1. PICK e : /\ e = Append(b, 0) /\ e \in Seq(Nat) /\ Len(e) = n + 1 /\ e[n + 1] = 0
                     /\ \A k \in 1..n : e[k] = b[k]
        <5>1. 0 \in Nat /\ Len(b) = n
          BY <1>4
        <5>2. /\ Append(b, 0) \in Seq(Nat) /\ Len(Append(b, 0)) = n + 1
              /\ Append(b, 0)[n + 1] = 0 /\ \A k \in 1..n : Append(b, 0)[k] = b[k]
          BY <5>1, AppendIs
        <5> QED BY <5>2
      <4>2. \A k \in 1..m : a[k] = e[k]
        BY <2>4, <3>1, <4>1
      <4> QED BY <1>4, <2>4, <4>1, <4>2, SameElements
    <3> QED BY <1>4, <2>4, <3>2 DEF EqualUpToZero
  <2> QED BY <1>5, <2>1, <2>2, <2>3, <2>4
<1>7. ASSUME NEW e \in Seq(Nat), Len(e) % 2 = 0 PROVE Flushed(Append(e, 0)) = Flushed(e)
  <2>1. Append(e, 0) \in Seq(Nat) /\ Len(Append(e, 0)) % 2 = 1
    <3>1. Len(e) \in Nat /\ Len(Append(e, 0)) = Len(e) + 1 /\ Append(e, 0) \in Seq(Nat)
      BY AppendIs
    <3> QED BY <1>7, <3>1, Halves
  <2> QED BY <1>7, <2>1, FlushedIs
<1>8. EqualUpToZero(a, b) => Flushed(a) = Flushed(b)
  BY <1>7 DEF EqualUpToZero
<1> QED BY <1>3, <1>6, <1>8

(* What waits, or zero.                                                     *)
Waiting(es) == IF Len(es) % 2 = 1 THEN es[Len(es)] ELSE 0

(* The state, field by field.                                               *)
LEMMA StateHas ==
  ASSUME NEW es \in Seq(Nat)
  PROVE  /\ StateOf(es).permuted = Pairs(es) /\ StateOf(es).added = <<Waiting(es), 0>>
         /\ Waiting(es) \in Nat
<1>1. Len(es) \in Nat /\ (Len(es) % 2 = 1 => Len(es) \in 1..Len(es))
  OBVIOUS
<1> QED BY <1>1 DEF StateOf, Waiting, Zeros

(* Elements without a zero that waits.                                      *)
LEMMA SettledHas ==
  ASSUME NEW es \in Seq(Nat), NEW q \in Nat, q = Len(es) \div 2
  PROVE  /\ Settled(es) \in Seq(Nat)
         /\ Len(Settled(es)) = IF Waiting(es) = 0 THEN 2 * q ELSE 2 * q + 1
         /\ \A k \in 1..(2 * q) : Settled(es)[k] = es[k]
         /\ Waiting(es) # 0 => Settled(es)[2 * q + 1] = Waiting(es)
<1>1. PICK n \in Nat : n = Len(es) /\ n = 2 * q + (n % 2) /\ n % 2 \in {0, 1}
  BY Halves
<1>2. CASE n % 2 = 0
  BY <1>1, <1>2 DEF Settled, Waiting
<1>3. CASE n % 2 = 1 /\ es[n] # 0
  BY <1>1, <1>3 DEF Settled, Waiting, Last
<1>4. CASE n % 2 = 1 /\ es[n] = 0
  <2>1. Settled(es) = SubSeq(es, 1, 2 * q) /\ Waiting(es) = 0
    <3>1. n - 1 = 2 * q
      BY <1>1, <1>4
    <3> QED BY <1>1, <1>4, <3>1 DEF Settled, Waiting, Last, Front
  <2>2. /\ SubSeq(es, 1, 2 * q) \in Seq(Nat) /\ Len(SubSeq(es, 1, 2 * q)) = 2 * q
        /\ \A k \in 1..(2 * q) : SubSeq(es, 1, 2 * q)[k] = es[k]
    BY <1>1
  <2> QED BY <2>1, <2>2
<1> QED BY <1>1, <1>2, <1>3, <1>4

(* States meet when the settled elements agree.                             *)
LEMMA StatesMeet ==
  ASSUME NEW a \in Seq(Nat), NEW b \in Seq(Nat)
  PROVE  SameState(StateOf(a), StateOf(b)) <=> Settled(a) = Settled(b)
<1>1. PICK p \in Nat, q \in Nat : p = Len(a) \div 2 /\ q = Len(b) \div 2
  BY Halves
<1>2. PICK v \in Nat, w \in Nat : v = Waiting(a) /\ w = Waiting(b)
  BY StateHas
<1>3. SameState(StateOf(a), StateOf(b))
         <=> p = q /\ (\A k \in 1..(2 * p) : a[k] = b[k]) /\ v = w
  <2>1. Pairs(a) = Pairs(b) <=> p = q /\ \A k \in 1..(2 * p) : a[k] = b[k]
    BY <1>1, PairsDetermine
  <2>2. /\ StateOf(a).permuted = Pairs(a) /\ StateOf(a).added = <<v, 0>>
        /\ StateOf(b).permuted = Pairs(b) /\ StateOf(b).added = <<w, 0>>
    BY <1>2, StateHas
  <2>3. <<v, 0>> = <<w, 0>> <=> v = w
    OBVIOUS
  <2> QED BY <2>1, <2>2, <2>3 DEF SameState
<1>4. /\ Settled(a) \in Seq(Nat) /\ Len(Settled(a)) = IF v = 0 THEN 2 * p ELSE 2 * p + 1
      /\ \A k \in 1..(2 * p) : Settled(a)[k] = a[k]
      /\ v # 0 => Settled(a)[2 * p + 1] = v
  BY <1>1, <1>2, SettledHas
<1>5. /\ Settled(b) \in Seq(Nat) /\ Len(Settled(b)) = IF w = 0 THEN 2 * q ELSE 2 * q + 1
      /\ \A k \in 1..(2 * q) : Settled(b)[k] = b[k]
      /\ w # 0 => Settled(b)[2 * q + 1] = w
  BY <1>1, <1>2, SettledHas
<1>6. ASSUME Settled(a) = Settled(b) PROVE p = q /\ (\A k \in 1..(2 * p) : a[k] = b[k]) /\ v = w
  <2>1. p = q /\ (v = 0 <=> w = 0)
    BY <1>4, <1>5, <1>6
  <2> QED BY <1>4, <1>5, <1>6, <2>1
<1>7. ASSUME p = q, \A k \in 1..(2 * p) : a[k] = b[k], v = w PROVE Settled(a) = Settled(b)
  <2>1. Len(Settled(a)) = Len(Settled(b)) /\ Len(Settled(a)) \in Nat
    BY <1>4, <1>5, <1>7
  <2>2. ASSUME NEW k \in 1..Len(Settled(a)) PROVE Settled(a)[k] = Settled(b)[k]
    <3>1. k \in 1..(2 * p) \/ (v # 0 /\ k = 2 * p + 1)
      BY <1>4
    <3> QED BY <1>4, <1>5, <1>7, <3>1
  <2> QED BY <1>4, <1>5, <2>1, <2>2
<1> QED BY <1>3, <1>6, <1>7


-----------------------------------------------------------------------------
(* Sequences absorbed.                                                      *)

(* Elements one by one at the end of a sequence.                            *)
Grow(es, xs, k) == es \o SubSeq(xs, 1, k)

(* Each prefix is the one before and an element.                            *)
LEMMA Grown ==
  ASSUME NEW es \in Seq(Nat), NEW xs \in Seq(Nat)
  PROVE  /\ Grow(es, xs, 0) = es /\ Grow(es, xs, Len(xs)) = es \o xs
         /\ \A k \in 0..(Len(xs) - 1) :
              /\ Grow(es, xs, k) \in Seq(Nat) /\ xs[k + 1] \in Nat
              /\ Grow(es, xs, k + 1) = Append(Grow(es, xs, k), xs[k + 1])
<1>1. SubSeq(xs, 1, 0) = <<>> /\ SubSeq(xs, 1, Len(xs)) = xs
  OBVIOUS
<1>2. ASSUME NEW k \in 0..(Len(xs) - 1)
      PROVE  /\ Grow(es, xs, k) \in Seq(Nat) /\ xs[k + 1] \in Nat
             /\ Grow(es, xs, k + 1) = Append(Grow(es, xs, k), xs[k + 1])
  <2>1. xs[k + 1] \in Nat
    OBVIOUS
  <2>2. SubSeq(xs, 1, k + 1) = Append(SubSeq(xs, 1, k), xs[k + 1]) /\ SubSeq(xs, 1, k) \in Seq(Nat)
    OBVIOUS
  <2> QED BY <2>1, <2>2 DEF Grow
<1>3. Grow(es, xs, 0) = es
  <2>1. es \o <<>> = es
    OBVIOUS
  <2> QED BY <1>1, <2>1 DEF Grow
<1>4. Grow(es, xs, Len(xs)) = es \o xs
  BY <1>1 DEF Grow
<1> QED BY <1>2, <1>3, <1>4

(* Absorbing a sequence appends it.                                         *)
LEMMA AbsorbIs ==
  ASSUME NEW es \in Seq(Nat), NEW xs \in Seq(Nat)
  PROVE  Absorb(StateOf(es), xs) = StateOf(es \o xs)
<1>1. PICK hs : Absorbs(hs, StateOf(es), xs) /\ hs[Len(xs)] = Absorb(StateOf(es), xs)
  BY AbsorbUnfolds
<1>0. /\ Grow(es, xs, 0) = es /\ Grow(es, xs, Len(xs)) = es \o xs
      /\ \A k \in 0..(Len(xs) - 1) :
           /\ Grow(es, xs, k) \in Seq(Nat) /\ xs[k + 1] \in Nat
           /\ Grow(es, xs, k + 1) = Append(Grow(es, xs, k), xs[k + 1])
  BY Grown
<1> DEFINE P(k) == k <= Len(xs) => hs[k] = StateOf(Grow(es, xs, k))
           Q == {k \in Nat : P(k)}
<1>2. 0 \in Q
  <2>1. hs[0] = StateOf(es) /\ Grow(es, xs, 0) = es
    BY <1>1, <1>0 DEF Absorbs
  <2> QED BY <2>1
<1>3. ASSUME NEW k \in Q PROVE k + 1 \in Q
  <2>1. ASSUME k + 1 <= Len(xs) PROVE hs[k + 1] = StateOf(Grow(es, xs, k + 1))
    <3>1. k \in 0..(Len(xs) - 1) /\ k <= Len(xs)
      BY <2>1
    <3>2. PICK e : e = Grow(es, xs, k) /\ e \in Seq(Nat) /\ xs[k + 1] \in Nat
                   /\ Grow(es, xs, k + 1) = Append(e, xs[k + 1])
      BY <1>0, <3>1
    <3>3. hs[k + 1] = AbsorbOne(hs[k], xs[k + 1]) /\ hs[k] = StateOf(e)
      BY <1>1, <3>1, <3>2 DEF Absorbs
    <3> QED BY <3>2, <3>3, AbsorbOneIs
  <2> QED BY <2>1
<1>4. P(Len(xs))
  <2>1. Q \in SUBSET Nat
    OBVIOUS
  <2>2. Q = Nat
    <3> HIDE DEF Q
    <3> QED BY <1>2, <1>3, <2>1, Inductive
  <2>3. Len(xs) \in Nat
    OBVIOUS
  <2> HIDE DEF P
  <2> QED BY <2>2, <2>3
<1> QED BY <1>0, <1>1, <1>4

(* The new sponge stands for no elements.                                   *)
LEMMA NewIs == <<>> \in Seq(Nat) /\ NewSponge = StateOf(<<>>) /\ AsElements(<<>>) = <<>>
<1>1. NewSponge = StateOf(<<>>)
  <2>1. Len(<<>>) % 2 = 0 /\ Pairs(<<>>) = <<>>
    BY DEF Pairs
  <2>2. StateOf(<<>>) = [permuted |-> Pairs(<<>>), added |-> Zeros, rate_idx |-> 0]
    BY <2>1, StateIs
  <2> QED BY <2>1, <2>2 DEF NewSponge
<1>2. AsElements(<<>>) = <<>>
  <2>1. <<>> \in Seq({})
    OBVIOUS
  <2>2. PICK hs : Stands(hs, <<>>) /\ hs[Len(<<>>)] = AsElements(<<>>)
    BY <2>1, ElementsUnfold
  <2> QED BY <2>2 DEF Stands
<1> QED BY <1>1, <1>2

(* The digest of a state after a challenge.                                 *)
LEMMA DigestIs ==
  ASSUME NEW es \in Seq(Nat)
  PROVE  Digest(Squeeze(StateOf(es))) = Pairs(Flushed(es)) /\ Digest(Squeeze(StateOf(es))) # <<>>
<1>1. Digest(Squeeze(StateOf(es))) = Pairs(Flushed(es))
  <2>1. Squeeze(StateOf(es)) = StateOf(Flushed(es)) /\ Flushed(es) \in Seq(Nat)
    BY SqueezeIs, FlushedHas
  <2>2. StateOf(Flushed(es)).permuted = Pairs(Flushed(es))
    BY <2>1, StateHas
  <2> QED BY <2>1, <2>2 DEF Digest
<1>2. /\ Len(es) \div 2 \in Nat /\ Flushed(es) \in Seq(Nat)
      /\ Len(Flushed(es)) = 2 * (Len(es) \div 2) + 2
  BY Halves, FlushedHas
<1>3. Len(Pairs(Flushed(es))) = Len(Flushed(es)) \div 2
  BY <1>2, PairsAre
<1>4. Len(Flushed(es)) \div 2 > 0
  BY <1>2
<1> QED BY <1>1, <1>3, <1>4

(* The digest of a message.                                                 *)
LEMMA FieldIs ==
  ASSUME NEW m \in Seq(Nat)
  PROVE  HashToField(m) = Pairs(Flushed(m))
<1>1. Absorb(NewSponge, m) = StateOf(m)
  <2>1. <<>> \o m = m
    OBVIOUS
  <2> QED BY <2>1, NewIs, AbsorbIs
<1> QED BY <1>1, DigestIs DEF HashToField

(* Which messages share a digest.                                           *)
LEMMA FieldMeets ==
  ASSUME NEW a \in Seq(Nat), NEW b \in Seq(Nat)
  PROVE  HashToField(a) = HashToField(b) <=> EqualUpToZero(a, b)
BY FieldIs, FlushedMeet

(* A sequence without elements.                                             *)
LEMMA EmptyIs ==
  ASSUME NEW m \in Seq(Nat), Len(m) = 0
  PROVE  m = <<>>
OBVIOUS

(* The blocks of Rescue.                                                    *)
LEMMA RescueIs ==
  ASSUME NEW m \in Seq(Nat)
  PROVE  /\ InBlocks(m) \in Seq(Nat) /\ Len(InBlocks(m)) % 2 = 0
         /\ RescueHash(m) = Pairs(InBlocks(m))
<1>1. PICK n \in Nat, q \in Nat : /\ n = Len(m) /\ q = n \div 2 /\ n = 2 * q + (n % 2)
                                  /\ n % 2 \in {0, 1}
  BY Halves
<1> DEFINE Element(k) == IF k <= Len(m) THEN m[k] ELSE 0
           blocks == (Len(m) + 2 - 1) \div 2
<1>2. CASE n = 0
  <2>1. m = <<>> /\ InBlocks(m) = <<0, 0>> /\ RescueHash(m) = <<<<0, 0>>>>
    <3>1. m = <<>>
      BY <1>1, <1>2, EmptyIs
    <3>2. n % 2 # 1
      BY <1>1, <1>2
    <3> QED BY <1>1, <3>1, <3>2 DEF InBlocks, RescueHash, Zeros
  <2>2. <<0, 0>> \in Seq(Nat) /\ Len(<<0, 0>>) = 2 /\ <<0, 0>>[1] = 0 /\ <<0, 0>>[2] = 0
    OBVIOUS
  <2>3. Pairs(<<0, 0>>) = <<<<0, 0>>>>
    BY <2>2 DEF Pairs
  <2>4. Len(<<0, 0>>) % 2 = 0
    BY <2>2
  <2> QED BY <2>1, <2>2, <2>3, <2>4
<1>3. CASE n # 0 /\ n % 2 = 0
  <2>1. m # <<>> /\ InBlocks(m) = m /\ blocks = q
    BY <1>1, <1>3 DEF InBlocks
  <2>2. RescueHash(m) = [b \in 1..blocks |-> <<Element(2 * b - 1), Element(2 * b)>>]
    BY <2>1 DEF RescueHash, Rate
  <2>3. ASSUME NEW b \in 1..q PROVE Element(2 * b - 1) = m[2 * b - 1] /\ Element(2 * b) = m[2 * b]
    BY <1>1, <1>3
  <2> HIDE DEF Element, blocks
  <2>4. RescueHash(m) = [b \in 1..q |-> <<m[2 * b - 1], m[2 * b]>>]
    BY <2>1, <2>2, <2>3
  <2> QED BY <1>1, <1>3, <2>1, <2>4 DEF Pairs
<1>4. CASE n % 2 = 1
  <2>1. m # <<>> /\ InBlocks(m) = Append(m, 0) /\ blocks = q + 1
    BY <1>1, <1>4 DEF InBlocks
  <2>2. RescueHash(m) = [b \in 1..blocks |-> <<Element(2 * b - 1), Element(2 * b)>>]
    BY <2>1 DEF RescueHash, Rate
  <2>3. PICK e : /\ e = Append(m, 0) /\ e \in Seq(Nat) /\ Len(e) = n + 1 /\ e[n + 1] = 0
                 /\ \A k \in 1..n : e[k] = m[k]
    <3>1. 0 \in Nat /\ Len(m) = n
      BY <1>1
    <3>2. /\ Append(m, 0) \in Seq(Nat) /\ Len(Append(m, 0)) = n + 1
          /\ Append(m, 0)[n + 1] = 0 /\ \A k \in 1..n : Append(m, 0)[k] = m[k]
      BY <3>1, AppendIs
    <3> QED BY <3>2
  <2>4. ASSUME NEW k \in 1..(n + 1) PROVE Element(k) = e[k]
    <3>1. k \in 1..n \/ k = n + 1
      OBVIOUS
    <3> QED BY <1>1, <2>3, <3>1
  <2>5. n + 1 = 2 * (q + 1) /\ (n + 1) \div 2 = q + 1 /\ (n + 1) % 2 = 0
    BY <1>1, <1>4
  <2>6. ASSUME NEW b \in 1..(q + 1)
        PROVE  Element(2 * b - 1) = e[2 * b - 1] /\ Element(2 * b) = e[2 * b]
    <3>1. 2 * b - 1 \in 1..(n + 1) /\ 2 * b \in 1..(n + 1)
      BY <2>5
    <3> QED BY <2>4, <3>1
  <2> HIDE DEF Element, blocks
  <2>7. RescueHash(m) = [b \in 1..(q + 1) |-> <<e[2 * b - 1], e[2 * b]>>]
    BY <2>1, <2>2, <2>6
  <2> QED BY <2>1, <2>3, <2>5, <2>7 DEF Pairs
<1> QED BY <1>1, <1>2, <1>3, <1>4

(* Which messages share a digest of Rescue.                                 *)
LEMMA RescueMeets ==
  ASSUME NEW a \in Seq(Nat), NEW b \in Seq(Nat)
  PROVE  RescueHash(a) = RescueHash(b) <=> InBlocks(a) = InBlocks(b)
BY RescueIs, PairsInjective

(* Chunks are absorbed as the elements in a row.                            *)
LEMMA ChunkedIs ==
  ASSUME NEW chunks \in Seq(Seq(Nat)), ~ Refused(chunks)
  PROVE  Joined(chunks) \in Seq(Nat) /\ PoseidonHashChunked(chunks) = HashToField(Joined(chunks))
<1>1. ~ \E k \in DOMAIN chunks : Len(chunks[k]) > Rate
  BY DEF Refused, Rate
<1>2. PICK hs : /\ AbsorbsAll(hs, chunks)
                /\ PoseidonHashChunked(chunks) = Digest(Squeeze(hs[Len(chunks)]))
  BY <1>1, ChunkedUnfolds
<1>3. PICK all : Joins(all, chunks) /\ all[Len(chunks)] = Joined(chunks)
  BY JoinedUnfolds
<1> DEFINE P(k) == k <= Len(chunks) => all[k] \in Seq(Nat) /\ hs[k] = StateOf(all[k])
           Q == {k \in Nat : P(k)}
<1>4. 0 \in Q
  BY <1>2, <1>3, NewIs DEF AbsorbsAll, Joins
<1>5. ASSUME NEW k \in Q PROVE k + 1 \in Q
  <2>1. ASSUME k + 1 <= Len(chunks) PROVE all[k + 1] \in Seq(Nat) /\ hs[k + 1] = StateOf(all[k + 1])
    <3>1. k \in 0..(Len(chunks) - 1) /\ k <= Len(chunks)
      BY <2>1
    <3>2. chunks[k + 1] \in Seq(Nat) /\ all[k] \in Seq(Nat) /\ hs[k] = StateOf(all[k])
      BY <3>1
    <3>3. hs[k + 1] = Absorb(hs[k], chunks[k + 1]) /\ all[k + 1] = all[k] \o chunks[k + 1]
      BY <1>2, <1>3, <3>1 DEF AbsorbsAll, Joins
    <3>4. PICK u, v : u = all[k] /\ v = chunks[k + 1]
      OBVIOUS
    <3>5. u \o v \in Seq(Nat) /\ Absorb(StateOf(u), v) = StateOf(u \o v)
      BY <3>2, <3>4, AbsorbIs
    <3> QED BY <3>2, <3>3, <3>4, <3>5
  <2> QED BY <2>1
<1>6. P(Len(chunks))
  <2>1. Q \in SUBSET Nat
    OBVIOUS
  <2>2. Q = Nat
    <3> HIDE DEF Q
    <3> QED BY <1>4, <1>5, <2>1, Inductive
  <2>3. Len(chunks) \in Nat
    OBVIOUS
  <2> HIDE DEF P
  <2> QED BY <2>2, <2>3
<1>7. Joined(chunks) \in Seq(Nat) /\ hs[Len(chunks)] = StateOf(Joined(chunks))
  BY <1>3, <1>6
<1> QED BY <1>2, <1>7, DigestIs, FieldIs

(* Which chunks share a digest, or are refused alike.                       *)
LEMMA ChunkedMeets ==
  ASSUME NEW a \in Seq(Seq(Nat)), NEW b \in Seq(Seq(Nat))
  PROVE  PoseidonHashChunked(a) = PoseidonHashChunked(b)
           <=> IF Refused(a) \/ Refused(b) THEN Refused(a) /\ Refused(b)
               ELSE EqualUpToZero(Joined(a), Joined(b))
<1>1. ASSUME NEW m \in Seq(Seq(Nat))
      PROVE  /\ Refused(m) => PoseidonHashChunked(m) = <<>>
             /\ ~ Refused(m) => PoseidonHashChunked(m) # <<>>
  <2>1. Refused(m) => PoseidonHashChunked(m) = <<>>
    BY DEF PoseidonHashChunked, Refused, Refusal, Rate
  <2>2. ASSUME ~ Refused(m) PROVE PoseidonHashChunked(m) # <<>>
    <3>1. Joined(m) \in Seq(Nat) /\ PoseidonHashChunked(m) = HashToField(Joined(m))
      BY <2>2, ChunkedIs
    <3> QED BY <3>1, FieldIs, DigestIs
  <2> QED BY <2>1, <2>2
<1>2. ASSUME ~ Refused(a), ~ Refused(b)
      PROVE  PoseidonHashChunked(a) = PoseidonHashChunked(b) <=> EqualUpToZero(Joined(a), Joined(b))
  BY <1>2, ChunkedIs, FieldMeets
<1> QED BY <1>1, <1>2

-----------------------------------------------------------------------------
(* Sequences joined.                                                        *)

(* Elements of one sequence after another.                                  *)
LEMMA ConcatIs ==
  ASSUME NEW S, NEW a \in Seq(S), NEW b \in Seq(S)
  PROVE  /\ a \o b \in Seq(S) /\ Len(a \o b) = Len(a) + Len(b)
         /\ \A k \in 1..Len(a) : (a \o b)[k] = a[k]
         /\ \A k \in 1..Len(b) : (a \o b)[Len(a) + k] = b[k]
OBVIOUS

(* The same, of integers.                                                   *)
LEMMA ConcatInts ==
  ASSUME NEW a \in Seq(Int), NEW b \in Seq(Int)
  PROVE  /\ a \o b \in Seq(Int) /\ Len(a \o b) = Len(a) + Len(b)
         /\ \A k \in 1..Len(a) : (a \o b)[k] = a[k]
         /\ \A k \in 1..Len(b) : (a \o b)[Len(a) + k] = b[k]
BY ConcatIs

(* The same, of sequences.                                                  *)
LEMMA ConcatSeqs ==
  ASSUME NEW a \in Seq(Seq(Int)), NEW b \in Seq(Seq(Int))
  PROVE  /\ a \o b \in Seq(Seq(Int)) /\ Len(a \o b) = Len(a) + Len(b)
         /\ \A k \in 1..Len(a) : (a \o b)[k] = a[k]
         /\ \A k \in 1..Len(b) : (a \o b)[Len(a) + k] = b[k]
BY ConcatIs

(* Elements of a sequence with one more.                                    *)
LEMMA AppendOf ==
  ASSUME NEW S, NEW a \in Seq(S), NEW c \in S
  PROVE  /\ Append(a, c) \in Seq(S) /\ Len(Append(a, c)) = Len(a) + 1
         /\ \A k \in 1..Len(a) : Append(a, c)[k] = a[k]
         /\ Append(a, c)[Len(a) + 1] = c
OBVIOUS

(* What is joined is a sequence, and only grows.                            *)
LEMMA JoinsGrow ==
  ASSUME NEW cs \in Seq(Seq(Int)), NEW hs, Joins(hs, cs)
  PROVE  \A k \in 0..Len(cs) :
           /\ hs[k] \in Seq(Int) /\ hs[Len(cs)] \in Seq(Int) /\ Len(hs[k]) <= Len(hs[Len(cs)])
           /\ \A pos \in 1..Len(hs[k]) : hs[Len(cs)][pos] = hs[k][pos]
<1>1. PICK n \in Nat : n = Len(cs)
  OBVIOUS
<1>2. hs[0] = <<>> /\ \A k \in 0..(n - 1) : hs[k + 1] = hs[k] \o cs[k + 1]
  BY <1>1 DEF Joins
<1>3. \A k \in 0..(n - 1) : cs[k + 1] \in Seq(Int)
  BY <1>1
<1> DEFINE P(k) == k <= n => hs[k] \in Seq(Int)
           Q == {k \in Nat : P(k)}
<1>4. \A k \in Nat : P(k)
  <2>1. 0 \in Q
    <3>1. <<>> \in Seq(Int)
      OBVIOUS
    <3> QED BY <1>2, <3>1
  <2>2. ASSUME NEW k \in Q PROVE k + 1 \in Q
    <3>1. ASSUME k + 1 <= n PROVE hs[k + 1] \in Seq(Int)
      <4>1. k \in 0..(n - 1) /\ k <= n
        BY <3>1
      <4>2. hs[k] \in Seq(Int) /\ cs[k + 1] \in Seq(Int) /\ hs[k + 1] = hs[k] \o cs[k + 1]
        BY <1>2, <1>3, <4>1
      <4> QED BY <4>2
    <3> QED BY <3>1
  <2>3. Q \in SUBSET Nat
    OBVIOUS
  <2>4. Q = Nat
    <3> HIDE DEF Q
    <3> QED BY <2>1, <2>2, <2>3, Inductive
  <2> HIDE DEF P
  <2> QED BY <2>4
<1>5. \A k \in 0..n : hs[k] \in Seq(Int)
  BY <1>4
<1> HIDE DEF P, Q
<1>6. ASSUME NEW k \in 0..n
      PROVE  Len(hs[k]) <= Len(hs[n]) /\ \A pos \in 1..Len(hs[k]) : hs[n][pos] = hs[k][pos]
  <2> DEFINE R(m) == k + m <= n => /\ Len(hs[k]) <= Len(hs[k + m])
                                   /\ \A pos \in 1..Len(hs[k]) : hs[k + m][pos] = hs[k][pos]
             V == {m \in Nat : R(m)}
  <2>1. 0 \in V
    BY <1>5
  <2>2. ASSUME NEW m \in V PROVE m + 1 \in V
    <3>1. ASSUME k + (m + 1) <= n
          PROVE  /\ Len(hs[k]) <= Len(hs[k + (m + 1)])
                 /\ \A pos \in 1..Len(hs[k]) : hs[k + (m + 1)][pos] = hs[k][pos]
      <4>1. PICK all \in 0..(n - 1) : all = k + m /\ all + 1 = k + (m + 1) /\ all <= n
        BY <3>1
      <4>2. PICK u, v, w : u = hs[k] /\ v = hs[all] /\ w = cs[all + 1]
        OBVIOUS
      <4>3. u \in Seq(Int) /\ v \in Seq(Int) /\ w \in Seq(Int) /\ hs[all + 1] = v \o w
        <5>1. k \in 0..n /\ all \in 0..n
          OBVIOUS
        <5>2. u \in Seq(Int) /\ v \in Seq(Int)
          BY <1>5, <4>2, <5>1
        <5>3. w \in Seq(Int)
          BY <1>3, <4>2
        <5>4. hs[all + 1] = v \o w
          BY <1>2, <4>2
        <5> QED BY <5>2, <5>3, <5>4
      <4>4. Len(u) <= Len(v) /\ \A pos \in 1..Len(u) : v[pos] = u[pos]
        BY <4>1, <4>2
      <4>5. Len(v \o w) = Len(v) + Len(w) /\ \A pos \in 1..Len(v) : (v \o w)[pos] = v[pos]
        BY <4>3
      <4>6. Len(u) <= Len(v \o w) /\ \A pos \in 1..Len(u) : (v \o w)[pos] = u[pos]
        <5>1. Len(u) \in Nat /\ Len(v) \in Nat /\ Len(w) \in Nat
          BY <4>3
        <5> QED BY <4>4, <4>5, <5>1
      <4> QED BY <4>1, <4>2, <4>3, <4>6
    <3> QED BY <3>1
  <2>3. V \in SUBSET Nat
    OBVIOUS
  <2>4. V = Nat
    <3> HIDE DEF V
    <3> QED BY <2>1, <2>2, <2>3, Inductive
  <2>5. n - k \in Nat /\ k + (n - k) = n
    OBVIOUS
  <2>6. R(n - k)
    <3> HIDE DEF R
    <3> QED BY <2>4, <2>5
  <2> QED BY <2>5, <2>6
<1> QED BY <1>1, <1>5, <1>6

(* What joins equal sequences is equal.                                     *)
Agree(cs, ds, n) ==
    /\ n \in Nat /\ Len(cs) \in Nat /\ Len(ds) \in Nat /\ n <= Len(cs) /\ n <= Len(ds)
    /\ \A k \in 1..n : cs[k] = ds[k]

(* Sequences that agree up to n are joined alike up to n.                   *)
LEMMA JoinsAgree ==
  ASSUME NEW cs, NEW ds, NEW n, NEW hs, NEW gs,
         Agree(cs, ds, n), Joins(hs, cs), Joins(gs, ds)
  PROVE  \A k \in 0..n : hs[k] = gs[k]
<1>0. n \in Nat
  BY DEF Agree
<1>1. /\ hs[0] = gs[0]
      /\ \A k \in 0..(n - 1) : hs[k + 1] = hs[k] \o cs[k + 1] /\ gs[k + 1] = gs[k] \o cs[k + 1]
  <2>1. \A k \in 0..(n - 1) : k \in 0..(Len(cs) - 1) /\ k \in 0..(Len(ds) - 1) /\ k + 1 \in 1..n
    BY <1>0 DEF Agree
  <2> QED BY <2>1 DEF Joins, Agree
<1> DEFINE Q == {k \in Nat : k <= n => hs[k] = gs[k]}
<1>2. 0 \in Q
  BY <1>0, <1>1
<1>3. ASSUME NEW k \in Q PROVE k + 1 \in Q
  <2>1. ASSUME k + 1 <= n PROVE hs[k + 1] = gs[k + 1]
    <3>1. k \in 0..(n - 1) /\ k <= n
      BY <1>0, <2>1
    <3> QED BY <1>1, <3>1
  <2> QED BY <2>1
<1>4. Q \in SUBSET Nat
  OBVIOUS
<1>5. Q = Nat
  <2> HIDE DEF Q
  <2> QED BY <1>2, <1>3, <1>4, Inductive
<1> QED BY <1>0, <1>5

(* What is joined is a sequence.                                            *)
LEMMA JoinedType ==
  ASSUME NEW cs \in Seq(Seq(Int))
  PROVE  Joined(cs) \in Seq(Int)
<1>1. PICK hs : Joins(hs, cs) /\ hs[Len(cs)] = Joined(cs)
  BY JoinedUnfolds
<1>2. Len(cs) \in 0..Len(cs)
  OBVIOUS
<1> QED BY <1>1, <1>2, JoinsGrow

(* Joining one more.                                                        *)
LEMMA JoinedAppend ==
  ASSUME NEW cs \in Seq(Seq(Int)), NEW c \in Seq(Int)
  PROVE  Joined(Append(cs, c)) = Joined(cs) \o c
<1>1. PICK n \in Nat : n = Len(cs)
  OBVIOUS
<1>2. PICK ds : /\ ds = Append(cs, c) /\ ds \in Seq(Seq(Int)) /\ Len(ds) = n + 1
                /\ ds[n + 1] = c /\ \A k \in 1..n : ds[k] = cs[k]
  <2>1. /\ Append(cs, c) \in Seq(Seq(Int)) /\ Len(Append(cs, c)) = n + 1
        /\ Append(cs, c)[n + 1] = c /\ \A k \in 1..n : Append(cs, c)[k] = cs[k]
    BY <1>1, AppendOf
  <2> QED BY <2>1
<1>3. PICK hs : Joins(hs, cs) /\ hs[n] = Joined(cs)
  BY <1>1, JoinedUnfolds
<1>4. PICK gs : Joins(gs, ds) /\ gs[n + 1] = Joined(ds)
  BY <1>2, JoinedUnfolds
<1>5. \A k \in 0..n : hs[k] = gs[k]
  <2>1. Agree(cs, ds, n)
    BY <1>1, <1>2 DEF Agree
  <2>2. Joins(hs, cs) /\ Joins(gs, ds)
    BY <1>3, <1>4
  <2>3. \A k \in 0..n : hs[k] = gs[k]
    BY <2>1, <2>2, JoinsAgree
  <2> QED BY <2>3
<1>6. gs[n + 1] = gs[n] \o ds[n + 1] /\ n \in 0..n
  <2>1. n \in 0..(Len(ds) - 1) /\ n \in 0..n
    BY <1>1, <1>2
  <2> QED BY <1>4, <2>1 DEF Joins
<1> QED BY <1>2, <1>3, <1>4, <1>5, <1>6

(* Joining a sequence and then another.                                     *)
LEMMA JoinedConcat ==
  ASSUME NEW a \in Seq(Seq(Int)), NEW b \in Seq(Seq(Int))
  PROVE  Joined(a \o b) = Joined(a) \o Joined(b)
<1>1. PICK m \in Nat, n \in Nat : m = Len(a) /\ n = Len(b)
  OBVIOUS
<1>2. PICK ab : /\ ab = a \o b /\ ab \in Seq(Seq(Int)) /\ Len(ab) = m + n
                /\ (\A k \in 1..m : ab[k] = a[k]) /\ \A k \in 1..n : ab[m + k] = b[k]
  <2>1. /\ a \o b \in Seq(Seq(Int)) /\ Len(a \o b) = m + n
        /\ (\A k \in 1..m : (a \o b)[k] = a[k]) /\ \A k \in 1..n : (a \o b)[m + k] = b[k]
    BY <1>1, ConcatIs
  <2> QED BY <2>1
<1>3. PICK hs : Joins(hs, ab) /\ hs[m + n] = Joined(ab)
  BY <1>2, JoinedUnfolds
<1>4. PICK f : Joins(f, a) /\ f[m] = Joined(a)
  BY <1>1, JoinedUnfolds
<1>5. PICK gs : Joins(gs, b) /\ gs[n] = Joined(b)
  BY <1>1, JoinedUnfolds
<1>6. hs[m] = Joined(a)
  <2>1. Agree(ab, a, m)
    BY <1>1, <1>2 DEF Agree
  <2>2. Joins(hs, ab) /\ Joins(f, a)
    BY <1>3, <1>4
  <2>3. \A k \in 0..m : hs[k] = f[k]
    BY <2>1, <2>2, JoinsAgree
  <2> QED BY <1>1, <1>4, <2>3
<1>7. Joined(a) \in Seq(Int)
  BY JoinedType
<1>8. \A k \in 0..n : gs[k] \in Seq(Int)
  BY <1>1, <1>5, JoinsGrow
<1> DEFINE Q == {k \in Nat : k <= n => hs[m + k] = Joined(a) \o gs[k]}
<1>9. 0 \in Q
  <2>1. gs[0] = <<>>
    BY <1>5 DEF Joins
  <2>2. Joined(a) \o <<>> = Joined(a)
    BY <1>7
  <2>3. 0 <= n => hs[m + 0] = Joined(a) \o gs[0]
    BY <1>6, <2>1, <2>2
  <2> QED BY <2>3
<1>10. ASSUME NEW k \in Q PROVE k + 1 \in Q
  <2>1. ASSUME k + 1 <= n PROVE hs[m + (k + 1)] = Joined(a) \o gs[k + 1]
    <3>1. k \in 0..(n - 1) /\ k <= n /\ k \in 0..n /\ k + 1 \in 1..n /\ m + k \in 0..((m + n) - 1)
      BY <2>1
    <3>2. hs[(m + k) + 1] = hs[m + k] \o ab[(m + k) + 1]
      BY <1>2, <1>3, <3>1 DEF Joins
    <3>3. gs[k + 1] = gs[k] \o b[k + 1]
      BY <1>1, <1>5, <3>1 DEF Joins
    <3>4. (m + k) + 1 = m + (k + 1) /\ ab[m + (k + 1)] = b[k + 1]
      <4>1. (m + k) + 1 = m + (k + 1)
        OBVIOUS
      <4>2. ab[m + (k + 1)] = b[k + 1]
        BY <1>2, <3>1
      <4> QED BY <4>1, <4>2
    <3>5. PICK u, v, w : u = Joined(a) /\ v = gs[k] /\ w = b[k + 1]
      OBVIOUS
    <3>6. u \in Seq(Int) /\ v \in Seq(Int) /\ w \in Seq(Int)
      BY <1>1, <1>7, <1>8, <3>1, <3>5
    <3>7. (u \o v) \o w = u \o (v \o w)
      BY <3>6
    <3>8. hs[m + k] = u \o v
      BY <3>1, <3>5
    <3> QED BY <3>2, <3>3, <3>4, <3>5, <3>7, <3>8
  <2> QED BY <2>1
<1>11. Q \in SUBSET Nat
  OBVIOUS
<1>12. Q = Nat
  <2> HIDE DEF Q
  <2> QED BY <1>9, <1>10, <1>11, Inductive
<1>13. hs[m + n] = Joined(a) \o gs[n]
  <2>1. n \in Q
    BY <1>12
  <2> QED BY <2>1
<1> QED BY <1>2, <1>3, <1>5, <1>13

-----------------------------------------------------------------------------
(* Bytes in chunks.                                                         *)

Filling(bytes) == bytes \o [z \in 1..((-Len(bytes)) % Chunk) |-> 0]
StarkWords == [1..Chunk -> ByteValues] \cup {SQUEEZE}

(* What the assumption says of chunks.                                      *)
LEMMA ChunkType ==
  /\ Chunk \in Nat /\ Chunk > 0 /\ 0 \in ByteValues
  /\ \A v \in ByteValues : v \in Nat
  /\ \A c \in [1..Chunk -> ByteValues] : Residue(c) \in Nat
BY SpongeAssumption

(* A word has a first element, and is told by as many as it has.            *)
LEMMA WordIs ==
  ASSUME NEW w \in StarkWords
  PROVE  /\ w \in Seq(Int) /\ Len(w) > 0 /\ w # <<>>
         /\ w[1] = -1 => w = SQUEEZE
         /\ w[1] # -1 => w \in [1..Chunk -> ByteValues] /\ Len(w) = Chunk
<1>1. CASE w = SQUEEZE
  BY <1>1 DEF SQUEEZE
<1>2. CASE w \in [1..Chunk -> ByteValues]
  <2>1. \A k \in 1..Chunk : w[k] \in Int /\ w[k] \in Nat
    BY <1>2, ChunkType
  <2>2. w \in [1..Chunk -> Int]
    BY <1>2, <2>1
  <2>3. w \in Seq(Int) /\ Len(w) = Chunk
    BY <2>2, ChunkType
  <2>4. w[1] \in Nat
    BY <2>1, ChunkType
  <2> QED BY <1>2, <2>3, <2>4, ChunkType
<1> QED BY <1>1, <1>2 DEF StarkWords

(* How many chunks there are, and how many zeros fill the last one.         *)
LEMMA ChunkCount ==
  ASSUME NEW l \in Nat
  PROVE  /\ (l + Chunk - 1) \div Chunk \in Nat /\ (-l) % Chunk \in Nat
         /\ ((l + Chunk - 1) \div Chunk) * Chunk = l + ((-l) % Chunk)
<1>1. PICK n, s : n = (l + Chunk - 1) \div Chunk /\ s = (l + Chunk - 1) % Chunk
  OBVIOUS
<1>2. l + Chunk - 1 \in Nat
  BY ChunkType
<1>3. l + Chunk - 1 = Chunk * n + s /\ n \in Int /\ s \in 0..(Chunk - 1)
  BY <1>1, <1>2, ChunkType, DivMod
<1>4. n \in Nat
  <2>1. n < 0 => Chunk * n <= -Chunk
    BY <1>3, ChunkType, Z3
  <2>2. Chunk * n \in Int
    BY <1>3, ChunkType
  <2> QED BY <1>3, <2>1, <2>2, ChunkType
<1>5. (-l) % Chunk = Chunk - 1 - s
  <2>1. -l = Chunk * (-n) + (Chunk - 1 - s)
    <3>1. Chunk * (-n) = -(Chunk * n)
      BY <1>3, ChunkType, Z3
    <3>2. Chunk * n \in Int
      BY <1>3, ChunkType
    <3> QED BY <1>3, <3>1, <3>2, ChunkType
  <2>2. PICK r, d, v : r = Chunk - 1 - s /\ d = -n /\ v = -l
    OBVIOUS
  <2>3. r \in 0..(Chunk - 1) /\ d \in Int /\ v \in Int /\ v = Chunk * d + r
    BY <1>3, <2>1, <2>2, ChunkType
  <2>4. v % Chunk = r
    BY <2>3, ChunkType, DivModIs
  <2> QED BY <2>2, <2>4
<1>6. n * Chunk = l + (Chunk - 1 - s)
  <2>1. n * Chunk = Chunk * n
    BY <1>3, ChunkType, Z3
  <2> QED BY <1>3, <2>1, ChunkType
<1> QED BY <1>1, <1>3, <1>4, <1>5, <1>6, ChunkType

(* The chunks, and the bytes in them in a row.                              *)
LEMMA ChunksAre ==
  ASSUME NEW bytes \in Seq(ByteValues)
  PROVE  /\ FilledChunks(bytes) \in Seq([1..Chunk -> ByteValues])
         /\ FilledChunks(bytes) \in Seq(Seq(Int))
         /\ Filling(bytes) \in Seq(Int) /\ Joined(FilledChunks(bytes)) = Filling(bytes)
<1> DEFINE ByteAt(place) == IF place <= Len(bytes) THEN bytes[place] ELSE 0
           Row(m) == [place \in 1..m |-> ByteAt(place)]
           Block(c) == [k \in 1..Chunk |-> ByteAt((c - 1) * Chunk + k)]
<1>1. PICK n \in Nat, z \in Nat : /\ n = (Len(bytes) + Chunk - 1) \div Chunk
                                  /\ z = (-Len(bytes)) % Chunk /\ n * Chunk = Len(bytes) + z
  BY ChunkCount
<1>2. FilledChunks(bytes) = [c \in 1..n |-> Block(c)]
  BY <1>1 DEF FilledChunks
<1>3. \A place \in Nat \ {0} : ByteAt(place) \in ByteValues
  BY ChunkType
<1>4. \A c \in 1..n, k \in 1..Chunk : (c - 1) * Chunk + k \in Nat \ {0}
  <2>1. ASSUME NEW c \in 1..n, NEW k \in 1..Chunk PROVE (c - 1) * Chunk + k \in Nat \ {0}
    <3>1. (c - 1) * Chunk \in Nat
      BY ChunkType
    <3> QED BY <3>1
  <2> QED BY <2>1
<1> HIDE DEF ByteAt
<1>5. \A c \in 1..n : Block(c) \in [1..Chunk -> ByteValues]
  BY <1>3, <1>4
<1>6. \A c \in 1..n : Block(c) \in Seq(Int) /\ Len(Block(c)) = Chunk
  <2>1. ASSUME NEW c \in 1..n PROVE Block(c) \in Seq(Int) /\ Len(Block(c)) = Chunk
    <3>1. Block(c) \in [1..Chunk -> Int]
      <4>1. Block(c) \in [1..Chunk -> ByteValues]
        BY <1>5
      <4> HIDE DEF Block
      <4>2. \A k \in 1..Chunk : Block(c)[k] \in Int
        BY <4>1, ChunkType
      <4> QED BY <4>1, <4>2
    <3> HIDE DEF Block
    <3> QED BY <3>1, ChunkType
  <2> QED BY <2>1
<1>7. PICK cs : /\ cs = FilledChunks(bytes) /\ cs \in Seq([1..Chunk -> ByteValues])
                /\ cs \in Seq(Seq(Int)) /\ Len(cs) = n /\ \A c \in 1..n : cs[c] = Block(c)
  <2> HIDE DEF Block
  <2>1. [c \in 1..n |-> Block(c)] \in Seq([1..Chunk -> ByteValues])
    BY <1>5
  <2>2. [c \in 1..n |-> Block(c)] \in Seq(Seq(Int)) /\ Len([c \in 1..n |-> Block(c)]) = n
    BY <1>6
  <2> QED BY <1>2, <2>1, <2>2
<1>8. \A m \in Nat : /\ Row(m) \in Seq(Int) /\ Len(Row(m)) = m
                     /\ \A place \in 1..m : Row(m)[place] = ByteAt(place)
  <2>1. ASSUME NEW m \in Nat PROVE Row(m) \in Seq(Int) /\ Len(Row(m)) = m
    <3>1. \A place \in 1..m : ByteAt(place) \in Int
      BY <1>3, ChunkType
    <3> QED BY <3>1
  <2> QED BY <2>1
<1>9. ASSUME NEW c \in 1..n PROVE Row((c - 1) * Chunk) \o Block(c) = Row(c * Chunk)
  <2>1. PICK m \in Nat, p \in Nat : m = (c - 1) * Chunk /\ p = c * Chunk /\ p = m + Chunk
    <3>1. (c - 1) * Chunk \in Nat /\ c * Chunk \in Nat
      BY ChunkType
    <3>2. c * Chunk = (c - 1) * Chunk + Chunk
      BY ChunkType, Z3
    <3> QED BY <3>1, <3>2
  <2>2. PICK u : /\ u = Block(c) /\ u \in Seq(Int) /\ Len(u) = Chunk
                 /\ \A k \in 1..Chunk : u[k] = ByteAt(m + k)
    <3>1. \A k \in 1..Chunk : Block(c)[k] = ByteAt(m + k)
      BY <2>1
    <3> HIDE DEF Block
    <3> QED BY <1>6, <3>1
  <2>3. PICK v : v = Row(m) /\ v \in Seq(Int) /\ Len(v) = m /\ \A k \in 1..m : v[k] = ByteAt(k)
    <3> HIDE DEF Row
    <3> QED BY <1>8
  <2>4. PICK w : w = Row(p) /\ w \in Seq(Int) /\ Len(w) = p /\ \A k \in 1..p : w[k] = ByteAt(k)
    <3> HIDE DEF Row
    <3> QED BY <1>8
  <2>5. v \o u = w
    <3>1. /\ v \o u \in Seq(Int) /\ Len(v \o u) = m + Chunk
          /\ \A k \in 1..m : (v \o u)[k] = v[k]
          /\ \A k \in 1..Chunk : (v \o u)[m + k] = u[k]
      <4>1. /\ v \o u \in Seq(Int) /\ Len(v \o u) = Len(v) + Len(u)
            /\ \A k \in 1..Len(v) : (v \o u)[k] = v[k]
            /\ \A k \in 1..Len(u) : (v \o u)[Len(v) + k] = u[k]
        BY <2>2, <2>3, ConcatInts
      <4> QED BY <2>2, <2>3, <4>1
    <3>2. ASSUME NEW k \in 1..p PROVE (v \o u)[k] = w[k]
      <4>1. CASE k <= m
        BY <2>3, <2>4, <3>1, <4>1
      <4>2. CASE k > m
        <5>1. k - m \in 1..Chunk /\ m + (k - m) = k
          BY <2>1, <4>2, ChunkType
        <5>2. (v \o u)[m + (k - m)] = u[k - m] /\ u[k - m] = ByteAt(m + (k - m))
          BY <2>2, <3>1, <5>1
        <5> QED BY <2>4, <5>1, <5>2
      <4>3. k <= m \/ k > m
        OBVIOUS
      <4> QED BY <4>1, <4>2, <4>3
    <3> QED BY <2>1, <2>4, <3>1, <3>2, SameElements
  <2> QED BY <2>1, <2>2, <2>3, <2>4, <2>5
<1>10. Row(0) = <<>>
  OBVIOUS
<1> HIDE DEF Row, Block
<1>11. PICK hs : Joins(hs, cs) /\ hs[n] = Joined(cs)
  BY <1>7, JoinedUnfolds
<1> DEFINE Q == {c \in Nat : c <= n => hs[c] = Row(c * Chunk)}
<1>12. 0 \in Q
  <2>1. hs[0] = <<>> /\ 0 * Chunk = 0
    BY <1>11, ChunkType DEF Joins
  <2> QED BY <1>10, <2>1
<1>13. ASSUME NEW c \in Q PROVE c + 1 \in Q
  <2>1. ASSUME c + 1 <= n PROVE hs[c + 1] = Row((c + 1) * Chunk)
    <3>1. c \in 0..(n - 1) /\ c <= n /\ c + 1 \in 1..n /\ (c + 1) - 1 = c
      BY <2>1
    <3>2. hs[c + 1] = hs[c] \o cs[c + 1]
      BY <1>7, <1>11, <3>1 DEF Joins
    <3>3. hs[c] = Row(c * Chunk) /\ cs[c + 1] = Block(c + 1)
      BY <1>7, <3>1
    <3>4. Row(((c + 1) - 1) * Chunk) \o Block(c + 1) = Row((c + 1) * Chunk)
      BY <1>9, <3>1
    <3> QED BY <3>1, <3>2, <3>3, <3>4
  <2> QED BY <2>1
<1>14. Joined(cs) = Row(n * Chunk)
  <2>1. Q \in SUBSET Nat
    OBVIOUS
  <2>2. Q = Nat
    <3> HIDE DEF Q
    <3> QED BY <1>12, <1>13, <2>1, Inductive
  <2>3. n \in Q
    BY <2>2
  <2> QED BY <1>11, <2>3
<1>15. Filling(bytes) \in Seq(Int) /\ Row(n * Chunk) = Filling(bytes)
  <2>1. PICK l \in Nat : l = Len(bytes)
    OBVIOUS
  <2>2. PICK d : d = [k \in 1..z |-> 0] /\ d \in Seq(Int) /\ Len(d) = z /\ \A k \in 1..z : d[k] = 0
    <3>1. [k \in 1..z |-> 0] \in Seq(Int) /\ Len([k \in 1..z |-> 0]) = z
      BY <1>1
    <3>2. \A k \in 1..z : [pos \in 1..z |-> 0][k] = 0
      OBVIOUS
    <3> QED BY <3>1, <3>2
  <2>3. bytes \in Seq(Int)
    <3>1. bytes \in [1..l -> Int]
      BY <2>1, ChunkType
    <3> QED BY <3>1
  <2>4. /\ bytes \o d \in Seq(Int) /\ Len(bytes \o d) = l + z
        /\ \A k \in 1..l : (bytes \o d)[k] = bytes[k]
        /\ \A k \in 1..z : (bytes \o d)[l + k] = d[k]
    BY <2>1, <2>2, <2>3, ConcatInts
  <2>5. PICK w : /\ w = Row(l + z) /\ w \in Seq(Int) /\ Len(w) = l + z
                 /\ \A k \in 1..(l + z) : w[k] = ByteAt(k)
    BY <1>8
  <2>6. ASSUME NEW k \in 1..(l + z) PROVE w[k] = (bytes \o d)[k]
    <3>1. CASE k <= l
      BY <2>1, <2>4, <2>5, <3>1 DEF ByteAt
    <3>2. CASE k > l
      <4>1. k - l \in 1..z /\ l + (k - l) = k
        BY <3>2
      <4>2. (bytes \o d)[l + (k - l)] = 0
        BY <2>2, <2>4, <4>1
      <4>3. w[k] = 0
        BY <2>1, <2>5, <3>2 DEF ByteAt
      <4> QED BY <4>1, <4>2, <4>3
    <3>3. k <= l \/ k > l
      OBVIOUS
    <3> QED BY <3>1, <3>2, <3>3
  <2>7. w = bytes \o d
    BY <2>4, <2>5, <2>6, SameElements
  <2> QED BY <1>1, <2>1, <2>2, <2>4, <2>5, <2>7 DEF Filling
<1> QED BY <1>7, <1>14, <1>15

(* The elements of a byte string.                                           *)
LEMMA FqMeets ==
  ASSUME NEW a \in Seq(ByteValues), NEW b \in Seq(ByteValues)
  PROVE  HashToFq(a) = HashToFq(b)
           <=> EqualUpToZero(IF a = <<>> THEN <<0>> ELSE Chunks(a),
                             IF b = <<>> THEN <<0>> ELSE Chunks(b))
<1>1. ASSUME NEW m \in Seq(ByteValues) PROVE (IF m = <<>> THEN <<0>> ELSE Chunks(m)) \in Seq(Nat)
  <2>1. PICK cs : cs = FilledChunks(m) /\ cs \in Seq([1..Chunk -> ByteValues])
    BY ChunksAre
  <2>2. Chunks(m) = [c \in 1..Len(cs) |-> Residue(cs[c])]
    <3>1. DOMAIN cs = 1..Len(cs)
      BY <2>1
    <3> QED BY <2>1, <3>1 DEF Chunks
  <2>3. \A c \in 1..Len(cs) : Residue(cs[c]) \in Nat
    <3>1. \A c \in 1..Len(cs) : cs[c] \in [1..Chunk -> ByteValues]
      BY <2>1
    <3> QED BY <3>1, ChunkType
  <2>4. Len(cs) \in Nat
    BY <2>1
  <2>5. Chunks(m) \in Seq(Nat)
    BY <2>2, <2>3, <2>4
  <2> QED BY <2>5
<1>2. PICK x \in Seq(Nat), y \in Seq(Nat) : x = (IF a = <<>> THEN <<0>> ELSE Chunks(a))
                                            /\ y = (IF b = <<>> THEN <<0>> ELSE Chunks(b))
  BY <1>1
<1> QED BY <1>2, FieldMeets DEF HashToFq

-----------------------------------------------------------------------------
(* The state of the STARK transcript as the bytes and challenges in it.     *)

Cells == [1..Chunk -> ByteValues] \cup {<<>>}
Token(cell) == IF cell = <<>> THEN SQUEEZE ELSE cell
Tokens(state) == [k \in 1..Len(state) |-> Token(state[k])]

(* A cell is told by its token.                                             *)
LEMMA TokenIs ==
  /\ \A c \in Cells : Token(c) \in StarkWords
  /\ \A c \in [1..Chunk -> ByteValues] : c \in Cells /\ c \in StarkWords /\ Token(c) = c
  /\ \A c, d \in Cells : Token(c) = Token(d) => c = d
<1>1. \A c \in [1..Chunk -> ByteValues] : c \in StarkWords /\ c # <<>> /\ c # SQUEEZE
  <2>1. ASSUME NEW c \in [1..Chunk -> ByteValues] PROVE c \in StarkWords /\ c # <<>> /\ c # SQUEEZE
    <3>1. c \in StarkWords
      BY DEF StarkWords
    <3>2. c[1] \in Nat
      BY ChunkType
    <3>3. c # SQUEEZE
      BY <3>2 DEF SQUEEZE
    <3> QED BY <3>1, <3>3, WordIs
  <2> QED BY <2>1
<1>2. SQUEEZE \in StarkWords
  BY DEF StarkWords
<1> QED BY <1>1, <1>2 DEF Token, Cells

(* The tokens of a state.                                                   *)
LEMMA TokensAre ==
  ASSUME NEW s \in Seq(Cells)
  PROVE  /\ Tokens(s) \in Seq(StarkWords) /\ Tokens(s) \in Seq(Seq(Int)) /\ Len(Tokens(s)) = Len(s)
         /\ \A k \in 1..Len(s) : Tokens(s)[k] = Token(s[k])
<1>1. Len(s) \in Nat /\ \A k \in 1..Len(s) : s[k] \in Cells
  OBVIOUS
<1>2. \A k \in 1..Len(s) : Token(s[k]) \in StarkWords /\ Token(s[k]) \in Seq(Int)
  BY <1>1, TokenIs, WordIs
<1> QED BY <1>1, <1>2 DEF Tokens

(* A state is told by its tokens.                                           *)
LEMMA TokensInjective ==
  ASSUME NEW a \in Seq(Cells), NEW b \in Seq(Cells), Tokens(a) = Tokens(b)
  PROVE  a = b
<1>1. Len(a) = Len(b) /\ \A k \in 1..Len(a) : Token(a[k]) = Token(b[k])
  BY TokensAre
<1>2. \A k \in 1..Len(a) : a[k] \in Cells /\ b[k] \in Cells
  BY <1>1
<1>3. \A k \in 1..Len(a) : a[k] = b[k]
  BY <1>1, <1>2, TokenIs
<1> QED BY <1>1, <1>3, SameElements

(* StarkWords in a row are told apart: a first element of -1 is a challenge, any *)
(* other begins a whole chunk.                                              *)
LEMMA JoinedInjective ==
  ASSUME NEW a \in Seq(StarkWords), NEW b \in Seq(StarkWords), Joined(a) = Joined(b)
  PROVE  a = b
<1>1. PICK m \in Nat, n \in Nat : m = Len(a) /\ n = Len(b)
  OBVIOUS
<1>2. /\ \A k \in 1..m : a[k] \in StarkWords
      /\ \A k \in 1..n : b[k] \in StarkWords
  BY <1>1
<1>3. a \in Seq(Seq(Int)) /\ b \in Seq(Seq(Int))
  <2>1. /\ \A k \in 1..m : a[k] \in Seq(Int)
        /\ \A k \in 1..n : b[k] \in Seq(Int)
    BY <1>2, WordIs
  <2> QED BY <1>1, <2>1
<1>4. PICK hs : Joins(hs, a) /\ hs[m] = Joined(a)
  BY <1>1, <1>3, JoinedUnfolds
<1>5. PICK gs : Joins(gs, b) /\ gs[n] = Joined(a)
  BY <1>1, <1>3, JoinedUnfolds
<1>6. PICK all : all = Joined(a) /\ all \in Seq(Int)
  BY <1>3, JoinedType
<1>7. \A k \in 0..m : /\ hs[k] \in Seq(Int) /\ Len(hs[k]) <= Len(all)
                      /\ \A pos \in 1..Len(hs[k]) : all[pos] = hs[k][pos]
  BY <1>1, <1>3, <1>4, <1>6, JoinsGrow
<1>8. \A k \in 0..n : /\ gs[k] \in Seq(Int) /\ Len(gs[k]) <= Len(all)
                      /\ \A pos \in 1..Len(gs[k]) : all[pos] = gs[k][pos]
  BY <1>1, <1>3, <1>5, <1>6, JoinsGrow
<1>9. /\ hs[0] = gs[0]
      /\ \A k \in 0..(m - 1) : hs[k + 1] = hs[k] \o a[k + 1]
      /\ \A k \in 0..(n - 1) : gs[k + 1] = gs[k] \o b[k + 1]
  BY <1>1, <1>4, <1>5 DEF Joins
<1>10. ASSUME NEW k \in Nat, k < m
       PROVE  /\ Len(hs[k]) \in Nat /\ Len(a[k + 1]) \in Nat
              /\ Len(hs[k]) + Len(a[k + 1]) <= Len(all)
              /\ \A pos \in 1..Len(a[k + 1]) : all[Len(hs[k]) + pos] = a[k + 1][pos]
  <2>1. k \in 0..m /\ k \in 0..(m - 1) /\ k + 1 \in 0..m /\ k + 1 \in 1..m
    BY <1>1, <1>10
  <2>2. PICK u, w : /\ u = hs[k] /\ w = a[k + 1] /\ u \in Seq(Int) /\ w \in Seq(Int)
                    /\ hs[k + 1] = u \o w
    <3>1. hs[k] \in Seq(Int)
      BY <1>7, <2>1
    <3>2. a[k + 1] \in StarkWords
      BY <1>2, <2>1
    <3>3. a[k + 1] \in Seq(Int)
      BY <3>2, WordIs
    <3>4. hs[k + 1] = hs[k] \o a[k + 1]
      BY <1>9, <2>1
    <3> QED BY <3>1, <3>3, <3>4
  <2>3. Len(u \o w) = Len(u) + Len(w) /\ \A pos \in 1..Len(w) : (u \o w)[Len(u) + pos] = w[pos]
    BY <2>2, ConcatInts
  <2>4. Len(u \o w) <= Len(all) /\ \A pos \in 1..Len(u \o w) : all[pos] = (u \o w)[pos]
    BY <1>7, <2>1, <2>2
  <2>5. Len(u) \in Nat /\ Len(w) \in Nat
    BY <2>2
  <2>6. \A pos \in 1..Len(w) : Len(u) + pos \in 1..Len(u \o w)
    BY <2>3, <2>5
  <2>7. \A pos \in 1..Len(w) : all[Len(u) + pos] = w[pos]
    BY <2>3, <2>4, <2>6
  <2>8. Len(u) + Len(w) <= Len(all)
    BY <2>3, <2>4
  <2> QED BY <2>2, <2>5, <2>7, <2>8
<1>11. ASSUME NEW k \in Nat, k < n
       PROVE  /\ Len(gs[k]) \in Nat /\ Len(b[k + 1]) \in Nat
              /\ Len(gs[k]) + Len(b[k + 1]) <= Len(all)
              /\ \A pos \in 1..Len(b[k + 1]) : all[Len(gs[k]) + pos] = b[k + 1][pos]
  <2>1. k \in 0..n /\ k \in 0..(n - 1) /\ k + 1 \in 0..n /\ k + 1 \in 1..n
    BY <1>1, <1>11
  <2>2. PICK u, w : /\ u = gs[k] /\ w = b[k + 1] /\ u \in Seq(Int) /\ w \in Seq(Int)
                    /\ gs[k + 1] = u \o w
    <3>1. gs[k] \in Seq(Int)
      BY <1>8, <2>1
    <3>2. b[k + 1] \in StarkWords
      BY <1>2, <2>1
    <3>3. b[k + 1] \in Seq(Int)
      BY <3>2, WordIs
    <3>4. gs[k + 1] = gs[k] \o b[k + 1]
      BY <1>9, <2>1
    <3> QED BY <3>1, <3>3, <3>4
  <2>3. Len(u \o w) = Len(u) + Len(w) /\ \A pos \in 1..Len(w) : (u \o w)[Len(u) + pos] = w[pos]
    BY <2>2, ConcatInts
  <2>4. Len(u \o w) <= Len(all) /\ \A pos \in 1..Len(u \o w) : all[pos] = (u \o w)[pos]
    BY <1>8, <2>1, <2>2
  <2>5. Len(u) \in Nat /\ Len(w) \in Nat
    BY <2>2
  <2>6. \A pos \in 1..Len(w) : Len(u) + pos \in 1..Len(u \o w)
    BY <2>3, <2>5
  <2>7. \A pos \in 1..Len(w) : all[Len(u) + pos] = w[pos]
    BY <2>3, <2>4, <2>6
  <2>8. Len(u) + Len(w) <= Len(all)
    BY <2>3, <2>4
  <2> QED BY <2>2, <2>5, <2>7, <2>8
<1>12. ASSUME NEW k \in Nat, k < m, k < n, hs[k] = gs[k] PROVE a[k + 1] = b[k + 1]
  <2>1. PICK v \in StarkWords, w \in StarkWords : v = a[k + 1] /\ w = b[k + 1]
    <3>1. k + 1 \in 1..m /\ k + 1 \in 1..n
      BY <1>1, <1>12
    <3> QED BY <1>2, <3>1
  <2>2. PICK l \in Nat : /\ l = Len(hs[k])
                         /\ \A pos \in 1..Len(v) : all[l + pos] = v[pos]
                         /\ \A pos \in 1..Len(w) : all[l + pos] = w[pos]
    <3>1. /\ Len(hs[k]) \in Nat /\ \A pos \in 1..Len(v) : all[Len(hs[k]) + pos] = v[pos]
      BY <1>10, <1>12, <2>1
    <3>2. \A pos \in 1..Len(w) : all[Len(hs[k]) + pos] = w[pos]
      BY <1>11, <1>12, <2>1
    <3> QED BY <3>1, <3>2
  <2>3. v \in Seq(Int) /\ w \in Seq(Int) /\ Len(v) > 0 /\ Len(w) > 0
    BY <2>1, WordIs
  <2>4. v[1] = w[1]
    <3>1. 1 \in 1..Len(v) /\ 1 \in 1..Len(w)
      BY <2>3
    <3> QED BY <2>2, <3>1
  <2>5. CASE v[1] = -1
    BY <2>1, <2>4, <2>5, WordIs
  <2>6. CASE v[1] # -1
    <3>1. Len(v) = Len(w)
      BY <2>1, <2>4, <2>6, WordIs
    <3>2. \A pos \in 1..Len(v) : v[pos] = w[pos]
      BY <2>2, <3>1
    <3> QED BY <2>1, <2>3, <3>1, <3>2, SameElements
  <2> QED BY <2>5, <2>6
<1> DEFINE Q == {k \in Nat : k <= m /\ k <= n => /\ hs[k] = gs[k]
                                               /\ \A pos \in 1..k : a[pos] = b[pos]}
<1>13. 0 \in Q
  BY <1>9
<1>14. ASSUME NEW k \in Q PROVE k + 1 \in Q
  <2>1. ASSUME k + 1 <= m, k + 1 <= n
        PROVE  hs[k + 1] = gs[k + 1] /\ \A pos \in 1..(k + 1) : a[pos] = b[pos]
    <3>1. /\ k \in Nat /\ k < m /\ k < n /\ k <= m /\ k <= n
          /\ k \in 0..(m - 1) /\ k \in 0..(n - 1)
      BY <1>1, <2>1
    <3>2. hs[k] = gs[k] /\ \A pos \in 1..k : a[pos] = b[pos]
      BY <3>1
    <3>3. a[k + 1] = b[k + 1]
      BY <1>12, <3>1, <3>2
    <3>4. hs[k + 1] = gs[k + 1]
      BY <1>9, <3>1, <3>2, <3>3
    <3>5. \A pos \in 1..(k + 1) : pos \in 1..k \/ pos = k + 1
      BY <3>1
    <3> QED BY <3>2, <3>3, <3>4, <3>5
  <2>2. k + 1 \in Nat
    OBVIOUS
  <2> QED BY <2>1, <2>2
<1>15. Q = Nat
  <2>1. Q \in SUBSET Nat
    OBVIOUS
  <2> HIDE DEF Q
  <2> QED BY <1>13, <1>14, <2>1, Inductive
<1>16. \A k \in Nat : k <= m /\ k <= n => hs[k] = gs[k] /\ \A pos \in 1..k : a[pos] = b[pos]
  BY <1>15
<1> HIDE DEF Q
<1>17. ~ (m < n)
  <2>1. ASSUME m < n PROVE FALSE
    <3>1. gs[m] = all
      BY <1>1, <1>4, <1>6, <1>16, <2>1
    <3>2. Len(gs[m]) + Len(b[m + 1]) <= Len(all) /\ Len(b[m + 1]) \in Nat /\ Len(all) \in Nat
      <4>1. Len(gs[m]) + Len(b[m + 1]) <= Len(all) /\ Len(b[m + 1]) \in Nat
        BY <1>1, <1>11, <2>1
      <4>2. Len(all) \in Nat
        BY <1>6
      <4> QED BY <4>1, <4>2
    <3>3. Len(b[m + 1]) > 0
      <4>1. m + 1 \in 1..n
        BY <1>1, <2>1
      <4> QED BY <1>2, <4>1, WordIs
    <3> QED BY <3>1, <3>2, <3>3
  <2> QED BY <2>1
<1>18. ~ (n < m)
  <2>1. ASSUME n < m PROVE FALSE
    <3>1. hs[n] = all
      BY <1>1, <1>5, <1>6, <1>16, <2>1
    <3>2. Len(hs[n]) + Len(a[n + 1]) <= Len(all) /\ Len(a[n + 1]) \in Nat /\ Len(all) \in Nat
      <4>1. Len(hs[n]) + Len(a[n + 1]) <= Len(all) /\ Len(a[n + 1]) \in Nat
        BY <1>1, <1>10, <2>1
      <4>2. Len(all) \in Nat
        BY <1>6
      <4> QED BY <4>1, <4>2
    <3>3. Len(a[n + 1]) > 0
      <4>1. n + 1 \in 1..m
        BY <1>1, <2>1
      <4> QED BY <1>2, <4>1, WordIs
    <3> QED BY <3>1, <3>2, <3>3
  <2> QED BY <2>1
<1>19. m = n /\ \A pos \in 1..m : a[pos] = b[pos]
  BY <1>1, <1>16, <1>17, <1>18
<1> QED BY <1>1, <1>19, SameElements

(* A call of the STARK transcript on its state.                             *)
LEMMA TokensGrow ==
  ASSUME NEW s \in Seq(Cells), NEW call \in Seq(ByteValues) \cup {SQUEEZE},
         NEW t, t = IF call = SQUEEZE THEN StarkSqueeze(s) ELSE StarkAbsorb(s, call)
  PROVE  /\ t \in Seq(Cells)
        /\ 
        /\ Joined(Tokens(t)) = Joined(Tokens(s)) \o (IF call = SQUEEZE THEN SQUEEZE ELSE Filling(call))
<1>1. PICK n \in Nat : n = Len(s)
  OBVIOUS
<1>2. PICK ts : /\ ts = Tokens(s) /\ ts \in Seq(Seq(Int)) /\ Len(ts) = n
                /\ \A k \in 1..n : ts[k] = Token(s[k])
  BY <1>1, TokensAre
<1>3. CASE call = SQUEEZE
  <2>1. t = Append(s, <<>>) /\ <<>> \in Cells
    BY <1>3 DEF StarkSqueeze, Cells
  <2>2. PICK r : /\ r = Append(s, <<>>) /\ r \in Seq(Cells) /\ Len(r) = n + 1
                 /\ (\A k \in 1..n : r[k] = s[k]) /\ r[n + 1] = <<>>
    BY <1>1, <2>1, AppendOf
  <2>3. SQUEEZE \in Seq(Int)
    BY DEF SQUEEZE
  <2>4. PICK q : /\ q = Append(ts, SQUEEZE) /\ q \in Seq(Seq(Int)) /\ Len(q) = n + 1
                 /\ (\A k \in 1..n : q[k] = ts[k]) /\ q[n + 1] = SQUEEZE
    <3>1. /\ Append(ts, SQUEEZE) \in Seq(Seq(Int)) /\ Len(Append(ts, SQUEEZE)) = n + 1
          /\ /\ (\A k \in 1..n : Append(ts, SQUEEZE)[k] = ts[k])
             /\ Append(ts, SQUEEZE)[n + 1] = SQUEEZE
      BY <1>2, <2>3, AppendOf
    <3> QED BY <3>1
  <2>5. /\ Tokens(r) \in Seq(Seq(Int)) /\ Len(Tokens(r)) = n + 1
        /\ \A k \in 1..(n + 1) : Tokens(r)[k] = Token(r[k])
    BY <2>2, TokensAre
  <2>6. \A k \in 1..(n + 1) : Tokens(r)[k] = q[k]
    <3>1. ASSUME NEW k \in 1..(n + 1) PROVE Token(r[k]) = q[k]
      <4>1. CASE k \in 1..n
        BY <1>2, <2>2, <2>4, <4>1
      <4>2. CASE k = n + 1
        BY <2>2, <2>4, <4>2 DEF Token
      <4> QED BY <4>1, <4>2
    <3> QED BY <2>5, <3>1
  <2>7. Tokens(r) = q
    BY <1>1, <2>4, <2>5, <2>6, SameElements
  <2>8. Joined(q) = Joined(ts) \o SQUEEZE
    BY <1>2, <2>3, <2>4, JoinedAppend
  <2> QED BY <1>2, <1>3, <2>1, <2>2, <2>7, <2>8
<1>4. CASE call # SQUEEZE
  <2>1. PICK cs : /\ cs = FilledChunks(call) /\ cs \in Seq([1..Chunk -> ByteValues])
                  /\ cs \in Seq(Seq(Int)) /\ Joined(cs) = Filling(call)
    BY <1>4, ChunksAre
  <2>2. PICK l \in Nat : l = Len(cs)
    BY <2>1
  <2>3. \A k \in 1..l : cs[k] \in [1..Chunk -> ByteValues]
    BY <2>1, <2>2
  <2>4. cs \in Seq(Cells)
    BY <2>1, <2>2, <2>3, TokenIs
  <2>5. t = s \o cs
    BY <1>4, <2>1 DEF StarkAbsorb
  <2>6. PICK r : /\ r = s \o cs /\ r \in Seq(Cells) /\ Len(r) = n + l
                 /\ (\A k \in 1..n : r[k] = s[k]) /\ \A k \in 1..l : r[n + k] = cs[k]
    <3>1. /\ s \o cs \in Seq(Cells) /\ Len(s \o cs) = n + l
          /\ (\A k \in 1..n : (s \o cs)[k] = s[k]) /\ \A k \in 1..l : (s \o cs)[n + k] = cs[k]
      BY <1>1, <2>2, <2>4, ConcatIs
    <3> QED BY <3>1
  <2>7. PICK q : /\ q = ts \o cs /\ q \in Seq(Seq(Int)) /\ Len(q) = n + l
                 /\ (\A k \in 1..n : q[k] = ts[k]) /\ \A k \in 1..l : q[n + k] = cs[k]
    <3>1. /\ ts \o cs \in Seq(Seq(Int)) /\ Len(ts \o cs) = n + l
          /\ (\A k \in 1..n : (ts \o cs)[k] = ts[k]) /\ \A k \in 1..l : (ts \o cs)[n + k] = cs[k]
      <4>1. /\ ts \o cs \in Seq(Seq(Int)) /\ Len(ts \o cs) = Len(ts) + Len(cs)
            /\ (\A k \in 1..Len(ts) : (ts \o cs)[k] = ts[k])
            /\ \A k \in 1..Len(cs) : (ts \o cs)[Len(ts) + k] = cs[k]
        BY <1>2, <2>1, ConcatSeqs
      <4> QED BY <1>2, <2>2, <4>1
    <3> QED BY <3>1
  <2>8. /\ Tokens(r) \in Seq(Seq(Int)) /\ Len(Tokens(r)) = n + l
        /\ \A k \in 1..(n + l) : Tokens(r)[k] = Token(r[k])
    BY <2>6, TokensAre
  <2>9. \A k \in 1..(n + l) : Tokens(r)[k] = q[k]
    <3>1. ASSUME NEW k \in 1..(n + l) PROVE Token(r[k]) = q[k]
      <4>1. CASE k \in 1..n
        BY <1>2, <2>6, <2>7, <4>1
      <4>2. CASE k > n
        <5>1. k - n \in 1..l /\ n + (k - n) = k
          BY <1>1, <2>2, <4>2
        <5>2. r[n + (k - n)] = cs[k - n] /\ q[n + (k - n)] = cs[k - n]
          BY <2>6, <2>7, <5>1
        <5>3. Token(cs[k - n]) = cs[k - n]
          BY <2>3, <5>1, TokenIs
        <5> QED BY <5>1, <5>2, <5>3
      <4>3. k \in 1..n \/ k > n
        BY <1>1, <2>2
      <4> QED BY <4>1, <4>2, <4>3
    <3> QED BY <2>8, <3>1
  <2>10. Tokens(r) = q
    BY <1>1, <2>2, <2>7, <2>8, <2>9, SameElements
  <2>11. Joined(q) = Joined(ts) \o Filling(call)
    BY <1>2, <2>1, <2>7, JoinedConcat
  <2> QED BY <1>2, <1>4, <2>5, <2>6, <2>10, <2>11
<1> QED BY <1>3, <1>4

(* The state of the STARK transcript stands for the filled calls.           *)
LEMMA StarkIs ==
  ASSUME NEW calls \in Seq(Seq(ByteValues) \cup {SQUEEZE})
  PROVE  /\ StarkTranscript(calls) \in Seq(Cells)
         /\ Joined(Tokens(StarkTranscript(calls))) = Joined(Filled(calls))
<1>1. PICK n \in Nat : n = Len(calls)
  OBVIOUS
<1>2. PICK hs : Hashes(hs, calls) /\ hs[n] = StarkTranscript(calls)
  BY <1>1, StarkUnfolds
<1>3. \A k \in 1..n : calls[k] \in Seq(ByteValues) \cup {SQUEEZE}
  BY <1>1
<1> DEFINE Part(c) == IF c = SQUEEZE THEN SQUEEZE ELSE Filling(c)
<1>4. ASSUME NEW c \in Seq(ByteValues) \cup {SQUEEZE} PROVE Part(c) \in Seq(Int)
  <2>1. SQUEEZE \in Seq(Int)
    BY DEF SQUEEZE
  <2> QED BY <2>1, ChunksAre
<1>5. PICK fs : /\ fs = Filled(calls) /\ fs \in Seq(Seq(Int)) /\ Len(fs) = n
                /\ \A k \in 1..n : fs[k] = Part(calls[k])
  <2>1. DOMAIN calls = 1..n
    BY <1>1
  <2>2. Filled(calls) = [k \in 1..n |-> Part(calls[k])]
    BY <2>1 DEF Filled, Filling
  <2> HIDE DEF Part
  <2>3. \A k \in 1..n : Part(calls[k]) \in Seq(Int)
    BY <1>3, <1>4
  <2>4. /\ [k \in 1..n |-> Part(calls[k])] \in Seq(Seq(Int))
        /\ Len([k \in 1..n |-> Part(calls[k])]) = n
    BY <1>1, <2>3
  <2> QED BY <2>2, <2>4
<1>6. PICK all : Joins(all, fs) /\ all[n] = Joined(fs)
  BY <1>5, JoinedUnfolds
<1> DEFINE P(k) == k <= n => hs[k] \in Seq(Cells) /\ Joined(Tokens(hs[k])) = all[k]
           Q == {k \in Nat : P(k)}
<1>7. 0 \in Q
  <2>1. hs[0] = <<>> /\ all[0] = <<>> /\ <<>> \in Seq(Cells)
    BY <1>2, <1>6 DEF Hashes, Joins
  <2>2. Tokens(<<>>) = <<>>
    BY DEF Tokens
  <2>3. Joined(<<>>) = <<>>
    <3>1. <<>> \in Seq({})
      OBVIOUS
    <3>2. PICK f : Joins(f, <<>>) /\ f[Len(<<>>)] = Joined(<<>>)
      BY <3>1, JoinedUnfolds
    <3> QED BY <3>2 DEF Joins
  <2> QED BY <2>1, <2>2, <2>3
<1>8. ASSUME NEW k \in Q PROVE k + 1 \in Q
  <2>1. ASSUME k + 1 <= n
        PROVE  hs[k + 1] \in Seq(Cells) /\ Joined(Tokens(hs[k + 1])) = all[k + 1]
    <3>1. k \in 0..(n - 1) /\ k <= n /\ k + 1 \in 1..n
      BY <1>1, <2>1
    <3>2. PICK s, call, t : s = hs[k] /\ call = calls[k + 1] /\ t = hs[k + 1]
      OBVIOUS
    <3>3. t = IF call = SQUEEZE THEN StarkSqueeze(s) ELSE StarkAbsorb(s, call)
      BY <1>1, <1>2, <3>1, <3>2 DEF Hashes
    <3>4. s \in Seq(Cells) /\ Joined(Tokens(s)) = all[k]
      BY <3>1, <3>2
    <3>5. call \in Seq(ByteValues) \cup {SQUEEZE}
      BY <1>3, <3>1, <3>2
    <3>6. t \in Seq(Cells) /\ Joined(Tokens(t)) = Joined(Tokens(s)) \o Part(call)
      BY <3>3, <3>4, <3>5, TokensGrow
    <3>7. all[k + 1] = all[k] \o Part(call)
      <4> HIDE DEF Part
      <4> QED BY <1>5, <1>6, <3>1, <3>2 DEF Joins
    <3> HIDE DEF Part
    <3> QED BY <3>2, <3>4, <3>6, <3>7
  <2> QED BY <2>1
<1>9. Q = Nat
  <2>1. Q \in SUBSET Nat
    OBVIOUS
  <2> HIDE DEF Q
  <2> QED BY <1>7, <1>8, <2>1, Inductive
<1>10. hs[n] \in Seq(Cells) /\ Joined(Tokens(hs[n])) = all[n]
  BY <1>1, <1>9
<1> QED BY <1>2, <1>5, <1>6, <1>10

(* Which calls leave the STARK transcript in one state.                     *)
LEMMA StarkMeets ==
  ASSUME NEW a \in Seq(Seq(ByteValues) \cup {SQUEEZE}),
         NEW b \in Seq(Seq(ByteValues) \cup {SQUEEZE})
  PROVE  StarkTranscript(a) = StarkTranscript(b) <=> Joined(Filled(a)) = Joined(Filled(b))
<1>1. PICK s, t : s = StarkTranscript(a) /\ t = StarkTranscript(b)
  OBVIOUS
<1>2. s \in Seq(Cells) /\ t \in Seq(Cells)
  BY <1>1, StarkIs
<1>3. Joined(Tokens(s)) = Joined(Filled(a)) /\ Joined(Tokens(t)) = Joined(Filled(b))
  BY <1>1, StarkIs
<1>4. Tokens(s) \in Seq(StarkWords) /\ Tokens(t) \in Seq(StarkWords)
  BY <1>2, TokensAre
<1>5. Joined(Tokens(s)) = Joined(Tokens(t)) => s = t
  BY <1>2, <1>4, JoinedInjective, TokensInjective
<1> QED BY <1>1, <1>3, <1>5

-----------------------------------------------------------------------------
(* The transcripts and the hash functions.                                  *)

(* One call more.                                                           *)
LEMMA ElementsAppend ==
  ASSUME NEW log \in Seq(Int), NEW c \in Int
  PROVE  AsElements(Append(log, c))
           = IF c # -1 THEN Append(AsElements(log), c) ELSE Flushed(AsElements(log))
<1>1. PICK n \in Nat : n = Len(log)
  OBVIOUS
<1>2. PICK more : /\ more = Append(log, c) /\ more \in Seq(Int) /\ Len(more) = n + 1
                  /\ (\A k \in 1..n : more[k] = log[k]) /\ more[n + 1] = c
  <2>1. /\ Append(log, c) \in Seq(Int) /\ Len(Append(log, c)) = n + 1
        /\ (\A k \in 1..n : Append(log, c)[k] = log[k]) /\ Append(log, c)[n + 1] = c
    BY <1>1, AppendOf
  <2> QED BY <2>1
<1>3. PICK hs : Stands(hs, log) /\ hs[n] = AsElements(log)
  BY <1>1, ElementsUnfold
<1>4. PICK gs : Stands(gs, more) /\ gs[n + 1] = AsElements(more)
  BY <1>2, ElementsUnfold
<1> DEFINE Step(e, x) == IF x # -1 THEN Append(e, x) ELSE Flushed(e)
<1>5. /\ hs[0] = gs[0]
      /\ \A k \in 0..(n - 1) : hs[k + 1] = Step(hs[k], log[k + 1])
      /\ \A k \in 0..n : gs[k + 1] = Step(gs[k], more[k + 1])
  BY <1>1, <1>2, <1>3, <1>4 DEF Stands
<1> HIDE DEF Step
<1>6. \A k \in 0..(n - 1) : k \in 0..n /\ more[k + 1] = log[k + 1]
  BY <1>1, <1>2
<1> DEFINE Q == {k \in Nat : k <= n => hs[k] = gs[k]}
<1>7. 0 \in Q
  BY <1>5
<1>8. ASSUME NEW k \in Q PROVE k + 1 \in Q
  <2>1. ASSUME k + 1 <= n PROVE hs[k + 1] = gs[k + 1]
    <3>1. k \in 0..(n - 1) /\ k <= n
      BY <1>1, <2>1
    <3> QED BY <1>5, <1>6, <3>1
  <2> QED BY <2>1
<1>9. Q = Nat
  <2>1. Q \in SUBSET Nat
    OBVIOUS
  <2> HIDE DEF Q
  <2> QED BY <1>7, <1>8, <2>1, Inductive
<1>10. hs[n] = gs[n] /\ n \in 0..n
  BY <1>1, <1>9
<1>11. gs[n + 1] = Step(gs[n], more[n + 1])
  BY <1>5, <1>10
<1> QED BY <1>2, <1>3, <1>4, <1>10, <1>11 DEF Step

(* A track stands for its log.                                              *)
Followed(track) ==
    /\ track.log \in Seq(Inputs \cup {-1}) /\ AsElements(track.log) \in Seq(Nat)
    /\ track.sponge = StateOf(AsElements(track.log))

(* Inputs are numbers, none is the mark of a challenge.                     *)
LEMMA InputType == \A x \in Inputs : x \in Nat /\ x \in Int /\ x # -1
BY SpongeAssumption

(* A new track stands for no calls.                                         *)
LEMMA NewFollowed == Followed(NewTrack)
<1>1. NewTrack.log = <<>> /\ NewTrack.sponge = NewSponge /\ <<>> \in Seq(Inputs \cup {-1})
  BY DEF NewTrack
<1> QED BY <1>1, NewIs DEF Followed

(* A call appends what it stands for.                                       *)
LEMMA FollowedGrows ==
  ASSUME NEW log \in Seq(Inputs \cup {-1}), AsElements(log) \in Seq(Nat),
         NEW c \in Inputs \cup {-1}
  PROVE  /\ Append(log, c) \in Seq(Inputs \cup {-1}) /\ AsElements(Append(log, c)) \in Seq(Nat)
         /\ c # -1 => StateOf(AsElements(Append(log, c))) = AbsorbOne(StateOf(AsElements(log)), c)
         /\ c = -1 => StateOf(AsElements(Append(log, c))) = Squeeze(StateOf(AsElements(log)))
<1>1. Append(log, c) \in Seq(Inputs \cup {-1})
  OBVIOUS
<1>2. log \in Seq(Int) /\ c \in Int
  <2>1. PICK n \in Nat : n = Len(log)
    OBVIOUS
  <2>2. \A k \in 1..n : log[k] \in Int
    <3>1. \A k \in 1..n : log[k] \in Inputs \cup {-1}
      BY <2>1
    <3> QED BY <3>1, InputType
  <2>3. c \in Int
    BY InputType
  <2> QED BY <2>1, <2>2, <2>3
<1>3. PICK es : es = AsElements(log) /\ es \in Seq(Nat)
  OBVIOUS
<1>4. AsElements(Append(log, c)) = IF c # -1 THEN Append(es, c) ELSE Flushed(es)
  BY <1>2, <1>3, ElementsAppend
<1>5. CASE c # -1
  <2>1. c \in Nat
    BY <1>5, InputType
  <2> QED BY <1>1, <1>3, <1>4, <1>5, <2>1, AppendIs, AbsorbOneIs
<1>6. CASE c = -1
  BY <1>1, <1>3, <1>4, <1>6, FlushedHas, SqueezeIs
<1> QED BY <1>5, <1>6

(* Bounded sequences are sequences.                                         *)
LEMMA Bounded ==
  ASSUME NEW S, NEW n \in Nat, NEW x \in BoundedSeq(S, n)
  PROVE  x \in Seq(S)
BY DEF BoundedSeq, SeqOf

(* The bounds are numbers.                                                  *)
LEMMA BoundsType == MaxMessage \in Nat /\ MaxCalls \in Nat /\ Chunk \in Nat
BY SpongeAssumption

(* What a pair of digests tells.                                            *)
Tells(asked) ==
    LET one == asked.inputs[1]   other == asked.inputs[2]
        same == asked.digests[1] = asked.digests[2]
        InChunks(m) == IF m = <<>> THEN <<0>> ELSE Chunks(m)
    IN  CASE asked.by = "field" -> same <=> EqualUpToZero(one, other)
          [] asked.by = "rescue" -> same <=> InBlocks(one) = InBlocks(other)
          [] asked.by = "chunked" ->
               IF Refused(one) \/ Refused(other) THEN same <=> Refused(one) /\ Refused(other)
               ELSE same <=> EqualUpToZero(Joined(one), Joined(other))
          [] asked.by = "fq" -> same <=> EqualUpToZero(InChunks(one), InChunks(other))
          [] asked.by = "stark" -> same <=> Joined(Filled(one)) = Joined(Filled(other))
          [] OTHER -> asked = NothingHashed

(* The transcripts stand for their calls, and the digests tell as stated.   *)
SpongeInv ==
    /\ \E one, other : tracks = <<one, other>> /\ Followed(one) /\ Followed(other)
    /\ Tells(hashed)

(* No digests, no claim.                                                    *)
LEMMA NothingTells == Tells(NothingHashed)
<1>1. NothingHashed.by = "none"
  BY DEF NothingHashed
<1> QED BY <1>1 DEF Tells

(* Two digests by one hash function.                                        *)
LEMMA HashTells ==
  ASSUME NEW one, NEW other, NEW d, NEW e
  PROVE  /\ (d = e <=> EqualUpToZero(one, other))
              => Tells([by |-> "field", inputs |-> <<one, other>>, digests |-> <<d, e>>])
         /\ (d = e <=> InBlocks(one) = InBlocks(other))
              => Tells([by |-> "rescue", inputs |-> <<one, other>>, digests |-> <<d, e>>])
         /\ (d = e <=> IF Refused(one) \/ Refused(other) THEN Refused(one) /\ Refused(other)
                       ELSE EqualUpToZero(Joined(one), Joined(other)))
              => Tells([by |-> "chunked", inputs |-> <<one, other>>, digests |-> <<d, e>>])
         /\ (d = e <=> EqualUpToZero(IF one = <<>> THEN <<0>> ELSE Chunks(one),
                                     IF other = <<>> THEN <<0>> ELSE Chunks(other)))
              => Tells([by |-> "fq", inputs |-> <<one, other>>, digests |-> <<d, e>>])
         /\ (d = e <=> Joined(Filled(one)) = Joined(Filled(other)))
              => Tells([by |-> "stark", inputs |-> <<one, other>>, digests |-> <<d, e>>])
<1> DEFINE H(by) == [by |-> by, inputs |-> <<one, other>>, digests |-> <<d, e>>]
<1>1. \A by : /\ H(by).by = by /\ H(by).inputs[1] = one /\ H(by).inputs[2] = other
              /\ H(by).digests[1] = d /\ H(by).digests[2] = e
  OBVIOUS
<1> HIDE DEF H
<1>2. (d = e <=> EqualUpToZero(one, other)) => Tells(H("field"))
  BY <1>1 DEF Tells
<1>3. (d = e <=> InBlocks(one) = InBlocks(other)) => Tells(H("rescue"))
  BY <1>1 DEF Tells
<1>4. (d = e <=> IF Refused(one) \/ Refused(other) THEN Refused(one) /\ Refused(other)
                 ELSE EqualUpToZero(Joined(one), Joined(other))) => Tells(H("chunked"))
  BY <1>1 DEF Tells
<1>5. (d = e <=> EqualUpToZero(IF one = <<>> THEN <<0>> ELSE Chunks(one),
                               IF other = <<>> THEN <<0>> ELSE Chunks(other))) => Tells(H("fq"))
  BY <1>1 DEF Tells
<1>6. (d = e <=> Joined(Filled(one)) = Joined(Filled(other))) => Tells(H("stark"))
  BY <1>1 DEF Tells
<1> QED BY <1>2, <1>3, <1>4, <1>5, <1>6 DEF H

(* Two new tracks.                                                          *)
LEMMA NewTracks ==
  \E one, other : <<NewTrack, NewTrack>> = <<one, other>> /\ Followed(one) /\ Followed(other)
BY NewFollowed

(* The invariant holds at first.                                            *)
LEMMA SpongeInitInv == SpongeInit => SpongeInv
BY NewTracks, NothingTells DEF SpongeInit, SpongeInv

(* A call on one of the tracks.                                             *)
LEMMA CallFollowed ==
  ASSUME NEW k \in 1..2, NEW s, NEW c \in Inputs \cup {-1}, SpongeInv,
         s = IF c # -1 THEN AbsorbOne(tracks[k].sponge, c) ELSE Squeeze(tracks[k].sponge),
         tracks' = [tracks EXCEPT ![k] = [sponge |-> s, log |-> Append(tracks[k].log, c)]],
         UNCHANGED hashed
  PROVE  SpongeInv'
<1>1. PICK one, other : tracks = <<one, other>> /\ Followed(one) /\ Followed(other)
  BY DEF SpongeInv
<1>2. PICK t : t = [sponge |-> s, log |-> Append(tracks[k].log, c)]
  OBVIOUS
<1>3. PICK log, es : log = tracks[k].log /\ es = AsElements(log)
  OBVIOUS
<1>4. /\ log \in Seq(Inputs \cup {-1}) /\ AsElements(log) \in Seq(Nat)
      /\ tracks[k].sponge = StateOf(AsElements(log))
  BY <1>1, <1>3 DEF Followed
<1>5. /\ Append(log, c) \in Seq(Inputs \cup {-1}) /\ AsElements(Append(log, c)) \in Seq(Nat)
      /\ c # -1 => StateOf(AsElements(Append(log, c))) = AbsorbOne(StateOf(AsElements(log)), c)
      /\ c = -1 => StateOf(AsElements(Append(log, c))) = Squeeze(StateOf(AsElements(log)))
  BY <1>4, FollowedGrows
<1>6. t.sponge = s /\ t.log = Append(log, c)
  BY <1>2, <1>3
<1>7. s = StateOf(AsElements(Append(log, c)))
  BY <1>4, <1>5
<1>8. Followed(t)
  BY <1>5, <1>6, <1>7 DEF Followed
<1>9. tracks' = <<t, other>> \/ tracks' = <<one, t>>
  <2>1. tracks' = [tracks EXCEPT ![k] = t]
    BY <1>2
  <2>2. /\ [<<one, other>> EXCEPT ![1] = t] = <<t, other>>
        /\ [<<one, other>> EXCEPT ![2] = t] = <<one, t>>
    OBVIOUS
  <2>3. k = 1 \/ k = 2
    OBVIOUS
  <2> QED BY <1>1, <2>1, <2>2, <2>3
<1>10. \E u, v : tracks' = <<u, v>> /\ Followed(u) /\ Followed(v)
  BY <1>1, <1>8, <1>9
<1>11. Tells(hashed)'
  BY DEF SpongeInv
<1> QED BY <1>10, <1>11 DEF SpongeInv, Followed

(* The sequences that are enumerated.                                       *)
LEMMA InputsAre ==
  /\ \A m \in Messages : m \in Seq(Nat)
  /\ \A m \in Chunkings : m \in Seq(Seq(Nat))
  /\ \A m \in ByteStrings : m \in Seq(ByteValues)
  /\ \A m \in StarkCalls : m \in Seq(Seq(ByteValues) \cup {SQUEEZE})
<1>1. \A m \in Messages : m \in Seq(Nat)
  <2>1. ASSUME NEW m \in Messages PROVE m \in Seq(Nat)
    <3>1. m \in Seq(Inputs)
      BY BoundsType, Bounded DEF Messages
    <3> QED BY <3>1, InputType
  <2> QED BY <2>1
<1>2. ASSUME NEW m \in Chunkings PROVE m \in Seq(Seq(Nat))
  <2>1. 2 \in Nat /\ Rate + 1 \in Nat
    BY DEF Rate
  <2>2. m \in Seq(Blocks)
    BY <2>1, Bounded DEF Chunkings
  <2>3. \A c \in Blocks : c \in Seq(Nat)
    <3>1. ASSUME NEW c \in Blocks PROVE c \in Seq(Nat)
      <4>1. c \in Seq(Inputs)
        BY <2>1, Bounded DEF Blocks
      <4> QED BY <4>1, InputType
    <3> QED BY <3>1
  <2> HIDE DEF Blocks
  <2> QED BY <2>2, <2>3
<1>3. \A m \in ByteStrings : m \in Seq(ByteValues)
  <2>1. 2 * Chunk + 1 \in Nat
    BY BoundsType
  <2> QED BY <2>1, Bounded DEF ByteStrings
<1>4. ASSUME NEW m \in StarkCalls PROVE m \in Seq(Seq(ByteValues) \cup {SQUEEZE})
  <2>1. 2 \in Nat /\ Chunk + 1 \in Nat
    BY BoundsType
  <2>2. PICK Given : Given = BoundedSeq(ByteValues, Chunk + 1) \cup {SQUEEZE}
    OBVIOUS
  <2>3. m \in Seq(Given)
    BY <2>1, <2>2, Bounded DEF StarkCalls
  <2>4. \A c \in Given : c \in Seq(ByteValues) \cup {SQUEEZE}
    BY <2>1, <2>2, Bounded
  <2> QED BY <2>3, <2>4
<1> QED BY <1>1, <1>2, <1>3, <1>4

(* Hashing leaves the tracks alone.                                         *)
LEMMA HashKeeps ==
  ASSUME SpongeInv, UNCHANGED tracks, Tells(hashed)'
  PROVE  SpongeInv'
BY DEF SpongeInv, Followed

(* Every step keeps the invariant.                                          *)
LEMMA SpongeStep == SpongeInv /\ [SpongeNext]_spongeVars => SpongeInv'
<1> SUFFICES ASSUME SpongeInv, [SpongeNext]_spongeVars
             PROVE  SpongeInv'
  OBVIOUS
<1>1. ASSUME NEW k \in 1..2, NEW x \in Inputs, AbsorbOn(k, x) PROVE SpongeInv'
  <2>1. x \in Inputs \cup {-1} /\ x # -1
    BY InputType
  <2>2. PICK s : s = AbsorbOne(tracks[k].sponge, x)
    OBVIOUS
  <2>3. /\ tracks' = [tracks EXCEPT ![k] = [sponge |-> s, log |-> Append(tracks[k].log, x)]]
        /\ UNCHANGED hashed
    BY <1>1, <2>2 DEF AbsorbOn
  <2> QED BY <2>1, <2>2, <2>3, CallFollowed
<1>2. ASSUME NEW k \in 1..2, ChallengeOn(k) PROVE SpongeInv'
  <2>1. PICK x : x = -1 /\ x \in Inputs \cup {-1}
    OBVIOUS
  <2>2. PICK s : s = Squeeze(tracks[k].sponge)
    OBVIOUS
  <2>3. /\ tracks' = [tracks EXCEPT ![k] = [sponge |-> s, log |-> Append(tracks[k].log, x)]]
        /\ UNCHANGED hashed
    BY <1>2, <2>1, <2>2 DEF ChallengeOn
  <2> QED BY <2>1, <2>2, <2>3, CallFollowed
<1>3. ASSUME NEW one \in Messages, NEW other \in Messages, Hash("field", HashToField, one, other)
      PROVE  SpongeInv'
  <2>1. one \in Seq(Nat) /\ other \in Seq(Nat)
    BY InputsAre
  <2>2. HashToField(one) = HashToField(other) <=> EqualUpToZero(one, other)
    BY <2>1, FieldMeets
  <2>3. /\ hashed' = [by |-> "field", inputs |-> <<one, other>>,
                      digests |-> <<HashToField(one), HashToField(other)>>]
        /\ UNCHANGED tracks
    BY <1>3 DEF Hash
  <2>4. Tells(hashed')
    BY <2>2, <2>3, HashTells
  <2> QED BY <2>3, <2>4, HashKeeps
<1>4. ASSUME NEW one \in Messages, NEW other \in Messages, Hash("rescue", RescueHash, one, other)
      PROVE  SpongeInv'
  <2>1. one \in Seq(Nat) /\ other \in Seq(Nat)
    BY InputsAre
  <2>2. RescueHash(one) = RescueHash(other) <=> InBlocks(one) = InBlocks(other)
    BY <2>1, RescueMeets
  <2>3. /\ hashed' = [by |-> "rescue", inputs |-> <<one, other>>,
                      digests |-> <<RescueHash(one), RescueHash(other)>>]
        /\ UNCHANGED tracks
    BY <1>4 DEF Hash
  <2>4. Tells(hashed')
    BY <2>2, <2>3, HashTells
  <2> QED BY <2>3, <2>4, HashKeeps
<1>5. ASSUME NEW one \in Chunkings, NEW other \in Chunkings,
             Hash("chunked", PoseidonHashChunked, one, other)
      PROVE  SpongeInv'
  <2>1. one \in Seq(Seq(Nat)) /\ other \in Seq(Seq(Nat))
    BY InputsAre
  <2>2. PoseidonHashChunked(one) = PoseidonHashChunked(other)
          <=> IF Refused(one) \/ Refused(other) THEN Refused(one) /\ Refused(other)
              ELSE EqualUpToZero(Joined(one), Joined(other))
    BY <2>1, ChunkedMeets
  <2>3. /\ hashed' = [by |-> "chunked", inputs |-> <<one, other>>,
                      digests |-> <<PoseidonHashChunked(one), PoseidonHashChunked(other)>>]
        /\ UNCHANGED tracks
    BY <1>5 DEF Hash
  <2>4. Tells(hashed')
    BY <2>2, <2>3, HashTells
  <2> QED BY <2>3, <2>4, HashKeeps
<1>6. ASSUME NEW one \in ByteStrings, NEW other \in ByteStrings, Hash("fq", HashToFq, one, other)
      PROVE  SpongeInv'
  <2>1. one \in Seq(ByteValues) /\ other \in Seq(ByteValues)
    BY InputsAre
  <2>2. HashToFq(one) = HashToFq(other)
          <=> EqualUpToZero(IF one = <<>> THEN <<0>> ELSE Chunks(one),
                            IF other = <<>> THEN <<0>> ELSE Chunks(other))
    BY <2>1, FqMeets
  <2>3. /\ hashed' = [by |-> "fq", inputs |-> <<one, other>>,
                      digests |-> <<HashToFq(one), HashToFq(other)>>]
        /\ UNCHANGED tracks
    BY <1>6 DEF Hash
  <2>4. Tells(hashed')
    BY <2>2, <2>3, HashTells
  <2> QED BY <2>3, <2>4, HashKeeps
<1>7. ASSUME NEW one \in StarkCalls, NEW other \in StarkCalls,
             Hash("stark", StarkTranscript, one, other)
      PROVE  SpongeInv'
  <2>1. one \in Seq(Seq(ByteValues) \cup {SQUEEZE}) /\ other \in Seq(Seq(ByteValues) \cup {SQUEEZE})
    BY InputsAre
  <2>2. StarkTranscript(one) = StarkTranscript(other) <=> Joined(Filled(one)) = Joined(Filled(other))
    BY <2>1, StarkMeets
  <2>3. /\ hashed' = [by |-> "stark", inputs |-> <<one, other>>,
                      digests |-> <<StarkTranscript(one), StarkTranscript(other)>>]
        /\ UNCHANGED tracks
    BY <1>7 DEF Hash
  <2>4. Tells(hashed')
    BY <2>2, <2>3, HashTells
  <2> QED BY <2>3, <2>4, HashKeeps
<1>8. CASE StartOver
  BY <1>8, NewTracks, NothingTells DEF StartOver, SpongeInv, Followed
<1>9. CASE UNCHANGED spongeVars
  BY <1>9 DEF spongeVars, SpongeInv, Followed
<1> QED BY <1>1, <1>2, <1>3, <1>4, <1>5, <1>6, <1>7, <1>8, <1>9 DEF SpongeNext

(* The invariant is strong enough.                                          *)
LEMMA SpongeTells == SpongeInv => DigestsMeetOnlyByZeros
<1> SUFFICES ASSUME SpongeInv PROVE DigestsMeetOnlyByZeros
  OBVIOUS
<1>1. PICK one, other : tracks = <<one, other>> /\ Followed(one) /\ Followed(other)
  BY DEF SpongeInv
<1>2. SameState(tracks[1].sponge, tracks[2].sponge)
        <=> Settled(AsElements(tracks[1].log)) = Settled(AsElements(tracks[2].log))
  <2>1. tracks[1] = one /\ tracks[2] = other
    BY <1>1
  <2>2. /\ AsElements(one.log) \in Seq(Nat) /\ one.sponge = StateOf(AsElements(one.log))
        /\ AsElements(other.log) \in Seq(Nat) /\ other.sponge = StateOf(AsElements(other.log))
    BY <1>1 DEF Followed
  <2> QED BY <2>1, <2>2, StatesMeet
<1> QED BY <1>2 DEF SpongeInv, Tells, DigestsMeetOnlyByZeros

(* Inputs that share a digest, and transcripts in one state, differ by the  *)
(* zeros of the padding alone, whatever their length.                       *)
THEOREM DigestsMeet == SpongeSpec => []DigestsMeetOnlyByZeros
<1>1. SpongeInit => SpongeInv
  BY SpongeInitInv
<1>2. SpongeInv /\ [SpongeNext]_spongeVars => SpongeInv'
  BY SpongeStep
<1>3. SpongeInv => DigestsMeetOnlyByZeros
  BY SpongeTells
<1> QED BY <1>1, <1>2, <1>3, PTL DEF SpongeSpec

-----------------------------------------------------------------------------
(* The caller of the gadgets takes the steps of one component at a time and *)
(* leaves the others alone: what holds of each holds of all of them         *)
(* together; the permutations behave as they do alone (PermutationProofs).  *)
THEOREM TogetherExact ==
  Spec => /\ PermSpec
          /\ [](/\ GatesAreExact /\ LookupIsFaithful /\ FieldAddIsExact
                /\ PaddingIsExact /\ DigestsMeetOnlyByZeros)
<1>1. Init => BooleanInit /\ LutInit /\ SumInit /\ ShaInit /\ SpongeInit /\ PermInit
  BY DEF Init
<1>2. [Next]_vars => [BooleanNext]_gate
  BY DEF Next, vars
<1>3. [Next]_vars => [LutNext]_lutVars
  BY DEF Next, vars
<1>4. [Next]_vars => [SumNext]_sum
  BY DEF Next, vars
<1>5. [Next]_vars => [ShaNext]_shaVars
  BY DEF Next, vars
<1>6. [Next]_vars => [SpongeNext]_spongeVars
  BY DEF Next, vars
<1>7. [Next]_vars => [PermNext]_permuted
  BY DEF Next, vars
<1>8. Spec => BooleanSpec
  BY <1>1, <1>2, PTL DEF Spec, BooleanSpec
<1>9. Spec => LutSpec
  BY <1>1, <1>3, PTL DEF Spec, LutSpec
<1>10. Spec => SumSpec
  BY <1>1, <1>4, PTL DEF Spec, SumSpec
<1>11. Spec => ShaSpec
  BY <1>1, <1>5, PTL DEF Spec, ShaSpec
<1>12. Spec => SpongeSpec
  BY <1>1, <1>6, PTL DEF Spec, SpongeSpec
<1>13. Spec => PermSpec
  BY <1>1, <1>7, PTL DEF Spec, PermSpec
<1> QED
  BY <1>8, <1>9, <1>10, <1>11, <1>12, <1>13, GatesExact, LookupFaithful, SumsExact,
     PaddingExact, DigestsMeet, PTL
=============================================================================
