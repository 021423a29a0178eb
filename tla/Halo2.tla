-------------------------------- MODULE Halo2 --------------------------------
(***************************************************************************)
(* The primitives of a Halo2 verifier (soroban-zk-core/src/halo2.rs):      *)
(* validation of a key, evaluation of custom gates, the grand product of   *)
(* the permutation argument, and the accumulator of commitments and        *)
(* values.                                                                 *)
(*                                                                         *)
(* Rows, columns and cells count from 0 as in the code.  A point of the    *)
(* group is its logarithm modulo the order FR_MODULUS: the module Curve    *)
(* says that sums of points are sums of logarithms.                        *)
(***************************************************************************)
EXTENDS Bn254, Sequences, FiniteSets

CONSTANTS
    ROWS, COLS,    \* R and C
    MAX_GATES,     \* G, the gates a key has room for
    MAX_GATE_TERMS,\* T, the terms of a gate
    MAX_FACTORS,   \* F, the factors of a term
    KeysGiven,     \* keys given to the verifier
    CellValues,    \* values of the cells
    Challenges,    \* values of beta and gamma
    FoldedPoints,  \* logarithms of commitments
    FoldedWords,   \* words folded as values
    MaxFolds       \* bound on the folds into one accumulator

(* The fields of a key: arrays of fixed length, with counts that may be     *)
(* anything, and indices of columns and cells that may be, too.            *)
Terms == [coeff : U256, degree : Nat, factors : [1..MAX_FACTORS -> Nat \X Int]]
Gates == [numTerms : Nat, terms : [1..MAX_GATE_TERMS -> Terms]]
AnyKey ==
    [domain : Nat, numGates : Nat, gates : [1..MAX_GATES -> Gates], sigma : Seq(Nat),
     permutationCols : Nat]

ASSUME Halo2Assumption ==
    /\ {ROWS, COLS, MAX_GATES, MAX_GATE_TERMS, MAX_FACTORS, MaxFolds} \subseteq Nat
    /\ KeysGiven \subseteq AnyKey
    /\ CellValues \cup Challenges \cup FoldedPoints \subseteq 0..(FR_MODULUS - 1)
    /\ FoldedWords \subseteq U256

VARIABLES
    vk,         \* the key of the verifier
    valid,      \* whether validate accepts it
    verified,   \* the last verification: the cells, and the verdict for each
                \* pair of challenges, which are not known when cells are fixed
    acc,        \* the accumulator
    folds       \* what was folded into it, in order

halo2Vars == <<vk, valid, verified, acc, folds>>

HAdd(a, b) == AddMod(a, b, FR_MODULUS)
HMul(a, b) == MulMod(a, b, FR_MODULUS)
HInverse == [a \in 0..(FR_MODULUS - 1) |-> Invert(a, FR_MODULUS)]

(* A key has arrays of fixed length and counts of how much of them is used: *)
(* [domain, numGates, gates, sigma, permutationCols], a gate                *)
(* [numTerms, terms], a term [coeff, degree, factors] with factors pairs of *)
(* a column and a rotation.  sigma has one entry per cell, in columns.      *)
Cells(k) == Len(k.sigma)

(* from_factors and from_terms: a list that fits is copied and filled up.   *)
FromFactors(coeff, factors) ==
    [coeff |-> coeff, degree |-> Len(factors),
     factors |-> [f \in 1..MAX_FACTORS |->
                    IF f <= Len(factors) THEN factors[f] ELSE <<0, 0>>]]
FromTermList(terms) ==
    [numTerms |-> Len(terms),
     terms |-> [t \in 1..MAX_GATE_TERMS |->
                  IF t <= Len(terms) THEN terms[t] ELSE FromFactors(0, <<>>)]]

(* Mutant of Validate: the columns of the factors are not checked.          *)
ValidateNoColumns(k) ==
    /\ ROWS # 0 /\ COLS # 0 /\ Cells(k) = ROWS * COLS /\ k.domain = ROWS
    /\ k.numGates <= MAX_GATES /\ k.permutationCols <= COLS
    /\ \A c \in DOMAIN k.sigma : k.sigma[c] < Cells(k)
    /\ \A g \in 1..k.numGates :
          /\ k.gates[g].numTerms <= MAX_GATE_TERMS
          /\ \A t \in 1..k.gates[g].numTerms : k.gates[g].terms[t].degree <= MAX_FACTORS

Validate(k) ==
    /\ ROWS # 0 /\ COLS # 0 /\ Cells(k) = ROWS * COLS /\ k.domain = ROWS
    /\ k.numGates <= MAX_GATES
    /\ k.permutationCols <= COLS
    /\ \A c \in DOMAIN k.sigma : k.sigma[c] < Cells(k)
    /\ \A g \in 1..k.numGates :
          /\ k.gates[g].numTerms <= MAX_GATE_TERMS
          /\ \A t \in 1..k.gates[g].numTerms :
                /\ k.gates[g].terms[t].degree <= MAX_FACTORS
                /\ \A f \in 1..k.gates[g].terms[t].degree :
                      k.gates[g].terms[t].factors[f][1] < COLS

RotIndex(row, rot) == (row + rot) % ROWS

-----------------------------------------------------------------------------
(* Verification of cells[row][col].                                         *)

(* An index past an array, in the order the loops reach it, is a panic.     *)
GatePanics(gate) ==
    \E t \in 1..gate.numTerms :
       \/ t > MAX_GATE_TERMS
       \/ \E f \in 1..gate.terms[t].degree :
             f > MAX_FACTORS \/ gate.terms[t].factors[f][1] >= COLS

GateSum(gate, cells, row) ==
    LET monomial(term) ==
          LET prod[f \in 0..term.degree] ==
                IF f = 0 THEN term.coeff
                ELSE HMul(prod[f - 1],
                          cells[RotIndex(row, term.factors[f][2])][term.factors[f][1]])
          IN  prod[term.degree]
        sum[t \in 0..gate.numTerms] ==
          IF t = 0 THEN 0 ELSE HAdd(sum[t - 1], monomial(gate.terms[t]))
    IN  sum[gate.numTerms]

(* Row by row and gate by gate, until one is not zero.                      *)
EvaluateGates(k, cells) ==
    LET outcome(n) ==
          LET g == (n % k.numGates) + 1   row == n \div k.numGates
          IN  IF g > MAX_GATES THEN "panic"
              ELSE IF GatePanics(k.gates[g]) THEN "panic"
              ELSE IF GateSum(k.gates[g], cells, row) # 0 THEN "InvalidInput" ELSE "ok"
        stops == {n \in 0..(ROWS * k.numGates - 1) : outcome(n) # "ok"}
    IN  IF stops = {} THEN "ok"
        ELSE outcome(CHOOSE n \in stops : \A o \in stops : n <= o)

Shifted(value, i, beta, gamma) == HAdd(value, HAdd(HMul(beta, i), gamma))

(* Mutant of EvaluatePermutation: the product stops before the last cell.   *)
EvaluatePermutationShort(k, values, beta, gamma) ==
    LET den(i) == Shifted(values[i], i, beta, gamma)
        num(i) == Shifted(values[i], k.sigma[i + 1], beta, gamma)
        z[i \in 0..Cells(k)] ==
          IF i = 0 THEN 1 ELSE HMul(z[i - 1], HMul(num(i - 1), HInverse[den(i - 1)]))
    IN  IF \E i \in 0..(Cells(k) - 1) : den(i) = 0
        THEN [status |-> "InvalidFieldElement", z |-> 0]
        ELSE [status |-> "ok", z |-> z[Cells(k) - 1]]

(* The grand product over the cells, a denominator of which may be zero.    *)
EvaluatePermutation(k, values, beta, gamma) ==
    LET den(i) == Shifted(values[i], i, beta, gamma)
        num(i) == Shifted(values[i], k.sigma[i + 1], beta, gamma)
        z[i \in 0..Cells(k)] ==
          IF i = 0 THEN 1 ELSE HMul(z[i - 1], HMul(num(i - 1), HInverse[den(i - 1)]))
    IN  IF \E i \in 0..(Cells(k) - 1) : den(i) = 0
        THEN [status |-> "InvalidFieldElement", z |-> 0]
        ELSE [status |-> "ok", z |-> z[Cells(k)]]

(* Mutant of VerifyPermutation: the product need not be one.                *)
VerifyPermutationAny(k, values, beta, gamma) ==
    EvaluatePermutation(k, values, beta, gamma).status

VerifyPermutation(k, values, beta, gamma) ==
    LET e == EvaluatePermutation(k, values, beta, gamma)
    IN  IF e.status = "ok" /\ e.z # 1 THEN "InvalidInput" ELSE e.status

(* Cell col * R + row; cells beyond those are zero.                         *)
Flatten(k, cells) ==
    [i \in 0..(Cells(k) - 1) |->
       IF i < ROWS * COLS THEN cells[i % ROWS][i \div ROWS] ELSE 0]

VerifyCells(k, cells, beta, gamma) ==
    LET gates == EvaluateGates(k, cells)
    IN  CASE gates # "ok" -> gates
          [] gates = "ok" /\ Cells(k) < ROWS * COLS -> "panic"
          [] OTHER -> VerifyPermutation(k, Flatten(k, cells), beta, gamma)

-----------------------------------------------------------------------------
(* The accumulator.                                                         *)
NewAccumulator == [commitment |-> 0, value |-> 0, count |-> 0]

(* Mutant of FoldCommitment: the second fold overwrites, too.               *)
FoldCommitmentTwice(a, comm) ==
    [a EXCEPT !.commitment = IF a.count <= 1 THEN comm ELSE HAdd(@, comm), !.count = @ + 1]

FoldCommitment(a, comm) ==
    [a EXCEPT !.commitment = IF a.count = 0 THEN comm ELSE HAdd(@, comm), !.count = @ + 1]
FoldScalar(a, v) == [a EXCEPT !.value = HAdd(@, v), !.count = @ + 1]

NoKey == [numGates |-> 0]
NotVerified == [cells |-> <<>>]

Halo2Init ==
    /\ vk = NoKey /\ valid = FALSE /\ verified = NotVerified
    /\ acc = NewAccumulator /\ folds = <<>>

TakeKey ==
    /\ vk = NoKey /\ folds = <<>>
    /\ \E k \in KeysGiven : vk' = k /\ valid' = Validate(k)
    /\ UNCHANGED <<verified, acc, folds>>

Verify ==
    /\ vk # NoKey /\ verified = NotVerified
    /\ \E cells \in [0..(ROWS - 1) -> [0..(COLS - 1) -> CellValues]] :
          verified' = [cells |-> cells,
                       verdict |-> [c \in Challenges \X Challenges |->
                                      VerifyCells(vk, cells, c[1], c[2])]]
    /\ UNCHANGED <<vk, valid, acc, folds>>

FoldIn ==
    /\ vk = NoKey /\ Len(folds) < MaxFolds
    /\ \/ \E p \in FoldedPoints :
             acc' = FoldCommitment(acc, p) /\ folds' = Append(folds, <<"commitment", p>>)
       \/ \E v \in FoldedWords :
             acc' = FoldScalar(acc, v) /\ folds' = Append(folds, <<"value", v>>)
    /\ UNCHANGED <<vk, valid, verified>>

DropAll ==
    /\ vk # NoKey \/ folds # <<>>
    /\ vk' = NoKey /\ valid' = FALSE /\ verified' = NotVerified
    /\ acc' = NewAccumulator /\ folds' = <<>>

Halo2Next == TakeKey \/ Verify \/ FoldIn \/ DropAll

Halo2Spec == Halo2Init /\ [][Halo2Next]_halo2Vars

-----------------------------------------------------------------------------
SigmaPermutes(k) == {k.sigma[c] : c \in DOMAIN k.sigma} = 0..(Cells(k) - 1)

(* sigma permutes the cells and equal cells are what it maps to each other. *)
CopiesAgree(k, values) ==
    /\ SigmaPermutes(k)
    /\ \A i \in 0..(Cells(k) - 1) : values[k.sigma[i + 1]] = values[i]

GatesHold(k, cells) ==
    \A g \in 1..k.numGates, row \in 0..(ROWS - 1) : GateSum(k.gates[g], cells, row) = 0

(* With a key that validate accepts no index is out of range, for whatever  *)
(* challenges.  A gate that does not vanish on a row is the verdict; else   *)
(* the challenges that make a denominator zero are refused, and no others.  *)
VerdictsFollow ==
    valid /\ verified # NotVerified =>
      LET values == Flatten(vk, verified.cells)
          gatesHold == GatesHold(vk, verified.cells)
          verdict == verified.verdict
      IN  \A c \in DOMAIN verdict :
             /\ verdict[c] # "panic"
             /\ ~gatesHold => verdict[c] = "InvalidInput"
             /\ gatesHold =>
                  (verdict[c] = "InvalidFieldElement"
                     <=> \E i \in 0..(Cells(vk) - 1) :
                            (values[i] + c[1] * i + c[2]) % FR_MODULUS = 0)

(* When the gates hold the grand product is one exactly if sigma is a       *)
(* permutation, as the comment on verify_permutation says (halo2.rs).  With *)
(* a beta of zero it is one for every sigma, and cells that differ along a  *)
(* permutation are rejected.                                                *)
ProductIsOneIffPermutation ==
    valid /\ verified # NotVerified /\ GatesHold(vk, verified.cells) =>
      \A c \in DOMAIN verified.verdict :
         verified.verdict[c] # "InvalidFieldElement" =>
           (verified.verdict[c] = "ok" <=> SigmaPermutes(vk))

(* Cells that satisfy the gates and agree along a permutation pass, for     *)
(* every pair of challenges that makes no denominator zero.                 *)
HonestCellsPass ==
    valid /\ verified # NotVerified =>
      (GatesHold(vk, verified.cells) /\ CopiesAgree(vk, Flatten(vk, verified.cells)) =>
         \A c \in DOMAIN verified.verdict : verified.verdict[c] # "InvalidInput")

(* Others are rejected by some pair of challenges: a gate that does not     *)
(* vanish on a row, a sigma that is no permutation, cells that differ along *)
(* it.                                                                      *)
ArgumentDecides ==
    valid /\ verified # NotVerified =>
      ((\A c \in DOMAIN verified.verdict : verified.verdict[c] # "InvalidInput") =>
         GatesHold(vk, verified.cells) /\ CopiesAgree(vk, Flatten(vk, verified.cells)))

Folded(kind) == {i \in DOMAIN folds : folds[i][1] = kind}
FoldTotal(kind, list) ==
    LET total[i \in 0..Len(list)] ==
          IF i = 0 THEN 0 ELSE total[i - 1] + (IF list[i][1] = kind THEN list[i][2] ELSE 0)
    IN  total[Len(list)]
FoldedSum(kind) == FoldTotal(kind, folds) % FR_MODULUS

(* In whatever order commitments and values are folded, both halves are the *)
(* sums of theirs, although they share the count that makes the first       *)
(* commitment overwrite; the value of words that are not reduced stays      *)
(* congruent to their sum as long as there is at most one of them.          *)
AccumulatorIsSum ==
    LET unreduced == {i \in Folded("value") : folds[i][2] >= FR_MODULUS} IN
    /\ acc.count = Len(folds)
    /\ acc.commitment = FoldedSum("commitment")
    /\ unreduced = {} => acc.value = FoldedSum("value")
    /\ Cardinality(unreduced) <= 1 => acc.value % FR_MODULUS = FoldedSum("value")
=============================================================================
