--------------------------------- MODULE Fri ---------------------------------
(***************************************************************************)
(* The field of the STARK building blocks, their evaluation domains, the   *)
(* folding of FRI layers and the quotients of the deep composition         *)
(* (soroban-zk-std/src/stark/field.rs and fri.rs).                         *)
(*                                                                         *)
(* A prover evaluates a polynomial on the largest domain and folds the     *)
(* layer with one challenge after another; one value of the first layer    *)
(* may be wrong.                                                           *)
(***************************************************************************)
EXTENDS Integers, Sequences

CONSTANTS
    MODULUS,         \* the prime, 2^64 - 2^32 + 1
    ROOT_OF_UNITY,   \* of order 2^FRI_MAX_LOG
    COSSET_OFFSET,
    FRI_MAX_LOG,
    INV2,
    TraceLog,        \* logarithm of the size of the first layer
    TracePolys,      \* polynomials evaluated: sequences of elements
    Errors,          \* what a wrong value is off by
    Betas,           \* challenges
    Zetas            \* points of the deep composition

Felts == 0..(MODULUS - 1)

FeltAdd(a, b) == (a + b) % MODULUS
FeltSub(a, b) == (a + MODULUS - b) % MODULUS
FeltMul(a, b) == (a * b) % MODULUS
FeltNeg(a) == IF a = 0 THEN 0 ELSE MODULUS - a

(* From the highest bit of the exponent downwards.                          *)
FeltPow(a, e) ==
    LET power[k \in Nat] ==
          IF k = 0 THEN 1
          ELSE LET root == power[k \div 2]   square == FeltMul(root, root)
               IN  IF k % 2 = 1 THEN FeltMul(square, a) ELSE square
    IN  power[e]
FeltInv == [a \in Felts |-> FeltPow(a, MODULUS - 2)]

(* 1 << k, the size of the layer with logarithm k.                          *)
OneShl[k \in 0..FRI_MAX_LOG] == IF k = 0 THEN 1 ELSE 2 * OneShl[k - 1]

LayerRoot(l) == FeltPow(ROOT_OF_UNITY, OneShl[FRI_MAX_LOG - l])
LayerOffset(l) == FeltPow(COSSET_OFFSET, OneShl[FRI_MAX_LOG - l])

(* Mutant of DomainPoint: every layer has the offset of the largest one.    *)
DomainPointOffset(l, index) ==
    FeltMul(COSSET_OFFSET, FeltPow(LayerRoot(l), index))

DomainPoint(l, index) == FeltMul(LayerOffset(l), FeltPow(LayerRoot(l), index))

PolyEval(coeffs, x) ==
    LET n == Len(coeffs)
        acc[k \in 0..n] ==
          IF k = 0 THEN 0 ELSE FeltAdd(FeltMul(acc[k - 1], x), coeffs[n + 1 - k])
    IN  acc[n]

(* The modulus is a prime, by the theorem of Fermat.                        *)
ASSUME FeltAssumption ==
    /\ MODULUS \in Nat /\ MODULUS > 2
    /\ \A a \in 1..(MODULUS - 1) : FeltPow(a, MODULUS - 1) = 1

ASSUME RootAssumption ==
    /\ FRI_MAX_LOG \in Nat \ {0}
    /\ {ROOT_OF_UNITY, COSSET_OFFSET, INV2} \subseteq 1..(MODULUS - 1)
    /\ FeltPow(ROOT_OF_UNITY, OneShl[FRI_MAX_LOG - 1]) = MODULUS - 1
    /\ (2 * INV2) % MODULUS = 1

ASSUME TraceAssumption ==
    /\ TraceLog \in 0..FRI_MAX_LOG
    /\ TracePolys \subseteq Seq(Felts)
    /\ Errors \subseteq 1..(MODULUS - 1)
    /\ Betas \subseteq Felts /\ Zetas \subseteq Felts

(* The values at x and at -x become one at the square of x.                 *)
FoldValue(column, negColumn, x, beta) ==
    FeltMul(FeltAdd(FeltAdd(column, negColumn),
                    FeltMul(FeltMul(beta, FeltSub(column, negColumn)), FeltInv[x])),
            INV2)

(* Layers count from 0.                                                     *)
FoldLayer(src, beta, l) ==
    LET half == OneShl[l - 1]
    IN  [m \in 0..(half - 1) |->
           FoldValue(src[m], src[m + half], DomainPoint(l, m), beta)]

QuotientEval(coeffs, zeta, z) ==
    LET denom == FeltInv[FeltSub(zeta, z)]
        acc[k \in 0..Len(coeffs)] ==
          IF k = 0 THEN 0
          ELSE FeltAdd(acc[k - 1],
                       FeltMul(coeffs[k], FeltMul(FeltSub(FeltPow(zeta, k - 1), FeltPow(z, k - 1)),
                                                  denom)))
    IN  acc[Len(coeffs)]

(* terms are triples of a challenge, a polynomial and a point.              *)
DeepComposition(terms, zeta) ==
    LET h[k \in 0..Len(terms)] ==
          IF k = 0 THEN 0
          ELSE FeltAdd(h[k - 1],
                       FeltMul(terms[k][1], QuotientEval(terms[k][2], zeta, terms[k][3])))
    IN  h[Len(terms)]

-----------------------------------------------------------------------------

VARIABLES
    layer,    \* the values of the layer at hand
    log,      \* the logarithm of its size
    folded,   \* the polynomial that the layer ought to be the values of
    wrong,    \* the place of the wrong value, or -1
    deep      \* the last deep composition, with what went into it

friVars == <<layer, log, folded, wrong, deep>>

NoLayer == <<>>
NoDeep == [terms |-> <<>>, zeta |-> 0, value |-> 0]

FriInit == layer = NoLayer /\ log = 0 /\ folded = <<>> /\ wrong = -1 /\ deep = NoDeep

LayerOf(coeffs, l) == [m \in 0..(OneShl[l] - 1) |-> PolyEval(coeffs, DomainPoint(l, m))]

CommitLayer ==
    /\ layer = NoLayer /\ deep = NoDeep
    /\ \E coeffs \in TracePolys :
          LET true == LayerOf(coeffs, TraceLog) IN
          /\ folded' = coeffs
          /\ \/ layer' = true /\ wrong' = -1
             \/ \E m \in 0..(OneShl[TraceLog] - 1), e \in Errors :
                   layer' = [true EXCEPT ![m] = FeltAdd(@, e)] /\ wrong' = m
    /\ log' = TraceLog
    /\ UNCHANGED deep

(* Coefficients of even powers, and beta times those of odd ones.           *)
FoldedPoly(coeffs, beta) ==
    [k \in 1..((Len(coeffs) + 1) \div 2) |->
       FeltAdd(coeffs[2 * k - 1],
               IF 2 * k <= Len(coeffs) THEN FeltMul(beta, coeffs[2 * k]) ELSE 0)]

(* A wrong value goes to the square of its point, except that the one       *)
(* challenge that is minus the point lets it vanish.                        *)
FoldDown ==
    /\ layer # NoLayer /\ log > 0
    /\ \E beta \in Betas :
          /\ layer' = FoldLayer(layer, beta, log)
          /\ folded' = FoldedPoly(folded, beta)
          /\ wrong' = IF wrong = -1 \/ FeltAdd(beta, DomainPoint(log, wrong)) = 0 THEN -1
                      ELSE wrong % OneShl[log - 1]
    /\ log' = log - 1
    /\ UNCHANGED deep

Compose ==
    /\ layer = NoLayer /\ deep = NoDeep
    /\ \E alpha, beta \in Betas, one, other \in TracePolys, zeta, z \in Zetas :
          LET terms == <<<<alpha, one, z>>, <<beta, other, 1>>>>
          IN  deep' = [terms |-> terms, zeta |-> zeta, value |-> DeepComposition(terms, zeta)]
    /\ UNCHANGED <<layer, log, folded, wrong>>

FriForget ==
    /\ layer # NoLayer \/ deep # NoDeep
    /\ layer' = NoLayer /\ log' = 0 /\ folded' = <<>> /\ wrong' = -1 /\ deep' = NoDeep

FriNext == CommitLayer \/ FoldDown \/ Compose \/ FriForget

FriSpec == FriInit /\ [][FriNext]_friVars

-----------------------------------------------------------------------------
(* Division by the polynomial X - z, evaluated at zeta.                     *)
PowersBetween(n, zeta, z) ==
    LET row[j \in 0..n] ==
          IF j = 0 THEN 0
          ELSE FeltAdd(row[j - 1], FeltMul(FeltPow(zeta, j - 1), FeltPow(z, n - j)))
    IN  row[n]
Divided(coeffs, zeta, z) ==
    LET sum[k \in 0..Len(coeffs)] ==
          IF k = 0 THEN 0
          ELSE FeltAdd(sum[k - 1], FeltMul(coeffs[k], PowersBetween(k - 1, zeta, z)))
    IN  sum[Len(coeffs)]

(* What a term of a deep composition adds to it.                            *)
Part(d, k) ==
    LET term == d.terms[k] IN FeltMul(term[1], Divided(term[2], d.zeta, term[3]))

(* A folded layer is the folded polynomial on the next domain, the points   *)
(* of which pair up as opposites; what is wrong in one place stays wrong in *)
(* one place whatever the challenges, unless one of them is minus the point *)
(* of that place; and a verifier that folds two opposite values from either *)
(* of them meets the next layer.  A deep composition at a point that none   *)
(* of its terms queries is the combination of the divided polynomials.      *)
FoldsFollowThePolynomial ==
    /\ layer # NoLayer =>
         LET true == LayerOf(folded, log) IN
         /\ DOMAIN layer = DOMAIN true
         /\ {m \in DOMAIN true : layer[m] # true[m]} = {wrong} \ {-1}
         /\ log > 0 => LET half == OneShl[log - 1] IN \A m \in 0..(half - 1) :
              /\ DomainPoint(log, m + half) = FeltNeg(DomainPoint(log, m))
              /\ DomainPoint(log - 1, m) = FeltPow(DomainPoint(log, m), 2)
              /\ \A beta \in Betas :
                   FoldValue(layer[m + half], layer[m], DomainPoint(log, m + half), beta)
                     = FoldLayer(layer, beta, log)[m]
    /\ deep # NoDeep /\ (\A k \in 1..2 : deep.terms[k][3] # deep.zeta) =>
         deep.value = FeltAdd(Part(deep, 1), Part(deep, 2))
=============================================================================
