----------------------------- MODULE Polynomials -----------------------------
(***************************************************************************)
(* Dense and sparse polynomials with a fixed room for coefficients or      *)
(* terms (soroban-zk-core/src/polynomial.rs).  A dense polynomial is the   *)
(* sequence of its leading len coefficients, lowest first, a sparse one    *)
(* the sequence of its pairs of an exponent and a coefficient.             *)
(*                                                                         *)
(* A caller builds a polynomial of field elements and transforms it; next  *)
(* to it the model keeps the function that it ought to be.                 *)
(***************************************************************************)
EXTENDS Bn254, Sequences, FiniteSets

CONSTANTS
    MAX_COEFFS,    \* room of a dense polynomial
    MAX_TERMS,     \* room of a sparse one
    CoeffLists,    \* sequences of field elements given as coefficients
    TermLists      \* sequences of pairs of an exponent and a field element

VARIABLES
    poly,     \* the polynomial at hand: its form and its content
    meant,    \* the function it stands for
    refused   \* the operation that was refused last, and what it was given

polyVars == <<poly, meant, refused>>

F == 0..(FR_MODULUS - 1)

(* Sizes and exponents are words.                                           *)
ASSUME PolynomialAssumption ==
    /\ MAX_COEFFS \in U256 /\ MAX_TERMS \in U256
    /\ CoeffLists \subseteq Seq(F) /\ TermLists \subseteq Seq(U256 \X F)

FAdd(a, b) == AddMod(a, b, FR_MODULUS)
FSub(a, b) == SubMod(a, b, FR_MODULUS)
FMul(a, b) == MulMod(a, b, FR_MODULUS)

(* The sequence without the zeros at its end.                               *)
Canonical(cs) ==
    LET len == CHOOSE n \in 0..Len(cs) :
                  /\ n = 0 \/ cs[n] # 0
                  /\ \A k \in (n + 1)..Len(cs) : cs[k] = 0
    IN  SubSeq(cs, 1, len)

Coefficient(cs, k) == IF k <= Len(cs) THEN cs[k] ELSE 0
Longer(a, b) == IF Len(a) > Len(b) THEN Len(a) ELSE Len(b)

EvaluateDense(cs, x) ==
    LET n == Len(cs)
        result[k \in 0..n] ==
          IF k = 0 THEN 0 ELSE FAdd(FMul(result[k - 1], x), cs[n + 1 - k])
    IN  result[n]

Combine(a, b, Op(_, _)) ==
    Canonical([k \in 1..Longer(a, b) |-> Op(Coefficient(a, k), Coefficient(b, k))])

(* Mutant of Scaled: the coefficients that become zero stay.                *)
ScaledRaw(cs, s) == [k \in 1..Len(cs) |-> FMul(cs[k], s)]

Scaled(cs, s) == Canonical([k \in 1..Len(cs) |-> FMul(cs[k], s)])

(* The coefficients of a product as the two loops leave them, a row of them *)
(* for each coefficient of a; they are not made canonical again.            *)
ProductDense(a, b) ==
    LET la == Len(a)   lb == Len(b)
        row[i \in 0..la] ==
          [k \in 1..(la + lb - 1) |->
             IF i = 0 THEN 0
             ELSE IF k - i + 1 \in 1..lb
                  THEN FAdd(row[i - 1][k], FMul(a[i], b[k - i + 1])) ELSE row[i - 1][k]]
    IN  IF la = 0 \/ lb = 0 THEN <<>> ELSE row[la]

EvaluateSparse(ts, x) ==
    LET result[k \in 0..Len(ts)] ==
          IF k = 0 THEN 0
          ELSE FAdd(result[k - 1],
                    FMul(ts[k][2],
                         IF ts[k][1] = 0 THEN 1 ELSE PowMod(x, ts[k][1], FR_MODULUS)))
    IN  result[Len(ts)]

(* One term goes to its place among sorted exponents, or into the term that *)
(* is there, which disappears when they cancel; "full" when it has no room. *)
Insert(ts, exp, coeff) ==
    LET at == CHOOSE k \in 1..(Len(ts) + 1) :
                 /\ \A j \in 1..(k - 1) : ts[j][1] < exp
                 /\ k = Len(ts) + 1 \/ ts[k][1] >= exp
        present == at <= Len(ts) /\ ts[at][1] = exp
        new == FAdd(ts[at][2], coeff)
        rest == SubSeq(ts, at + 1, Len(ts))
    IN  CASE coeff = 0 -> [ok |-> TRUE, terms |-> ts]
          [] coeff # 0 /\ present ->
               [ok |-> TRUE,
                terms |-> SubSeq(ts, 1, at - 1)
                            \o (IF new = 0 THEN <<>> ELSE <<<<exp, new>>>>) \o rest]
          [] coeff # 0 /\ ~present /\ Len(ts) = MAX_TERMS -> [ok |-> FALSE, terms |-> ts]
          [] OTHER -> [ok |-> TRUE,
                       terms |-> SubSeq(ts, 1, at - 1) \o <<<<exp, coeff>>>>
                                   \o SubSeq(ts, at, Len(ts))]

FromTerms(list) ==
    LET built[k \in 0..Len(list)] ==
          IF k = 0 THEN [ok |-> TRUE, terms |-> <<>>]
          ELSE IF ~built[k - 1].ok THEN built[k - 1]
          ELSE Insert(built[k - 1].terms, list[k][1], list[k][2])
    IN  built[Len(list)]

SparseDegree(ts) == IF ts = <<>> THEN 0 ELSE ts[Len(ts)][1]

(* A coefficient array of the degree's length, the terms written into it.   *)
Spread(ts) ==
    [k \in 1..(IF ts = <<>> THEN 0 ELSE SparseDegree(ts) + 1) |->
       LET here == {j \in 1..Len(ts) : ts[j][1] = k - 1}
       IN  IF here = {} THEN 0 ELSE ts[CHOOSE j \in here : TRUE][2]]

(* The terms of the coefficients that are not zero, lowest first.           *)
Gathered(cs) ==
    LET kept[k \in 0..Len(cs)] ==
          IF k = 0 THEN <<>>
          ELSE IF cs[k] = 0 THEN kept[k - 1] ELSE Append(kept[k - 1], <<k - 1, cs[k]>>)
    IN  kept[Len(cs)]

-----------------------------------------------------------------------------
(* The exact functions, on integers.                                        *)
SumOf(f, n) == LET s[k \in 0..n] == IF k = 0 THEN 0 ELSE s[k - 1] + f[k] IN s[n]
Raised(x, e) == LET p[k \in 0..e] == IF k = 0 THEN 1 ELSE p[k - 1] * x IN p[e]
FunctionOf(cs) ==
    [x \in F |-> SumOf([k \in 1..Len(cs) |-> cs[k] * Raised(x, k - 1)], Len(cs)) % FR_MODULUS]
FunctionOfTerms(ts) ==
    [x \in F |-> SumOf([k \in 1..Len(ts) |-> ts[k][2] * Raised(x, ts[k][1])], Len(ts)) % FR_MODULUS]

NoPoly == [form |-> "none", content |-> <<>>]
NotRefused == [op |-> "none", given |-> <<>>]

PolyInit == poly = NoPoly /\ meant = [x \in F |-> 0] /\ refused = NotRefused

Become(form, content, function) ==
    /\ poly' = [form |-> form, content |-> content]
    /\ meant' = function
    /\ refused' = NotRefused

Refuse(op, given) == refused' = [op |-> op, given |-> given] /\ UNCHANGED <<poly, meant>>

FromCoefficients(cs) ==
    /\ poly = NoPoly
    /\ IF Len(Canonical(cs)) > MAX_COEFFS THEN Refuse("from_coefficients", cs)
       ELSE Become("dense", Canonical(cs), FunctionOf(cs))

FromTermsSlice(ts) ==
    /\ poly = NoPoly
    /\ IF ~FromTerms(ts).ok THEN Refuse("from_terms", ts)
       ELSE Become("sparse", FromTerms(ts).terms, FunctionOfTerms(ts))

Transform(cs) ==
    LET p == poly.content   q == Canonical(cs)   function == FunctionOf(cs) IN
    /\ poly.form = "dense" /\ Len(q) <= MAX_COEFFS
    /\ \/ Become("dense", Combine(p, q, FAdd), [x \in F |-> (meant[x] + function[x]) % FR_MODULUS])
       \/ Become("dense", Combine(p, q, FSub), [x \in F |-> (meant[x] - function[x]) % FR_MODULUS])
       \/ IF p # <<>> /\ q # <<>> /\ Len(p) + Len(q) - 1 > MAX_COEFFS THEN Refuse("mul", cs)
          ELSE Become("dense", ProductDense(p, q), [x \in F |-> (meant[x] * function[x]) % FR_MODULUS])

Scale(s) ==
    /\ poly.form = "dense"
    /\ Become("dense", Scaled(poly.content, s), [x \in F |-> (meant[x] * s) % FR_MODULUS])

ToSparse ==
    /\ poly.form = "dense"
    /\ IF Len(Gathered(poly.content)) > MAX_TERMS THEN Refuse("to_sparse", <<>>)
       ELSE Become("sparse", Gathered(poly.content), meant)

ToDense ==
    /\ poly.form = "sparse"
    /\ IF poly.content # <<>> /\ SparseDegree(poly.content) + 1 > MAX_COEFFS
       THEN Refuse("to_dense", <<>>)
       ELSE Become("dense", Spread(poly.content), meant)

Forget == poly # NoPoly /\ Become("none", <<>>, [x \in F |-> 0])

PolyNext ==
    \/ \E cs \in CoeffLists : FromCoefficients(cs)
    \/ \E ts \in TermLists : FromTermsSlice(ts)
    \/ \E cs \in CoeffLists : Transform(cs)
    \/ \E s \in F : Scale(s)
    \/ ToSparse \/ ToDense \/ Forget

PolySpec == PolyInit /\ [][PolyNext]_polyVars

-----------------------------------------------------------------------------
(* What an accumulation of the first n terms amounts to.                    *)
Net(ts, n, exp) ==
    SumOf([k \in 1..n |-> IF ts[k][1] = exp THEN ts[k][2] ELSE 0], n) % FR_MODULUS
Crowded(ts, n) ==
    Cardinality({e \in {ts[k][1] : k \in 1..n} : Net(ts, n, e) # 0}) > MAX_TERMS

(* An operation is refused only when its result has no room; for a list of  *)
(* terms, when after some of them the sum so far has none, even if later    *)
(* terms cancel.                                                            *)
RefusalIsRight ==
    LET p == poly.content   n == Len(p) IN
    CASE refused.op = "from_coefficients" ->
           \E k \in DOMAIN refused.given : k > MAX_COEFFS /\ refused.given[k] # 0
      [] refused.op = "from_terms" ->
           \E k \in DOMAIN refused.given : Crowded(refused.given, k)
      [] refused.op = "mul" ->
           \E i, j \in 1..MAX_COEFFS :
              i + j - 1 > MAX_COEFFS /\ Coefficient(p, i) # 0
                /\ Coefficient(refused.given, j) # 0
      [] refused.op = "to_sparse" ->
           Cardinality({k \in 1..n : p[k] # 0}) > MAX_TERMS
      [] refused.op = "to_dense" -> \E k \in 1..n : p[k][1] >= MAX_COEFFS
      [] OTHER -> refused = NotRefused

(* Whatever was done to it, a polynomial evaluates to the function it       *)
(* stands for, its last coefficient or term counts, and its exponents       *)
(* ascend; a refusal has its reason.                                        *)
PolynomialsAreExact ==
    LET p == poly.content   n == Len(p) IN
    /\ poly.form = "dense" =>
         /\ n <= MAX_COEFFS
         /\ \A x \in F : EvaluateDense(p, x) = meant[x]
         /\ n > 0 => p[n] # 0
    /\ poly.form = "sparse" =>
         /\ n <= MAX_TERMS
         /\ \A x \in F : EvaluateSparse(p, x) = meant[x]
         /\ \A k \in 1..n : p[k][2] # 0 /\ (k > 1 => p[k - 1][1] < p[k][1])
    /\ RefusalIsRight
    /\ poly.form = "none" => refused.op \in {"none", "from_coefficients", "from_terms"}
=============================================================================
