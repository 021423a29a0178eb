---------------------------- MODULE Bulletproofs ----------------------------
(***************************************************************************)
(* The range proof (soroban-zk-core/src/bulletproofs.rs): the prover       *)
(* message by message, its inner-product argument round by round, and the  *)
(* verifier, which folds the argument again and adds two residuals up.     *)
(*                                                                         *)
(* A point is the vector of its coefficients over the generators, none of  *)
(* which is known as a multiple of another.  A challenge is a hash of what *)
(* the transcript absorbed: any scalar, the same one for the prover and    *)
(* for the verifier of the same proof.                                     *)
(***************************************************************************)
EXTENDS Bn254, Sequences

CONSTANTS
    BITS,           \* N, the length of the vectors, 64
    IP_ROUNDS,      \* its logarithm
    RangeValues,    \* values to prove in range
    Blindings,      \* blindings gamma
    Streams,        \* streams of scalars drawn from the randomness
    YZChallenges,   \* pairs of challenges y and z
    XChallenges,    \* challenges x of the polynomial
    FoldChallenges, \* challenges of the rounds of the inner product
    Weights         \* weights in a batch

VARIABLES
    pending,  \* the message the prover sends next
    secret,   \* the value, its blinding and the scalars drawn
    proof,    \* the proof as far as it goes
    drawn,    \* the challenges drawn
    ipa,      \* the vectors and generators being folded, and their commitment
    verdict   \* the answer of the last verification, and what was verified

rangeVars == <<pending, secret, proof, drawn, ipa, verdict>>

Scalar == 0..(FR_MODULUS - 1)
ScAdd(a, b) == AddMod(a, b, FR_MODULUS)
ScSub(a, b) == SubMod(a, b, FR_MODULUS)
ScMul(a, b) == MulMod(a, b, FR_MODULUS)
ScInv == [a \in Scalar |-> Invert(a, FR_MODULUS)]

Index == 1..BITS
ScalarStreams ==
    [alpha : Scalar, rho : Scalar, tau1 : Scalar, tau2 : Scalar,
     sL : [Index -> Scalar], sR : [Index -> Scalar]]

(* Rounds halve the vectors down to one; a value is a word, and every other *)
(* input was reduced when it was read.                                      *)
ASSUME RangeAssumption ==
    /\ IP_ROUNDS \in 0..(2 * HalfBits) /\ BITS = TwoTo[IP_ROUNDS] /\ BITS <= 2 * HalfBits
    /\ RangeValues \subseteq U256 /\ Streams \subseteq ScalarStreams
    /\ Blindings \cup XChallenges \cup FoldChallenges \subseteq Scalar
    /\ YZChallenges \subseteq Scalar \X Scalar
    /\ Weights \subseteq Seq(Scalar)
Bases == {<<"G", 0>>, <<"H", 0>>} \cup ({"g", "h"} \X Index)
Base(b) == [c \in Bases |-> IF c = b THEN 1 ELSE 0]
Origin == [c \in Bases |-> 0]
GValue == Base(<<"G", 0>>)
HBlind == Base(<<"H", 0>>)
GVec == [k \in Index |-> Base(<<"g", k>>)]
HVec == [k \in Index |-> Base(<<"h", k>>)]

AddScaled(p, q, s) == [c \in Bases |-> ScAdd(p[c], ScMul(q[c], s))]
LinComb(p, s, q, t) == AddScaled(AddScaled(Origin, p, s), q, t)
NegProj(p) == [c \in Bases |-> ScSub(0, p[c])]

(* Sums of scaled points, of points and of products of scalars.             *)
Msm(points, scalars) ==
    LET acc[k \in 0..Len(points)] ==
          IF k = 0 THEN Origin ELSE AddScaled(acc[k - 1], points[k], scalars[k])
    IN  acc[Len(points)]
SumPoints(points) == Msm(points, [k \in DOMAIN points |-> 1])
InnerProd(a, b) ==
    LET acc[k \in 0..Len(a)] == IF k = 0 THEN 0 ELSE ScAdd(acc[k - 1], ScMul(a[k], b[k]))
    IN  acc[Len(a)]

Powers(base) ==
    LET pw[k \in 1..(BITS + 1)] == IF k = 1 THEN 1 ELSE ScMul(pw[k - 1], base)
    IN  [k \in Index |-> pw[k]]

ComputeHTilde(y) ==
    LET yInv == Powers(ScInv[y]) IN [k \in Index |-> AddScaled(Origin, HVec[k], yInv[k])]

(* Mutant of ComputeP: the blinding mu is not taken off.                    *)
ComputePBlinded(a, s, y, z, x, tHat, mu) ==
    LET blinded == AddScaled(AddScaled(a, s, x), HBlind, tHat)
        ones == LinComb(SumPoints(GVec), ScSub(0, z), SumPoints(HVec), z)
    IN  AddScaled(AddScaled(blinded, ones, 1), Msm(ComputeHTilde(y), Powers(2)), ScMul(z, z))

(* The commitment that the inner product is about, from public data.        *)
ComputeP(a, s, y, z, x, tHat, mu) ==
    LET blinded == AddScaled(AddScaled(a, s, x), HBlind, ScSub(tHat, mu))
        ones == LinComb(SumPoints(GVec), ScSub(0, z), SumPoints(HVec), z)
    IN  AddScaled(AddScaled(blinded, ones, 1), Msm(ComputeHTilde(y), Powers(2)), ScMul(z, z))

-----------------------------------------------------------------------------
(* The prover.                                                              *)

NotStarted == [v |-> 0]
NoProof == [l |-> <<>>, r |-> <<>>]
NoVerdict == [call |-> "none"]

RangeInit ==
    /\ pending = "idle" /\ secret = NotStarted /\ proof = NoProof
    /\ drawn = <<>> /\ ipa = <<>> /\ verdict = NoVerdict

Bit(k) == (secret.v \div TwoTo[k - 1]) % 2
ARight(k) == IF Bit(k) = 0 THEN FR_MODULUS - 1 ELSE 0

Committed(left, right) == AddScaled(Msm(GVec, left), Msm(HVec, right), 1)
CommitValue(v, gamma) == AddScaled(AddScaled(Origin, GValue, v), HBlind, gamma)

(* A value out of range is refused, and so is a stream with a zero in it.   *)
BeginProof ==
    /\ pending = "idle" /\ verdict = NoVerdict
    /\ \E v \in RangeValues, gamma \in Blindings, st \in Streams :
          IF v >= TwoTo[BITS] \/ 0 \in {st.alpha, st.rho, st.tau1, st.tau2}
                \/ \E k \in Index : 0 \in {st.sL[k], st.sR[k]}
          THEN /\ verdict' = [call |-> "prove", ok |-> FALSE]
               /\ UNCHANGED <<pending, secret, proof, drawn, ipa>>
          ELSE /\ pending' = "commit"
               /\ secret' = [v |-> v, gamma |-> gamma, stream |-> st]
               /\ UNCHANGED <<proof, drawn, ipa, verdict>>

SendCommitments ==
    LET st == secret.stream IN
    /\ pending = "commit"
    /\ proof' = [v |-> CommitValue(secret.v, secret.gamma),
                 a |-> AddScaled(Committed([k \in Index |-> Bit(k)], [k \in Index |-> ARight(k)]),
                                 HBlind, st.alpha),
                 s |-> AddScaled(Committed(st.sL, st.sR), HBlind, st.rho),
                 l |-> <<>>, r |-> <<>>]
    /\ \E c \in YZChallenges : drawn' = <<c[1], c[2]>>
    /\ pending' = "polynomial"
    /\ UNCHANGED <<secret, ipa, verdict>>

(* The coefficients of r(X), and those of l(X) but for the bit.             *)
BaseR ==
    LET y == Powers(drawn[1])   z == drawn[2]   two == Powers(2)
    IN  [k \in Index |-> ScAdd(ScAdd(ScMul(y[k], ARight(k)), ScMul(z, y[k])),
                               ScMul(ScMul(z, z), two[k]))]
BaseRs == LET y == Powers(drawn[1]) IN [k \in Index |-> ScMul(y[k], secret.stream.sR[k])]

SendPolynomial ==
    LET st == secret.stream
        bits == [k \in Index |-> Bit(k)]
        t1 == ScSub(ScAdd(InnerProd(bits, BaseRs), InnerProd(st.sL, BaseR)),
                    ScMul(drawn[2], InnerProd([k \in Index |-> 1], BaseRs)))
        t2 == InnerProd(st.sL, BaseRs)
    IN
    /\ pending = "polynomial"
    /\ proof' = [v |-> proof.v, a |-> proof.a, s |-> proof.s,
                 t1 |-> LinComb(GValue, t1, HBlind, st.tau1),
                 t2 |-> LinComb(GValue, t2, HBlind, st.tau2),
                 l |-> <<>>, r |-> <<>>]
    /\ \E x \in XChallenges : drawn' = Append(drawn, x)
    /\ pending' = "evaluate"
    /\ UNCHANGED <<secret, ipa, verdict>>

Evaluate ==
    LET st == secret.stream   z == drawn[2]   x == drawn[3]
        lX == [k \in Index |-> ScAdd(ScSub(Bit(k), z), ScMul(x, st.sL[k]))]
        rX == LET base == BaseR   other == BaseRs
              IN  [k \in Index |-> ScAdd(base[k], ScMul(x, other[k]))]
        tHat == InnerProd(lX, rX)
        mu == ScAdd(st.alpha, ScMul(x, st.rho))
        taux == ScAdd(ScAdd(ScMul(ScMul(x, x), st.tau2), ScMul(x, st.tau1)),
                      ScMul(ScMul(z, z), secret.gamma))
    IN
    /\ pending = "evaluate"
    /\ proof' = [v |-> proof.v, a |-> proof.a, s |-> proof.s, t1 |-> proof.t1,
                 t2 |-> proof.t2, l |-> <<>>, r |-> <<>>,
                 tHat |-> tHat, mu |-> mu, taux |-> taux]
    /\ ipa' = [a |-> lX, b |-> rX,
               g |-> GVec, h |-> ComputeHTilde(drawn[1]),
               p |-> ComputeP(proof.a, proof.s, drawn[1], z, x, tHat, mu)]
    /\ pending' = "fold"
    /\ UNCHANGED <<secret, drawn, verdict>>

-----------------------------------------------------------------------------
(* The inner-product argument.                                              *)

(* Half of the generators, each the combination of two.                     *)
Halve(g, lo, hi) ==
    LET half == Len(g) \div 2
    IN  [k \in 1..half |-> LinComb(g[k], lo, g[half + k], hi)]
HalveScalars(a, lo, hi) ==
    LET half == Len(a) \div 2
    IN  [k \in 1..half |-> ScAdd(ScMul(a[k], lo), ScMul(a[half + k], hi))]
FoldCommitments(p, l, r, x) ==
    LET xInv == ScInv[x]
    IN  AddScaled(AddScaled(p, l, ScMul(x, x)), r, ScMul(xInv, xInv))

(* a and g cross halves, and so do b and h; their product goes on q.        *)
Cross(a, g, b, h) ==
    AddScaled(AddScaled(Msm(g, a), Msm(h, b), 1), HBlind, InnerProd(a, b))

FoldRound ==
    LET half == Len(ipa.a) \div 2
        Low(v) == SubSeq(v, 1, half)
        Up(v) == SubSeq(v, half + 1, 2 * half)
        l == Cross(Low(ipa.a), Up(ipa.g), Up(ipa.b), Low(ipa.h))
        r == Cross(Up(ipa.a), Low(ipa.g), Low(ipa.b), Up(ipa.h))
    IN
    /\ pending = "fold" /\ Len(ipa.a) > 1
    /\ proof' = [proof EXCEPT !.l = Append(@, l), !.r = Append(@, r)]
    /\ \E x \in FoldChallenges :
          /\ drawn' = Append(drawn, x)
          /\ ipa' = [a |-> HalveScalars(ipa.a, x, ScInv[x]),
                     b |-> HalveScalars(ipa.b, ScInv[x], x),
                     g |-> Halve(ipa.g, ScInv[x], x), h |-> Halve(ipa.h, x, ScInv[x]),
                     p |-> FoldCommitments(ipa.p, l, r, x)]
    /\ UNCHANGED <<pending, secret, verdict>>

SendScalars ==
    /\ pending = "fold" /\ Len(ipa.a) = 1
    /\ pending' = "proved"
    /\ UNCHANGED <<secret, proof, drawn, ipa, verdict>>

-----------------------------------------------------------------------------
(* The verifier, with the same challenges.                                  *)

(* The last scalars of a proof, as a verifier may be given them.            *)
LastScalars == [taux |-> proof.taux, a |-> ipa.a[1], b |-> ipa.b[1]]

IpaFold(p0, g0, h0) ==
    LET f[k \in 0..IP_ROUNDS] ==
          IF k = 0 THEN [g |-> g0, h |-> h0, p |-> p0]
          ELSE LET prev == f[k - 1]   x == drawn[3 + k]
               IN  [g |-> Halve(prev.g, ScInv[x], x), h |-> Halve(prev.h, x, ScInv[x]),
                    p |-> FoldCommitments(prev.p, proof.l[k], proof.r[k], x)]
    IN  f[IP_ROUNDS]

ComputeResidual(last) ==
    LET y == drawn[1]   z == drawn[2]   x == drawn[3]
        z2 == ScMul(z, z)
        sumY == InnerProd([k \in Index |-> 1], Powers(y))
        delta == ScSub(ScMul(ScSub(z, z2), sumY),
                       ScMul(ScMul(z2, z), (TwoTo[BITS] - 1) % FR_MODULUS))
        e1 == AddScaled(AddScaled(AddScaled(
                LinComb(GValue, ScSub(proof.tHat, delta), HBlind, last.taux),
                proof.t2, ScSub(0, ScMul(x, x))), proof.t1, ScSub(0, x)),
                proof.v, ScSub(0, z2))
        p == ComputeP(proof.a, proof.s, y, z, x, proof.tHat, proof.mu)
        folded == IpaFold(p, GVec, ComputeHTilde(y))
        target == AddScaled(LinComb(folded.g[1], last.a, folded.h[1], last.b),
                            HBlind, ScMul(last.a, last.b))
    IN  AddScaled(e1, AddScaled(folded.p, NegProj(target), 1), 1)

VerifyProof(last) == ComputeResidual(last) = Origin

(* The residuals of a batch, each with its weight; an empty batch passes.   *)
VerifyBatch(batch, weights) ==
    Msm([j \in DOMAIN batch |-> ComputeResidual(batch[j])], weights) = Origin

Altered ==
    {LastScalars} \cup
    {[LastScalars EXCEPT ![f] = ScAdd(@, 1)] : f \in {"taux", "a", "b"}}

Ask ==
    /\ pending = "proved" /\ verdict = NoVerdict
    /\ \E last \in Altered :
          \/ verdict' = [call |-> "verify", ok |-> VerifyProof(last), batch |-> <<last>>,
                         weights |-> <<1>>]
          \/ \E weights \in Weights : \E honest \in SUBSET (DOMAIN weights) :
               LET batch == [j \in DOMAIN weights |->
                               IF j \in honest THEN LastScalars ELSE last]
               IN  verdict' = [call |-> "batch", ok |-> VerifyBatch(batch, weights),
                               batch |-> batch, weights |-> weights]
    /\ UNCHANGED <<pending, secret, proof, drawn, ipa>>

FinishProof ==
    /\ verdict # NoVerdict
    /\ pending' = "idle" /\ secret' = NotStarted /\ proof' = NoProof
    /\ drawn' = <<>> /\ ipa' = <<>> /\ verdict' = NoVerdict

RangeNext ==
    \/ BeginProof \/ SendCommitments \/ SendPolynomial \/ Evaluate \/ FoldRound
    \/ SendScalars \/ Ask \/ FinishProof

RangeSpec == RangeInit /\ [][RangeNext]_rangeVars

-----------------------------------------------------------------------------
(* No challenge that is inverted is zero.                                   *)
Invertible == drawn[1] # 0 /\ \A k \in 4..Len(drawn) : drawn[k] # 0

(* The commitment of every round is that of the folded vectors over the     *)
(* folded generators with their inner product.  The proof of a value in     *)
(* range verifies for all challenges that have inverses; a proof with       *)
(* another last scalar does not.  A batch passes when its proofs do, and    *)
(* does not when one alone is wrong and its weight is not zero.             *)
RangeProofsAreComplete ==
    /\ pending \in {"fold", "proved"} /\ Invertible =>
         ipa.p = Cross(ipa.a, ipa.g, ipa.b, ipa.h)
    /\ verdict.call \in {"verify", "batch"} /\ Invertible =>
         LET wrong == {j \in DOMAIN verdict.batch : verdict.batch[j] # LastScalars}
         IN  /\ wrong = {} => verdict.ok
             /\ (\E j \in wrong : wrong = {j} /\ verdict.weights[j] # 0) => ~verdict.ok
=============================================================================
