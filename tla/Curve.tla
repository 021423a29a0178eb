------------------------------- MODULE Curve -------------------------------
(***************************************************************************)
(* The groups G1 and G2 of the curve, the checks of points, ElGamal and    *)
(* KZG commitments (soroban-zk-core/src/lib.rs), over the fields of Bn254. *)
(* A caller computes with a point, checks a point, encrypts and decrypts,  *)
(* or commits; the library keeps no state of its own.                      *)
(***************************************************************************)
EXTENDS Bn254, Sequences

CONSTANTS
    Bits,          \* 254: the bits of a scalar that the ladder looks at
    G1_B,          \* the coefficient of G1, 3
    G2_B,          \* the coefficient of G2, a pair
    G1Generator,   \* (1, 2)
    G2Generator,   \* a point of the subgroup of G2, as a pair of pairs
    Scalars,       \* words given as scalars
    Scales,        \* coordinates z that a point is given with
    G2Scales,
    Candidates,    \* pairs of pairs given to the checks of G2
    Polynomials,   \* sequences of coefficients
    Srs,           \* the points of a reference string, by their logarithms
    MaxSteps       \* operations on a point of G2

ZERO == <<0, 0>>

AddFq(a, b) == AddMod(a, b, FQ_MODULUS)
SubFq(a, b) == SubMod(a, b, FQ_MODULUS)
MulFq(a, b) == MulMod(a, b, FQ_MODULUS)
SquareFq(a) == MulFq(a, a)
SmallFq(n) == n

(* Elements of the quadratic extension, u^2 = -1.                            *)
AddFq2(a, b) == <<AddFq(a[1], b[1]), AddFq(a[2], b[2])>>
SubFq2(a, b) == <<SubFq(a[1], b[1]), SubFq(a[2], b[2])>>

(* Mutant of MulFq2: the real part is not subtracted from the middle one.   *)
MulFq2Middle(a, b) ==
    LET k0 == MulFq(a[1], b[1])   k2 == MulFq(a[2], b[2])
        k1 == MulFq(AddFq(a[1], a[2]), AddFq(b[1], b[2]))
    IN  <<SubFq(k0, k2), SubFq(k1, k2)>>

MulFq2(a, b) ==
    LET k0 == MulFq(a[1], b[1])   k2 == MulFq(a[2], b[2])
        k1 == MulFq(AddFq(a[1], a[2]), AddFq(b[1], b[2]))
    IN  <<SubFq(k0, k2), SubFq(SubFq(k1, k0), k2)>>

SquareFq2(a) ==
    LET cross == MulFq(a[1], a[2])
    IN  <<SubFq(SquareFq(a[1]), SquareFq(a[2])), AddFq(cross, cross)>>
SmallFq2(n) == <<n, 0>>

G1 == INSTANCE Jacobian WITH
        Plus <- AddFq, Minus <- SubFq, Times <- MulFq, Square <- SquareFq,
        Small <- SmallFq, Order <- FR_MODULUS
G2 == INSTANCE Jacobian WITH
        Plus <- AddFq2, Minus <- SubFq2, Times <- MulFq2, Square <- SquareFq2,
        Small <- SmallFq2, Order <- FR_MODULUS

(* Affine points are pairs, the identity is (0, 0).                          *)
FromAffine(p) == IF p = ZERO THEN G1!Identity ELSE [x |-> p[1], y |-> p[2], z |-> 1]

ToAffine(p) ==
    LET inv == Invert(p.z, FQ_MODULUS)   sq == SquareFq(inv)
    IN  IF G1!IsIdentity(p) THEN ZERO
        ELSE <<MulFq(p.x, sq), MulFq(p.y, MulFq(sq, inv))>>

AffineMul(p, scalar) == ToAffine(G1!ScalarMul(FromAffine(p), scalar))
AffineAdd(p, q) == ToAffine(G1!Add(FromAffine(p), FromAffine(q)))

-----------------------------------------------------------------------------
(* The checks of points.                                                    *)

IsValidG1(x, y) ==
    /\ <<x, y>> # ZERO
    /\ IsReduced(x, FQ_MODULUS) /\ IsReduced(y, FQ_MODULUS)
    /\ SquareFq(y) = AddFq(MulFq(SquareFq(x), x), G1_B)

IsValidG1Subgroup(x, y) ==
    /\ IsValidG1(x, y)
    /\ G1!IsIdentity(G1!ScalarMul(FromAffine(<<x, y>>), FR_MODULUS))

IsOnCurve(x, y) ==
    /\ <<x, y>> # <<ZERO, ZERO>>
    /\ \A c \in {x[1], x[2], y[1], y[2]} : IsReduced(c, FQ_MODULUS)
    /\ SquareFq2(y) = AddFq2(MulFq2(SquareFq2(x), x), G2_B)

(* The scalar is the order, which ScalarMul reduces to zero.                *)
IsInCorrectSubgroup(x, y) ==
    /\ IsOnCurve(x, y)
    /\ G2!IsIdentity(G2!ScalarMul([x |-> x, y |-> y, z |-> SmallFq2(1)], FR_MODULUS))

-----------------------------------------------------------------------------
(* The search for generators of a range proof, of unknown logarithms.       *)

(* The point of coordinate x, or nothing.                                   *)
G1FromX(x) ==
    LET rhs == AddFq(MulFq(SquareFq(x), x), G1_B)   y == SqrtFq(rhs)
    IN  IF x >= FQ_MODULUS \/ SquareFq(y) # rhs THEN {} ELSE {<<x, y>>}

(* From the hash of a seed upwards, around the field, to the first point.   *)
HashToCurve(hash) ==
    LET candidate[k \in 0..FQ_MODULUS] ==
          IF k = 0 THEN hash ELSE AddFq(candidate[k - 1], 1)
        first == CHOOSE k \in 0..FQ_MODULUS :
                   /\ G1FromX(candidate[k]) # {}
                   /\ \A j \in 0..(k - 1) : G1FromX(candidate[j]) = {}
    IN  CHOOSE p \in G1FromX(candidate[first]) : TRUE

-----------------------------------------------------------------------------
(* ElGamal and KZG.                                                         *)

Encrypt(amount, pubKey, ephemeral) ==
    IF ~IsReduced(amount, FR_MODULUS) \/ ~IsReduced(ephemeral, FR_MODULUS)
    THEN [status |-> "InvalidFieldElement", c1 |-> ZERO, c2 |-> ZERO]
    ELSE [status |-> "ok", c1 |-> AffineMul(G1Generator, ephemeral),
          c2 |-> AffineAdd(AffineMul(G1Generator, amount), AffineMul(pubKey, ephemeral))]

(* Mutant of DecryptAmountPoint: the shared secret is added.                *)
DecryptPlus(c, key) ==
    IF ~IsReduced(key, FR_MODULUS)
    THEN [status |-> "InvalidFieldElement", point |-> ZERO]
    ELSE [status |-> "ok", point |-> AffineAdd(c.c2, AffineMul(c.c1, key))]

DecryptAmountPoint(c, key) ==
    LET secret == AffineMul(c.c1, key)
    IN  IF ~IsReduced(key, FR_MODULUS)
        THEN [status |-> "InvalidFieldElement", point |-> ZERO]
        ELSE [status |-> "ok",
              point |-> AffineAdd(c.c2, <<secret[1], SubFq(0, secret[2])>>)]

(* Mutant of KzgCommit: a polynomial longer than the string is cut.         *)
KzgCommitCut(poly, srs) ==
    LET n == IF Len(poly) > Len(srs) THEN Len(srs) ELSE Len(poly)
        acc[k \in 0..n] ==
          IF k = 0 THEN G1!Identity
          ELSE G1!Add(acc[k - 1], G1!ScalarMul(FromAffine(srs[k]), poly[k]))
    IN  [status |-> "ok", point |-> ToAffine(acc[n])]

KzgCommit(poly, srs) ==
    LET acc[k \in 0..Len(poly)] ==
          IF k = 0 THEN G1!Identity
          ELSE G1!Add(acc[k - 1], G1!ScalarMul(FromAffine(srs[k]), poly[k]))
    IN  IF Len(poly) > Len(srs) THEN [status |-> "InvalidInput", point |-> ZERO]
        ELSE [status |-> "ok", point |-> ToAffine(acc[Len(poly)])]

-----------------------------------------------------------------------------
(* The group by chord and tangent, on affine points, as the reference.      *)

Fq == 0..(FQ_MODULUS - 1)
O == <<>>

TimesSchoolbook(a, b) ==
    <<(a[1] * b[1] - a[2] * b[2]) % FQ_MODULUS, (a[1] * b[2] + a[2] * b[1]) % FQ_MODULUS>>
Element(v) == <<v, 0>>
Difference(a, b) == <<(a[1] - b[1]) % FQ_MODULUS, (a[2] - b[2]) % FQ_MODULUS>>
Inverse(a) ==
    LET norm == CHOOSE n \in Fq : (n * (a[1] * a[1] + a[2] * a[2])) % FQ_MODULUS = 1
    IN  <<(a[1] * norm) % FQ_MODULUS, (-a[2] * norm) % FQ_MODULUS>>

(* P + Q on the curve over the extension field, of which G1 is a part.      *)
Chord(p, q) ==
    LET slope == IF p # q
          THEN TimesSchoolbook(Difference(q[2], p[2]), Inverse(Difference(q[1], p[1])))
          ELSE TimesSchoolbook(TimesSchoolbook(<<3, 0>>, TimesSchoolbook(p[1], p[1])),
                               Inverse(TimesSchoolbook(<<2, 0>>, p[2])))
        x == Difference(Difference(TimesSchoolbook(slope, slope), p[1]), q[1])
    IN  <<x, Difference(TimesSchoolbook(slope, Difference(p[1], x)), p[2])>>

RefAdd(p, q) ==
    CASE p = O -> q
      [] q = O -> p
      [] p # O /\ q # O /\ p[1] = q[1] /\ p[2] = Difference(ZERO, q[2]) -> O
      [] OTHER -> Chord(p, q)

RefMul(p, n) ==
    LET sum[k \in 0..n] == IF k = 0 THEN O ELSE RefAdd(sum[k - 1], p) IN sum[n]

G1Base == <<Element(G1Generator[1]), Element(G1Generator[2])>>
G1Multiple == [n \in 0..(FR_MODULUS - 1) |-> RefMul(G1Base, n)]
G2Multiple == [n \in 0..(FR_MODULUS - 1) |-> RefMul(G2Generator, n)]
G1Affine(n) == LET p == G1Multiple[n] IN IF p = O THEN ZERO ELSE <<p[1][1], p[2][1]>>

(* Coordinates over the extension field that represent a reference point.   *)
Represents(x, y, z, p) ==
    LET zz == TimesSchoolbook(z, z)
    IN  IF z = ZERO THEN p = O
        ELSE /\ p # O
             /\ x = TimesSchoolbook(p[1], zz)
             /\ y = TimesSchoolbook(p[2], TimesSchoolbook(z, zz))

-----------------------------------------------------------------------------

VARIABLES
    group,   \* "G1" or "G2": where the caller computes
    acc,     \* the point it has, in Jacobian coordinates
    ref,     \* the point it should have
    steps,   \* operations on a point of G2 so far
    cipher,  \* a ciphertext with what went into it, or NoCipher
    reply    \* the last check, decryption or commitment

curveVars == <<group, acc, ref, steps, cipher, reply>>

NoCipher == [amount |-> 0, key |-> 0, ephemeral |-> 0,
             c |-> [status |-> "none", c1 |-> ZERO, c2 |-> ZERO]]
NoReply == [call |-> "none", input |-> <<>>, out |-> [status |-> "none", point |-> ZERO]]

CurveInit ==
    /\ group \in {"G1", "G2", "none"}
    /\ acc = IF group = "G2" THEN G2!Identity ELSE G1!Identity
    /\ ref = O /\ steps = 0
    /\ cipher = NoCipher /\ reply = NoReply

Others == UNCHANGED <<group, cipher, reply>>

(* A point of G1 is doubled, or added to in any coordinates, scaled, or      *)
(* goes through affine coordinates.                                        *)
DoubleG1 ==
    /\ group = "G1"
    /\ acc' = G1!Double(acc) /\ ref' = RefAdd(ref, ref)
    /\ Others /\ UNCHANGED steps

AddG1(n, z) ==
    /\ group = "G1"
    /\ LET p == G1Affine(n)   zz == SquareFq(z) IN
          acc' = G1!Add(acc, IF p = ZERO THEN G1!Identity
                             ELSE [x |-> MulFq(p[1], zz), y |-> MulFq(p[2], MulFq(z, zz)),
                                   z |-> z])
    /\ ref' = RefAdd(ref, G1Multiple[n])
    /\ Others /\ UNCHANGED steps

ScaleG1(s) ==
    /\ group = "G1"
    /\ acc' = G1!ScalarMul(acc, s) /\ ref' = RefMul(ref, s)
    /\ Others /\ UNCHANGED steps

NormalizeG1 ==
    /\ group = "G1"
    /\ acc' = FromAffine(ToAffine(acc)) /\ ref' = ref
    /\ Others /\ UNCHANGED steps

(* So is a point of the subgroup of G2, except that G2 has no affine form.   *)
StepG2 == group = "G2" /\ steps < MaxSteps /\ steps' = steps + 1 /\ Others

DoubleG2 == StepG2 /\ acc' = G2!Double(acc) /\ ref' = RefAdd(ref, ref)

AddG2(n, z) ==
    /\ StepG2
    /\ LET p == G2Multiple[n]   zz == SquareFq2(z) IN
          acc' = G2!Add(acc, IF p = O THEN G2!Identity
                             ELSE [x |-> MulFq2(p[1], zz), y |-> MulFq2(p[2], MulFq2(z, zz)),
                                   z |-> z])
    /\ ref' = RefAdd(ref, G2Multiple[n])

ScaleG2(s) == StepG2 /\ acc' = G2!ScalarMul(acc, s) /\ ref' = RefMul(ref, s)

(* The other calls stand alone, but for decryption, which follows encryption.*)
Answer(call, input, out) ==
    /\ reply' = [call |-> call, input |-> input, out |-> out]
    /\ UNCHANGED <<group, acc, ref, steps, cipher>>

Verdict(b) == [status |-> IF b THEN "ok" ELSE "invalid", point |-> ZERO]

CheckG1(x, y) == Answer("g1", <<x, y>>, Verdict(IsValidG1Subgroup(x, y)))
CheckG2(x, y) == Answer("g2", <<x, y>>, Verdict(IsInCorrectSubgroup(x, y)))
Derive(hash) ==
    Answer("generator", <<hash>>, [status |-> "ok", point |-> HashToCurve(hash)])
Commit(poly) ==
    Answer("kzg", poly, KzgCommit(poly, [k \in DOMAIN Srs |-> G1Affine(Srs[k])]))

EncryptTo(amount, key, ephemeral) ==
    /\ cipher' = [amount |-> amount, key |-> key, ephemeral |-> ephemeral,
                  c |-> Encrypt(amount, AffineMul(G1Generator, key), ephemeral)]
    /\ UNCHANGED <<group, acc, ref, steps, reply>>

Decrypt(key) ==
    /\ cipher.c.status = "ok" /\ reply = NoReply
    /\ Answer("decrypt", <<key>>, DecryptAmountPoint(cipher.c, key))

Idle == group = "none" /\ cipher = NoCipher /\ reply = NoReply

(* A computation ends and leaves nothing behind.                             *)
Forget ==
    /\ acc' = (IF group = "G2" THEN G2!Identity ELSE G1!Identity) /\ ref' = O
    /\ steps' = 0 /\ cipher' = NoCipher /\ reply' = NoReply
    /\ UNCHANGED group

CurveNext ==
    \/ DoubleG1 \/ NormalizeG1 \/ \E s \in Scalars : ScaleG1(s)
    \/ \E n \in 0..(FR_MODULUS - 1), z \in Scales : AddG1(n, z)
    \/ DoubleG2 \/ \E s \in Scalars : ScaleG2(s)
    \/ \E n \in 0..(FR_MODULUS - 1), z \in G2Scales : AddG2(n, z)
    \/ Idle /\ \E x, y \in 0..(FQ_MODULUS + 1) : CheckG1(x, y)
    \/ Idle /\ \E c \in Candidates : CheckG2(c[1], c[2])
    \/ Idle /\ \E poly \in Polynomials : Commit(poly)
    \/ Idle /\ \E hash \in Fq : Derive(hash)
    \/ Idle /\ \E amount, key, ephemeral \in Scalars : EncryptTo(amount, key, ephemeral)
    \/ \E key \in Scalars : Decrypt(key)
    \/ Forget

CurveSpec == CurveInit /\ [][CurveNext]_curveVars

-----------------------------------------------------------------------------

(* However a point came about, through doubling, adding equal, opposite or   *)
(* identical operands in any coordinates, or scaling by any word, it is the *)
(* point of the group law.                                                  *)
PointIsGroupLaw ==
    IF group = "G2" THEN Represents(acc.x, acc.y, acc.z, ref)
    ELSE Represents(Element(acc.x), Element(acc.y), Element(acc.z), ref)

(* Decryption under the key of the ciphertext returns the point of the      *)
(* amount, and under another key it does not unless the ephemeral scalar is *)
(* zero.                                                                   *)
DecryptsToAmount ==
    reply.call = "decrypt" /\ reply.out.status = "ok" =>
        (reply.out.point = G1Affine(cipher.amount))
            <=> (\/ reply.input[1] = cipher.key % FR_MODULUS
                 \/ cipher.ephemeral = 0)

Dot(poly) ==
    LET sum[k \in 0..Len(poly)] == IF k = 0 THEN 0 ELSE sum[k - 1] + poly[k] * Srs[k]
    IN  sum[Len(poly)] % FR_MODULUS

(* A commitment is the value of the polynomial at the point of the string,  *)
(* for coefficients of any size, and a polynomial longer than the string is *)
(* refused.  Every point of the group but the identity passes the checks,   *)
(* and what is no point of G1 does not pass that of G1.  From any hash a    *)
(* generator is found, whose coordinate is the next that a point has.       *)
GroupCallsAreExact ==
    /\ reply.call = "kzg" =>
          IF Len(reply.input) > Len(Srs) THEN reply.out.status = "InvalidInput"
          ELSE reply.out = [status |-> "ok", point |-> G1Affine(Dot(reply.input))]
    /\ reply.call = "g1" =>
          ((reply.out.status = "ok")
            <=> \E n \in 1..(FR_MODULUS - 1) : reply.input = G1Affine(n))
    /\ reply.call = "g2" /\ (\E n \in 1..(FR_MODULUS - 1) : reply.input = G2Multiple[n]) =>
          reply.out.status = "ok"
    /\ reply.call = "generator" =>
          LET x(n) == G1Affine(n)[1]
              above(n) == (x(n) - reply.input[1]) % FQ_MODULUS
          IN  \E n \in 1..(FR_MODULUS - 1) :
                 /\ reply.out.point = G1Affine(n)
                 /\ \A o \in 1..(FR_MODULUS - 1) : above(n) <= above(o)

(* "a point lying in a coset of the cofactor (e.g. a small-subgroup point)  *)
(* does not" pass the check of the subgroup.                                *)
OnlySubgroupPasses ==
    reply.call = "g2" /\ reply.out.status = "ok" =>
        \E n \in 1..(FR_MODULUS - 1) : reply.input = G2Multiple[n]
=============================================================================
